----------------------- MODULE ReadonlySessionProofs -----------------------
(***************************************************************************)
(* Theorems about ReadonlySession, for any number of calls, results, rows  *)
(* and migrations.                                                         *)
(***************************************************************************)
EXTENDS ReadonlySession, TLAPS

Piece == [count : Nat, truncated : BOOLEAN]

(* What a job asks for is bounded. *)
LEMMA JobFacts ==
  ASSUME NEW j \in Jobs
  PROVE  /\ j.kind \in {"sql", "schema"}
         /\ j.kind = "sql" => /\ j.sets \in Seq(Nat \cup {NoRows})
                              /\ Len(j.sets) \in Nat
                              /\ j.max \in Nat
                              /\ Route(j) = "sql"
         /\ Queries(j) \in {1, 3}
         /\ Route(j) = "inspect" => Queries(j) = 3 /\ j.kind = "schema"
<1>1. j \in SqlJob \/ j \in SchemaJob
  BY SessionAssumption
<1>2. CASE j \in SqlJob
  <2>1. j.kind = "sql" /\ j.sets \in Seq(Nat \cup {NoRows}) /\ j.max \in 1 .. MaxRows
    BY <1>2 DEF SqlJob
  <2>2. Route(j) = "sql" /\ Queries(j) = 1
    BY <2>1 DEF Route, Queries
  <2>3. QED
    BY <2>1, <2>2, SessionAssumption
<1>3. CASE j \in SchemaJob
  <2>1. j.kind = "schema"
    BY <1>3 DEF SchemaJob
  <2>2. Queries(j) \in {1, 3} /\ (Route(j) = "inspect" => Queries(j) = 3)
    BY DEF Queries
  <2>3. QED
    BY <2>1, <2>2
<1>4. QED
  BY <1>1, <1>2, <1>3

LEMMA CollectedFacts ==
  ASSUME NEW n \in Nat \cup {NoRows}, NEW max \in Nat
  PROVE  /\ Collected(n, max) \in Piece
         /\ 1 .. Collected(n, max).count = {row \in 1 .. n : row <= max}
         /\ Collected(n, max).truncated <=> n > max
<1>1. CASE n = NoRows
  <2>1. Collected(n, max) = [count |-> 0, truncated |-> FALSE] /\ n = -1
    BY <1>1 DEF Collected, NoRows
  <2>2. QED
    BY <2>1 DEF Piece
<1>2. CASE n \in Nat
  <2>1. n # NoRows
    BY <1>2 DEF NoRows
  <2> DEFINE fetched == IF n <= max + 1 THEN n ELSE max + 1
             kept == IF fetched <= max THEN fetched ELSE max
  <2>0. Collected(n, max) = [count |-> kept, truncated |-> fetched > max]
    BY <2>1 DEF Collected
  <2>2. CASE n <= max
    <3>1. {row \in 1 .. n : row <= max} = 1 .. n
      BY <1>2, <2>2
    <3>2. kept = n /\ (fetched > max) = FALSE
      BY <1>2, <2>2
    <3> HIDE DEF kept, fetched
    <3>3. Collected(n, max) = [count |-> n, truncated |-> FALSE]
      BY <2>0, <3>2, Zenon
    <3>4. QED
      BY <1>2, <2>2, <3>1, <3>3 DEF Piece
  <2>3. CASE n > max
    <3>1. {row \in 1 .. n : row <= max} = 1 .. max
      BY <1>2, <2>3
    <3>2. kept = max /\ (fetched > max) = TRUE
      BY <1>2, <2>3
    <3> HIDE DEF kept, fetched
    <3>3. Collected(n, max) = [count |-> max, truncated |-> TRUE]
      BY <2>0, <3>2, Zenon
    <3>4. QED
      BY <1>2, <2>3, <3>1, <3>3 DEF Piece
  <2>4. QED
    BY <1>2, <2>2, <2>3
<1>3. QED
  BY <1>1, <1>2

-----------------------------------------------------------------------------
(* Types. *)

LEMMA InitTypes == Init => TypeOK
  BY SessionAssumption DEF Init, TypeOK, Waiting

(* What collecting results does to the variables it may change. *)
LEMMA CollectsTypes ==
  ASSUME TypeOK, NEW c \in Calls, job[c].kind = "sql", NEW k \in Nat, Collects(c, k)
  PROVE  /\ pc' \in [Calls -> Waiting \cup {"new", "ended"}]
         /\ conn' \in [Calls -> {"none", "open", "limited"}]
         /\ got' \in [Calls -> Seq(Piece)]
         /\ givenUp' = givenUp
         /\ reply' \in [Calls -> {"none", "result", "invalid_params", "execution_failed", "cancelled"}]
<1> DEFINE sets == job[c].sets
<1>1. sets \in Seq(Nat \cup {NoRows}) /\ job[c].max \in Nat /\ Len(sets) \in Nat
  BY JobFacts DEF TypeOK
<1>2. PICK upTo \in k .. Len(sets) :
        /\ got' = [got EXCEPT ![c] = [i \in 1 .. upTo |-> Collected(sets[i], job[c].max)]]
        /\ IF upTo = Len(sets) THEN Conclude(c, "result") ELSE Await(c, "fetch") /\ UNCHANGED conn
  BY DEF Collects
<1>3. [i \in 1 .. upTo |-> Collected(sets[i], job[c].max)] \in Seq(Piece)
  <2>1. \A i \in 1 .. upTo : sets[i] \in Nat \cup {NoRows}
    BY <1>1
  <2>2. \A i \in 1 .. upTo : Collected(sets[i], job[c].max) \in Piece
    BY <1>1, <2>1, CollectedFacts
  <2>3. upTo \in Nat
    BY <1>1
  <2>4. QED
    BY <2>2, <2>3
<1>4. got' \in [Calls -> Seq(Piece)]
  BY <1>2, <1>3 DEF TypeOK, Piece
<1>5. CASE Conclude(c, "result")
  BY <1>4, <1>5 DEF Conclude, TypeOK
<1>6. CASE Await(c, "fetch") /\ UNCHANGED conn
  BY <1>4, <1>6, SessionAssumption DEF Await, TypeOK, Waiting
<1>7. QED
  BY <1>2, <1>5, <1>6

LEMMA NextTypes ==
  ASSUME TypeOK, [Next]_vars
  PROVE  TypeOK'
<1> USE SessionAssumption DEF TypeOK, Waiting
<1>1. ASSUME NEW c \in Calls, Session(c) PROVE TypeOK'
  <2>1. CASE Start(c)
    <3>1. CASE Conclude(c, "invalid_params")
      BY <2>1, <3>1 DEF Start, Conclude, read, world
    <3>2. CASE Await(c, "connect") /\ UNCHANGED conn
      BY <2>1, <3>2 DEF Start, Await, read, world
    <3>3. QED
      BY <2>1, <3>1, <3>2 DEF Start
  <2>2. CASE Connected(c)
    BY <2>2 DEF Connected, Resumes, Await, read, world
  <2>3. CASE LimitSet(c)
    BY <2>3 DEF LimitSet, Resumes, Await, read, world
  <2>4. CASE SqlExecuted(c)
    BY <2>4, CollectsTypes DEF SqlExecuted, Resumes, world, Piece
  <2>5. CASE RowsFetched(c)
    <3>1. Len(got[c]) + 1 \in Nat
      BY <2>5
    <3>2. QED
      BY <2>5, <3>1, CollectsTypes DEF RowsFetched, Resumes, world, Piece
  <2>6. CASE CatalogRead(c)
    <3>1. Append(parts[c], catalog) \in Seq(Nat)
      BY <2>6
    <3>2. QED
      BY <2>6, <3>1 DEF CatalogRead, Resumes, Await, world
  <2>7. CASE CatalogFetched(c)
    <3>1. ASSUME NEW answer \in {"invalid_params", "result"}, Conclude(c, answer) PROVE TypeOK'
      BY <2>7, <3>1 DEF CatalogFetched, Resumes, Conclude, read, world
    <3>2. CASE conn' = [conn EXCEPT ![c] = "none"] /\ Await(c, "connect")
      BY <2>7, <3>2 DEF CatalogFetched, Resumes, Await, read, world
    <3>3. QED
      BY <2>7, <3>1, <3>2 DEF CatalogFetched, Resumes
  <2>8. CASE Raises(c) \/ Abandons(c)
    <3>1. PICK answer \in {"invalid_params", "execution_failed", "cancelled"} : Conclude(c, answer)
      BY <2>8 DEF Raises, Abandons
    <3>2. work' \in {work, [work EXCEPT ![c] = "none"]} /\ UNCHANGED <<job, read, world>>
      BY <2>8 DEF Raises, Abandons
    <3>3. QED
      BY <3>1, <3>2 DEF Conclude, read, world
  <2>9. CASE TimerFires(c)
    BY <2>9 DEF TimerFires, GivesUp, read, world
  <2>10. CASE Cancel(c)
    BY <2>10 DEF Cancel, GivesUp, read, world
  <2>11. CASE LiftsLimit(c) \/ LeftoverEnds(c)
    BY <2>11 DEF LiftsLimit, LeftoverEnds, read, world
  <2>12. QED
    BY <1>1, <2>1, <2>2, <2>3, <2>4, <2>5, <2>6, <2>7, <2>8, <2>9, <2>10, <2>11 DEF Session
<1>2. CASE Migrate
  BY <1>2 DEF Migrate, session, read
<1>3. CASE UNCHANGED vars
  BY <1>3 DEF vars, session, read, world
<1>4. QED
  BY <1>1, <1>2, <1>3 DEF Next, Idle

(* In every behaviour of any instance every variable holds a value the     *)
(* code can give it.                                                       *)
THEOREM TypeCorrect == Spec => []TypeOK
<1>1. QED
  BY InitTypes, NextTypes, PTL DEF Spec

-----------------------------------------------------------------------------
(* Connections and statements. *)

(* A call ends with its reply; its connection is as ConnectionsClosed says, *)
(* and its statement at the server as OnlyLimited says.                    *)
Shape ==
  /\ \A c \in Calls : reply[c] = "none" <=> pc[c] # "ended"
  /\ ConnectionsClosed
  /\ OnlyLimited

LEMMA InitShape == Init => Shape
  BY DEF Init, Shape, ConnectionsClosed, OnlyLimited, Waiting

LEMMA NextShape ==
  ASSUME TypeOK, Shape, [Next]_vars
  PROVE  Shape'
<1> USE DEF TypeOK, Shape, ConnectionsClosed, OnlyLimited, Waiting, Resumes
<1>1. ASSUME NEW c \in Calls, Session(c) PROVE Shape'
  <2>1. CASE Start(c)
    <3>1. CASE Conclude(c, "invalid_params")
      BY <2>1, <3>1 DEF Start, Conclude
    <3>2. CASE Await(c, "connect") /\ UNCHANGED conn
      BY <2>1, <3>2 DEF Start, Await
    <3>3. QED
      BY <2>1, <3>1, <3>2 DEF Start
  <2>2. CASE Connected(c)
    BY <2>2 DEF Connected, Resumes, Await
  <2>3. CASE LimitSet(c)
    BY <2>3 DEF LimitSet, Resumes, Await
  <2>4. ASSUME NEW k \in Nat, Collects(c, k), work' \in {work, [work EXCEPT ![c] = "none"]},
               Resumes(c, "execute") \/ Resumes(c, "fetch"), job' = job
        PROVE  Shape'
    <3>0. OnlyLimited' /\ pc[c] \in {"execute", "fetch"}
      BY <2>4
    <3>1. CASE Conclude(c, "result")
      <4>1. (\A d \in Calls : reply[d] = "none" <=> pc[d] # "ended")' /\ ConnectionsClosed'
        BY <3>0, <3>1 DEF Conclude
      <4>2. QED
        BY <3>0, <4>1
    <3>2. CASE Await(c, "fetch") /\ UNCHANGED conn
      <4>1. (\A d \in Calls : reply[d] = "none" <=> pc[d] # "ended")' /\ ConnectionsClosed'
        BY <3>0, <3>2 DEF Await
      <4>2. QED
        BY <3>0, <4>1
    <3>3. QED
      BY <2>4, <3>1, <3>2 DEF Collects
  <2>5. CASE SqlExecuted(c)
    BY <2>4, <2>5 DEF SqlExecuted, Resumes
  <2>6. CASE RowsFetched(c)
    <3>1. Len(got[c]) + 1 \in Nat
      BY <2>6
    <3>2. QED
      BY <2>4, <2>6, <3>1 DEF RowsFetched, Resumes
  <2>7. CASE CatalogRead(c)
    BY <2>7 DEF CatalogRead, Resumes, Await
  <2>8. CASE CatalogFetched(c)
    <3>1. ASSUME NEW answer \in {"invalid_params", "result"}, Conclude(c, answer) PROVE Shape'
      BY <2>8, <3>1 DEF CatalogFetched, Resumes, Conclude
    <3>2. CASE conn' = [conn EXCEPT ![c] = "none"] /\ Await(c, "connect")
      BY <2>8, <3>2 DEF CatalogFetched, Resumes, Await
    <3>3. QED
      BY <2>8, <3>1, <3>2 DEF CatalogFetched, Resumes
  <2>9. CASE Raises(c) \/ Abandons(c)
    <3>1. PICK answer \in {"invalid_params", "execution_failed", "cancelled"} : Conclude(c, answer)
      BY <2>9 DEF Raises, Abandons
    <3>2. work' \in {work, [work EXCEPT ![c] = "none"]} /\ job' = job /\ pc[c] \in Waiting
      BY <2>9 DEF Raises, Abandons
    <3>3. QED
      BY <3>1, <3>2 DEF Conclude
  <2>10. CASE TimerFires(c) \/ Cancel(c)
    BY <2>10 DEF TimerFires, Cancel, GivesUp
  <2>11. CASE LiftsLimit(c)
    BY <2>11 DEF LiftsLimit
  <2>12. CASE LeftoverEnds(c)
    BY <2>12 DEF LeftoverEnds
  <2>13. QED
    BY <1>1, <2>1, <2>2, <2>3, <2>5, <2>6, <2>7, <2>8, <2>9, <2>10, <2>11, <2>12 DEF Session
<1>2. CASE Migrate \/ UNCHANGED vars
  BY <1>2 DEF Migrate, vars, session
<1>3. QED
  BY <1>1, <1>2 DEF Next, Idle

LEMMA Shapely == Spec => [](TypeOK /\ Shape)
<1>1. Init => TypeOK /\ Shape
  BY InitTypes, InitShape
<1>2. TypeOK /\ Shape /\ [Next]_vars => (TypeOK /\ Shape)'
  BY NextTypes, NextShape
<1>3. QED
  BY <1>1, <1>2, PTL DEF Spec

(* db.py closes the connection on every path: after a result, an error, a  *)
(* timeout or a cancellation at any await, and before it opens the next.   *)
THEOREM Closed == Spec => []ConnectionsClosed
<1>1. TypeOK /\ Shape => ConnectionsClosed
  BY DEF Shape
<1>2. QED
  BY <1>1, Shapely, PTL

(* Whatever fails, is given up or repeated: only the caller's own SQL gets *)
(* a statement out of its limit, no path of db.py leaves one without.      *)
THEOREM Limited == Spec => []OnlyLimited
<1>1. TypeOK /\ Shape => OnlyLimited
  BY DEF Shape
<1>2. QED
  BY <1>1, Shapely, PTL

-----------------------------------------------------------------------------
(* Result sets. *)

(* What has been collected are the first results, each as Collected says;  *)
(* a call that fetches has some left to collect.                           *)
Prefix ==
  \A c \in Calls : job[c].kind = "sql" =>
    /\ Len(got[c]) <= Len(job[c].sets)
    /\ \A i \in 1 .. Len(got[c]) : got[c][i] = Collected(job[c].sets[i], job[c].max)
    /\ pc[c] = "fetch" => Len(got[c]) < Len(job[c].sets)
    /\ reply[c] = "result" => Len(got[c]) = Len(job[c].sets)

LEMMA InitPrefix == Init => Prefix
<1> SUFFICES ASSUME Init, NEW c \in Calls, job[c].kind = "sql"
             PROVE  Len(got[c]) = 0 /\ Len(job[c].sets) \in Nat /\ pc[c] # "fetch" /\ reply[c] # "result"
  BY DEF Init, Prefix
<1>1. QED
  BY JobFacts DEF Init

LEMMA CollectsPrefix ==
  ASSUME TypeOK, Prefix, NEW c \in Calls, job[c].kind = "sql", NEW k \in Nat, Collects(c, k),
         reply[c] = "none", UNCHANGED job
  PROVE  Prefix'
<1> DEFINE sets == job[c].sets
<1>1. Len(sets) \in Nat /\ DOMAIN reply = Calls /\ DOMAIN pc = Calls /\ DOMAIN got = Calls
  BY JobFacts DEF TypeOK
<1>2. PICK upTo \in k .. Len(sets) :
        /\ got' = [got EXCEPT ![c] = [i \in 1 .. upTo |-> Collected(sets[i], job[c].max)]]
        /\ IF upTo = Len(sets) THEN Conclude(c, "result") ELSE Await(c, "fetch") /\ UNCHANGED conn
  BY DEF Collects
<1>3. upTo \in Nat /\ upTo <= Len(sets)
  BY <1>1
<1> DEFINE new == [i \in 1 .. upTo |-> Collected(sets[i], job[c].max)]
<1>4. Len(new) = upTo /\ \A i \in 1 .. upTo : new[i] = Collected(sets[i], job[c].max)
  BY <1>3
<1>5. got'[c] = new /\ \A d \in Calls \ {c} : got'[d] = got[d]
  BY <1>1, <1>2
<1>6. /\ pc'[c] = "fetch" => upTo < Len(sets)
      /\ reply'[c] = "result" => upTo = Len(sets)
      /\ \A d \in Calls \ {c} : pc'[d] = pc[d] /\ reply'[d] = reply[d]
  BY <1>1, <1>2, <1>3 DEF Conclude, Await
<1> HIDE DEF new
<1>7. ASSUME NEW d \in Calls \ {c}, job[d].kind = "sql"
      PROVE  /\ Len(got'[d]) <= Len(job[d].sets)
             /\ \A i \in 1 .. Len(got'[d]) : got'[d][i] = Collected(job[d].sets[i], job[d].max)
             /\ pc'[d] = "fetch" => Len(got'[d]) < Len(job[d].sets)
             /\ reply'[d] = "result" => Len(got'[d]) = Len(job[d].sets)
  BY <1>5, <1>6, <1>7 DEF Prefix
<1>8. QED
  BY <1>3, <1>4, <1>5, <1>6, <1>7 DEF Prefix

LEMMA NextPrefix ==
  ASSUME TypeOK, Shape, Prefix, [Next]_vars
  PROVE  Prefix'
<1>1. ASSUME NEW c \in Calls, Session(c) PROVE Prefix'
  <2>1. CASE SqlExecuted(c)
    BY <2>1, CollectsPrefix DEF SqlExecuted, Resumes, Shape, TypeOK
  <2>2. CASE RowsFetched(c)
    <3>1. Len(got[c]) + 1 \in Nat
      BY DEF TypeOK
    <3>2. QED
      BY <2>2, <3>1, CollectsPrefix DEF RowsFetched, Resumes, Shape, TypeOK
  (* Any other step leaves the results alone, and nobody has a result or    *)
  (* begins to fetch by it, but a call for the schema.                      *)
  <2>3. ASSUME job' = job, got' = got,
               \A d \in Calls : job[d].kind = "sql" =>
                 /\ pc'[d] = "fetch" => pc[d] = "fetch"
                 /\ reply'[d] = "result" => reply[d] = "result"
        PROVE  Prefix'
    BY <2>3 DEF Prefix
  <2>4. \A d \in Calls : job[d].kind \in {"sql", "schema"}
    BY JobFacts DEF TypeOK
  <2>5. CASE Start(c)
    <3>1. CASE Conclude(c, "invalid_params")
      BY <2>3, <2>5, <3>1 DEF Start, Conclude, TypeOK, read
    <3>2. CASE Await(c, "connect") /\ UNCHANGED conn
      BY <2>3, <2>5, <3>2 DEF Start, Await, TypeOK, read
    <3>3. QED
      BY <2>5, <3>1, <3>2 DEF Start
  <2>6. CASE Connected(c) \/ LimitSet(c)
    BY <2>3, <2>6 DEF Connected, Resumes, LimitSet, Await, TypeOK, read
  <2>7. CASE CatalogRead(c)
    BY <2>3, <2>4, <2>7 DEF CatalogRead, Resumes, Await, TypeOK
  <2>8. CASE CatalogFetched(c)
    <3>1. ASSUME NEW answer \in {"invalid_params", "result"}, Conclude(c, answer) PROVE Prefix'
      BY <2>3, <2>4, <2>8, <3>1 DEF CatalogFetched, Resumes, Conclude, TypeOK, read
    <3>2. CASE conn' = [conn EXCEPT ![c] = "none"] /\ Await(c, "connect")
      BY <2>3, <2>8, <3>2 DEF CatalogFetched, Resumes, Await, TypeOK, read
    <3>3. QED
      BY <2>8, <3>1, <3>2 DEF CatalogFetched, Resumes
  <2>9. CASE Raises(c) \/ Abandons(c)
    <3>1. PICK answer \in {"invalid_params", "execution_failed", "cancelled"} : Conclude(c, answer)
      BY <2>9 DEF Raises, Abandons
    <3>2. UNCHANGED <<job, read>>
      BY <2>9 DEF Raises, Abandons
    <3>3. QED
      BY <2>3, <3>1, <3>2 DEF Conclude, TypeOK, read
  <2>10. CASE TimerFires(c) \/ Cancel(c) \/ LiftsLimit(c) \/ LeftoverEnds(c)
    BY <2>3, <2>10 DEF TimerFires, Cancel, GivesUp, LiftsLimit, LeftoverEnds, read
  <2>11. QED
    BY <1>1, <2>1, <2>2, <2>5, <2>6, <2>7, <2>8, <2>9, <2>10 DEF Session
<1>2. CASE Migrate \/ UNCHANGED vars
  BY <1>2 DEF Migrate, vars, session, read, Prefix
<1>3. QED
  BY <1>1, <1>2 DEF Next, Idle

(* For any SQL, any bound and any number of results: a result has all of   *)
(* them, in order, each cut at max_rows and marked when it was cut.        *)
THEOREM Exact == Spec => []RowsAreExact
<1>1. Init => TypeOK /\ Shape /\ Prefix
  BY InitTypes, InitShape, InitPrefix
<1>2. TypeOK /\ Shape /\ Prefix /\ [Next]_vars => (TypeOK /\ Shape /\ Prefix)'
  BY NextTypes, NextShape, NextPrefix
<1>3. TypeOK /\ Prefix => RowsAreExact
  <2> SUFFICES ASSUME TypeOK, Prefix, NEW c \in Calls, job[c].kind = "sql", reply[c] = "result"
               PROVE  /\ Len(got[c]) = Len(job[c].sets)
                      /\ \A i \in DOMAIN got[c] : LET n == job[c].sets[i] IN
                           /\ 1 .. got[c][i].count = {row \in 1 .. n : row <= job[c].max}
                           /\ got[c][i].truncated <=> n > job[c].max
    BY DEF RowsAreExact
  <2>1. Len(got[c]) = Len(job[c].sets)
    BY DEF Prefix
  <2>2. job[c].sets \in Seq(Nat \cup {NoRows}) /\ job[c].max \in Nat /\ got[c] \in Seq(Piece)
    BY JobFacts DEF TypeOK, Piece
  <2>3. ASSUME NEW i \in DOMAIN got[c]
        PROVE  LET n == job[c].sets[i] IN
                 /\ 1 .. got[c][i].count = {row \in 1 .. n : row <= job[c].max}
                 /\ got[c][i].truncated <=> n > job[c].max
    <3>1. i \in 1 .. Len(got[c]) /\ job[c].sets[i] \in Nat \cup {NoRows}
      BY <2>1, <2>2
    <3>2. got[c][i] = Collected(job[c].sets[i], job[c].max)
      BY <3>1 DEF Prefix
    <3>3. QED
      BY <2>2, <3>1, <3>2, CollectedFacts
  <2>4. QED
    BY <2>1, <2>3
<1>4. QED
  BY <1>1, <1>2, <1>3, PTL DEF Spec

-----------------------------------------------------------------------------
(* Inspected tables. *)

(* How far a call for the schema has got, and what it has read: as long as *)
(* the table has not moved, what the catalog still says.                   *)
PartsOf(c) ==
  /\ pc[c] = "new" => parts[c] = <<>>
  /\ pc[c] \in {"connect", "limit", "execute"} => Len(parts[c]) < Queries(job[c])
  /\ pc[c] = "fetch" => Len(parts[c]) \in 1 .. Queries(job[c])
  /\ reply[c] = "result" => Len(parts[c]) = Queries(job[c])
  /\ \/ Route(job[c]) # "inspect" \/ Len(parts[c]) = 0
     \/ Len(parts[c]) = 1 /\ pc[c] \in {"fetch", "ended"} /\ reply[c] # "result"
     \/ parts[c][1] # 0
  /\ ~moved[c] /\ pc[c] \in Waiting => \A i \in 1 .. Len(parts[c]) : parts[c][i] = catalog
  /\ ~moved[c] => \A i, j \in 1 .. Len(parts[c]) : parts[c][i] = parts[c][j]

Parts == \A c \in Calls : job[c].kind = "schema" => PartsOf(c)

LEMMA InitParts == Init => Parts
  BY DEF Init, Parts, PartsOf, Waiting

(* A call that moves on without reading or answering, or ends.             *)
LEMMA MovesOn ==
  ASSUME TypeOK, Shape, Parts, NEW c \in Calls, UNCHANGED <<job, parts, moved, catalog>>,
         NEW q \in Waiting \cup {"ended"}, pc' = [pc EXCEPT ![c] = q],
         \/ job[c].kind = "sql" /\ \A d \in Calls \ {c} : reply'[d] = reply[d]
         \/ q \in {"limit", "execute"} /\ pc[c] \in {"connect", "limit"} /\ reply' = reply
         \/ q = "connect" /\ pc[c] = "new" /\ reply' = reply
         \/ \E r \in {"invalid_params", "execution_failed", "cancelled"} :
              q = "ended" /\ reply' = [reply EXCEPT ![c] = r]
  PROVE  Parts'
<1> SUFFICES ASSUME NEW d \in Calls, job[d].kind = "schema" PROVE PartsOf(d)'
  BY DEF Parts
<1>1. PartsOf(d)
  BY DEF Parts
<1>2. CASE d # c
  BY <1>1, <1>2 DEF PartsOf, TypeOK
<1>3. CASE d = c
  <2>1. pc'[c] = q
    BY DEF TypeOK
  <2>2. CASE q \in {"limit", "execute"} /\ pc[c] \in {"connect", "limit"} /\ reply' = reply
    BY <1>1, <1>3, <2>1, <2>2 DEF PartsOf, Waiting
  <2>3. CASE q = "connect" /\ pc[c] = "new" /\ reply' = reply
    <3>1. Queries(job[c]) \in {1, 3}
      BY JobFacts DEF TypeOK
    <3>2. QED
      BY <1>1, <1>3, <2>1, <2>3, <3>1 DEF PartsOf, Waiting
  <2>4. ASSUME NEW r \in {"invalid_params", "execution_failed", "cancelled"},
               q = "ended", reply' = [reply EXCEPT ![c] = r]
        PROVE  PartsOf(d)'
    <3>1. reply'[c] # "result" /\ pc'[c] \notin Waiting
      BY <2>1, <2>4 DEF TypeOK, Waiting
    <3>2. pc[c] = "new" \/ pc[c] \in Waiting \/ pc[c] = "ended"
      BY DEF TypeOK
    <3>3. Route(job[c]) = "inspect" => Queries(job[c]) = 3
      BY JobFacts DEF TypeOK
    <3>4. QED
      BY <1>1, <1>3, <2>1, <2>4, <3>1, <3>2, <3>3 DEF PartsOf, Waiting, Shape
  <2>5. QED
    BY <1>3, <2>2, <2>3, <2>4
<1>4. QED
  BY <1>2, <1>3

(* A call for SQL moves on.                                                *)
LEMMA SchemaUntouched ==
  ASSUME TypeOK, Parts, NEW c \in Calls, UNCHANGED <<job, parts, moved, catalog>>,
         job[c].kind = "sql", NEW q, pc' = [pc EXCEPT ![c] = q],
         \A d \in Calls \ {c} : reply'[d] = reply[d]
  PROVE  Parts'
  BY DEF Parts, PartsOf, TypeOK

(* A call has read one more part.                                          *)
LEMMA PartRead ==
  ASSUME Parts, NEW c \in Calls, Len(parts[c]) \in Nat, Queries(job[c]) \in Nat,
         UNCHANGED <<job, reply, moved, catalog>>,
         pc[c] = "execute", pc'[c] = "fetch", reply[c] = "none", job[c].kind = "schema",
         Len(parts'[c]) = Len(parts[c]) + 1,
         parts'[c][Len(parts[c]) + 1] = catalog,
         \A i \in 1 .. Len(parts[c]) : parts'[c][i] = parts[c][i],
         \A d \in Calls \ {c} : pc'[d] = pc[d] /\ parts'[d] = parts[d]
  PROVE  Parts'
<1> DEFINE n == Len(parts[c])
<1>1. PartsOf(c)
  BY DEF Parts
<1>2. n < Queries(job[c])
  BY <1>1 DEF PartsOf
<1>3. n > 0 => Route(job[c]) # "inspect" \/ parts[c][1] # 0
  BY <1>1 DEF PartsOf
<1>4. ~moved[c] => \A i \in 1 .. n : parts[c][i] = catalog
  BY <1>1 DEF PartsOf, Waiting
<1>5. Len(parts'[c]) \in 1 .. Queries(job[c])
  BY <1>2
<1>6. Route(job[c]) # "inspect" \/ Len(parts'[c]) = 1 \/ parts'[c][1] # 0
  <2>1. CASE n > 0
    <3>1. parts'[c][1] = parts[c][1]
      BY <2>1
    <3>2. QED
      BY <1>3, <2>1, <3>1
  <2>2. CASE n = 0
    BY <2>2
  <2>3. QED
    BY <2>1, <2>2
<1>7. ~moved[c] => \A i \in 1 .. Len(parts'[c]) : parts'[c][i] = catalog
  <2> SUFFICES ASSUME ~moved[c], NEW i \in 1 .. n + 1 PROVE parts'[c][i] = catalog
    OBVIOUS
  <2>1. CASE i = n + 1
    BY <2>1
  <2>2. CASE i \in 1 .. n
    BY <1>4, <2>2
  <2>3. QED
    BY <2>1, <2>2
<1>8. PartsOf(c)'
  BY <1>5, <1>6, <1>7 DEF PartsOf
<1>9. ASSUME NEW d \in Calls \ {c}, PartsOf(d) PROVE PartsOf(d)'
  BY <1>9 DEF PartsOf
<1>10. QED
  BY <1>8, <1>9 DEF Parts

LEMMA NextParts ==
  ASSUME TypeOK, Shape, Parts, [Next]_vars
  PROVE  Parts'
<1>0. \A c \in Calls : /\ Queries(job[c]) \in {1, 3} /\ Len(parts[c]) \in Nat
                       /\ job[c].kind \in {"sql", "schema"}
                       /\ Route(job[c]) = "inspect" => Queries(job[c]) = 3
  BY JobFacts DEF TypeOK
<1>1. ASSUME NEW c \in Calls, Session(c) PROVE Parts'
  <2> USE DEF TypeOK, read, world, Waiting, Resumes
  <2>1. CASE Start(c)
    <3>1. CASE Conclude(c, "invalid_params")
      BY <2>1, <3>1, MovesOn DEF Start, Conclude
    <3>2. CASE Await(c, "connect") /\ UNCHANGED conn
      BY <2>1, <3>2, MovesOn DEF Start, Await
    <3>3. QED
      BY <2>1, <3>1, <3>2 DEF Start
  <2>2. CASE Connected(c)
    BY <2>2, MovesOn DEF Connected, Resumes, Await
  <2>3. CASE LimitSet(c)
    BY <2>3, MovesOn DEF LimitSet, Resumes, Await
  <2>4. CASE SqlExecuted(c) \/ RowsFetched(c)
    <3>1. PICK k \in Int : Collects(c, k)
      BY <2>4 DEF SqlExecuted, Resumes, RowsFetched
    <3>2. UNCHANGED <<job, parts, moved, catalog>> /\ job[c].kind = "sql"
      BY <2>4 DEF SqlExecuted, Resumes, RowsFetched
    <3>3. CASE Conclude(c, "result")
      <4>1. pc' = [pc EXCEPT ![c] = "ended"] /\ \A d \in Calls \ {c} : reply'[d] = reply[d]
        BY <3>3 DEF Conclude
      <4>2. QED
        BY <3>2, <4>1, SchemaUntouched
    <3>4. CASE Await(c, "fetch") /\ UNCHANGED conn
      <4>1. pc' = [pc EXCEPT ![c] = "fetch"] /\ \A d \in Calls \ {c} : reply'[d] = reply[d]
        BY <3>4 DEF Await
      <4>2. QED
        BY <3>2, <4>1, SchemaUntouched
    <3>5. QED
      BY <3>1, <3>3, <3>4 DEF Collects
  <2>5. CASE CatalogRead(c)
    <3>1. parts'[c] = Append(parts[c], catalog) /\ \A d \in Calls \ {c} : parts'[d] = parts[d]
      BY <2>5 DEF CatalogRead, Resumes
    <3>2. /\ Len(parts'[c]) = Len(parts[c]) + 1
          /\ parts'[c][Len(parts[c]) + 1] = catalog
          /\ \A i \in 1 .. Len(parts[c]) : parts'[c][i] = parts[c][i]
      BY <3>1
    <3>3. /\ pc[c] = "execute" /\ pc'[c] = "fetch" /\ reply' = reply
          /\ \A d \in Calls \ {c} : pc'[d] = pc[d]
          /\ job' = job /\ moved' = moved /\ catalog' = catalog /\ job[c].kind = "schema"
      BY <2>5 DEF CatalogRead, Resumes, Await
    <3>4. reply[c] = "none" /\ PartsOf(c)
      BY <3>3 DEF Shape, Parts
    <3>5. Len(parts[c]) \in Nat /\ Queries(job[c]) \in Nat /\ reply[c] = "none"
      <4> HIDE DEF TypeOK, read, world, Waiting, Resumes
      <4>1. Queries(job[c]) \in {1, 3} /\ Len(parts[c]) \in Nat
        BY <1>0
      <4>2. QED
        BY <3>4, <4>1
    <3>6. \A d \in Calls \ {c} : pc'[d] = pc[d] /\ parts'[d] = parts[d]
      BY <3>1, <3>3
    <3>7. QED
      <4> HIDE DEF TypeOK, read, world, Waiting, Resumes
      <4>1. UNCHANGED <<job, reply, moved, catalog>>
        BY <3>3
      <4>2. QED
        BY <3>2, <3>3, <3>5, <3>6, <4>1, PartRead
  <2>6. CASE CatalogFetched(c)
    <3>1. UNCHANGED <<job, parts, moved, catalog>> /\ pc[c] = "fetch" /\ job[c].kind = "schema" /\ PartsOf(c)
      BY <2>6 DEF CatalogFetched, Resumes, Parts
    <3>2. ~Missing(c) /\ Route(job[c]) = "inspect" => parts[c][1] # 0
      <4>1. ASSUME Len(parts[c]) = 1, parts[c][1] = 0 PROVE parts[c] = <<0>>
        BY <4>1
      <4>2. ASSUME Route(job[c]) = "inspect", Len(parts[c]) # 1 PROVE parts[c][1] # 0
        BY <1>0, <3>1, <4>2 DEF PartsOf
      <4>3. QED
        BY <4>1, <4>2 DEF Missing
    <3>3. \A d \in Calls \ {c} : pc'[d] = pc[d] /\ reply'[d] = reply[d] => (PartsOf(d) => PartsOf(d)')
      BY <3>1 DEF PartsOf
    <3>4. CASE Conclude(c, "invalid_params")
      BY <3>1, <3>4, MovesOn DEF Conclude
    <3>5. CASE ~Missing(c) /\ Len(parts[c]) = Queries(job[c]) /\ Conclude(c, "result")
      <4>1. PartsOf(c)'
        BY <1>0, <3>1, <3>2, <3>5 DEF Conclude, PartsOf
      <4>2. QED
        BY <3>1, <3>3, <3>5, <4>1 DEF Conclude, Parts
    <3>6. CASE ~Missing(c) /\ Len(parts[c]) < Queries(job[c]) /\ Await(c, "connect")
      <4>1. PartsOf(c)'
        BY <1>0, <3>1, <3>2, <3>6 DEF Await, PartsOf, Shape
      <4>2. QED
        BY <3>1, <3>3, <3>6, <4>1 DEF Await, Parts
    <3>7. QED
      BY <2>6, <3>4, <3>5, <3>6 DEF CatalogFetched, Resumes
  <2>7. CASE Raises(c) \/ Abandons(c)
    <3>1. PICK answer \in {"invalid_params", "execution_failed", "cancelled"} : Conclude(c, answer)
      BY <2>7 DEF Raises, Abandons
    <3>2. UNCHANGED <<job, parts, moved, catalog>>
      BY <2>7 DEF Raises, Abandons
    <3>3. QED
      BY <3>1, <3>2, MovesOn DEF Conclude
  <2>8. CASE TimerFires(c) \/ Cancel(c) \/ LiftsLimit(c) \/ LeftoverEnds(c)
    BY <2>8 DEF TimerFires, Cancel, GivesUp, LiftsLimit, LeftoverEnds, Parts, PartsOf
  <2>9. QED
    BY <1>1, <2>1, <2>2, <2>3, <2>4, <2>5, <2>6, <2>7, <2>8 DEF Session
<1>2. CASE Migrate
  <2>1. \A c \in Calls : ~moved'[c] => ~moved[c] /\ (pc[c] \in Waiting => parts[c] = <<>>)
    BY <1>2 DEF Migrate, TypeOK
  <2>2. job' = job /\ pc' = pc /\ parts' = parts /\ reply' = reply
    BY <1>2 DEF Migrate, session, read
  <2>3. \A c \in Calls : PartsOf(c) => PartsOf(c)'
    BY <2>1, <2>2 DEF PartsOf
  <2>4. QED
    BY <2>2, <2>3 DEF Parts
<1>3. CASE UNCHANGED vars
  BY <1>3 DEF vars, session, read, world, Parts, PartsOf
<1>4. QED
  BY <1>1, <1>2, <1>3 DEF Next, Idle

(* An inspection that says it found the table read its three parts from an *)
(* existing table, and from one and the same unless a migration came       *)
(* between its queries.                                                    *)
THEOREM Whole == Spec => []TableIsWhole
<1>1. Init => TypeOK /\ Shape /\ Parts
  BY InitTypes, InitShape, InitParts
<1>2. TypeOK /\ Shape /\ Parts /\ [Next]_vars => (TypeOK /\ Shape /\ Parts)'
  BY NextTypes, NextShape, NextParts
<1>3. TypeOK /\ Parts => TableIsWhole
  <2> SUFFICES ASSUME TypeOK, Parts, NEW c \in Calls, Route(job[c]) = "inspect", reply[c] = "result"
               PROVE  /\ Len(parts[c]) = 3 /\ parts[c][1] # 0
                      /\ moved[c] \/ (parts[c][2] = parts[c][1] /\ parts[c][3] = parts[c][1])
    BY DEF TableIsWhole
  <2>1. job[c].kind = "schema" /\ Queries(job[c]) = 3
    BY JobFacts DEF TypeOK
  <2>2. PartsOf(c)
    BY <2>1 DEF Parts
  <2>3. Len(parts[c]) = 3 /\ parts[c][1] # 0
    BY <2>1, <2>2 DEF PartsOf
  <2>4. ~moved[c] => parts[c][2] = parts[c][1] /\ parts[c][3] = parts[c][1]
    <3>1. ~moved[c] => \A i, j \in 1 .. 3 : parts[c][i] = parts[c][j]
      BY <2>2, <2>3 DEF PartsOf
    <3>2. QED
      BY <3>1
  <2>5. QED
    BY <2>3, <2>4
<1>4. QED
  BY <1>1, <1>2, <1>3, PTL DEF Spec

-----------------------------------------------------------------------------
(* A call is one wait. *)

Tools == [c \in Calls |-> IF job[c].kind = "sql" THEN "ops_sql_readonly" ELSE "ops_db_schema"]
State == [c \in Calls |-> IF reply[c] # "none" THEN reply[c]
                          ELSE IF pc[c] = "new" THEN "idle" ELSE "querying"]

(* A call that ends. *)
LEMMA EndMaps ==
  ASSUME TypeOK, Shape, NEW c \in Calls, job' = job,
         NEW a \in {"result", "invalid_params", "execution_failed", "cancelled"}, Conclude(c, a),
         pc[c] \in Waiting \/ (pc[c] = "new" /\ a = "invalid_params" /\ job[c].kind = "schema")
  PROVE  Wait!Next
<1>1. Tools' = Tools
  BY DEF Tools
<1>2. reply[c] = "none" /\ reply' = [reply EXCEPT ![c] = a] /\ pc' = [pc EXCEPT ![c] = "ended"]
  BY DEF Shape, Conclude, Waiting
<1>3. State' = [State EXCEPT ![c] = a]
  <2>1. \A d \in Calls \ {c} : State'[d] = State[d]
    BY <1>2 DEF State, TypeOK
  <2>2. State'[c] = a
    BY <1>2 DEF State, TypeOK
  <2>3. QED
    BY <2>1, <2>2 DEF State
<1>4. \/ State[c] = "querying"
      \/ State[c] = "idle" /\ a = "invalid_params" /\ job[c].kind = "schema"
  BY <1>2 DEF State, Waiting
<1>5. job[c].kind = "schema" => Tools[c] = "ops_db_schema"
  BY DEF Tools
<1>6. Wait!Moves(c, a)
  BY <1>1, <1>3 DEF Wait!Moves, State, Tools
<1>7. Wait!Blames(c) \/ Wait!End(c)
  BY <1>4, <1>5, <1>6 DEF Wait!Blames, Wait!End, Wait!Answers, State, Tools
<1>8. QED
  BY <1>7 DEF Wait!Next

(* A call that goes on. *)
LEMMA StayMaps ==
  ASSUME TypeOK, NEW c \in Calls, job' = job, reply' = reply,
         pc[c] \in Waiting, NEW q \in Waiting, pc' = [pc EXCEPT ![c] = q]
  PROVE  UNCHANGED Wait!vars
<1>1. Tools' = Tools /\ State' = State
  BY DEF Tools, State, TypeOK, Waiting
<1>2. QED
  BY <1>1 DEF Wait!vars, Tools, State

(* The system is as it was but for what Wait does not see. *)
LEMMA SameMaps ==
  ASSUME job' = job, reply' = reply, pc' = pc
  PROVE  UNCHANGED Wait!vars
  BY DEF Wait!vars

LEMMA CollectsMaps ==
  ASSUME TypeOK, Shape, NEW c \in Calls, job' = job, pc[c] \in Waiting, NEW k \in Int, Collects(c, k)
  PROVE  [Wait!Next]_(Wait!vars)
<1>1. CASE Conclude(c, "result")
  BY <1>1, EndMaps
<1>2. CASE Await(c, "fetch")
  BY <1>2, StayMaps DEF Await, Waiting
<1>3. QED
  BY <1>1, <1>2 DEF Collects

LEMMA StepMaps ==
  ASSUME TypeOK, Shape, [Next]_vars
  PROVE  [Wait!Next]_(Wait!vars)
<1>1. ASSUME NEW c \in Calls, Session(c) PROVE [Wait!Next]_(Wait!vars)
  <2>1. CASE Start(c)
    <3>1. pc[c] = "new" /\ job' = job
      BY <2>1 DEF Start
    <3>2. CASE Route(job[c]) = "invalid" /\ Conclude(c, "invalid_params")
      <4>1. job[c].kind = "schema"
        BY <3>2, JobFacts DEF TypeOK
      <4>2. QED
        BY <3>1, <3>2, <4>1, EndMaps
    <3>3. CASE Await(c, "connect")
      <4>1. reply[c] = "none" /\ reply' = reply /\ pc' = [pc EXCEPT ![c] = "connect"]
        BY <3>1, <3>3 DEF Await, Shape
      <4>2. State[c] = "idle" /\ Tools' = Tools
        BY <3>1, <4>1 DEF State, Tools
      <4>3. State' = [State EXCEPT ![c] = "querying"]
        BY <4>1 DEF State, TypeOK
      <4>4. Wait!Begin(c)
        BY <4>2, <4>3 DEF Wait!Begin, Wait!Moves, State, Tools
      <4>5. QED
        BY <4>4 DEF Wait!Next
    <3>4. QED
      BY <2>1, <3>2, <3>3 DEF Start
  <2>2. CASE Connected(c)
    BY <2>2, StayMaps DEF Connected, Resumes, Await, Waiting
  <2>3. CASE LimitSet(c)
    BY <2>3, StayMaps DEF LimitSet, Resumes, Await, Waiting
  <2>4. CASE SqlExecuted(c)
    BY <2>4, CollectsMaps DEF SqlExecuted, Resumes, Waiting
  <2>5. CASE RowsFetched(c)
    <3>1. Len(got[c]) + 1 \in Int
      BY DEF TypeOK
    <3>2. QED
      BY <2>5, <3>1, CollectsMaps DEF RowsFetched, Resumes, Waiting
  <2>6. CASE CatalogRead(c)
    BY <2>6, StayMaps DEF CatalogRead, Resumes, Await, Waiting
  <2>7. CASE CatalogFetched(c)
    <3>1. pc[c] \in Waiting /\ job' = job /\ job[c].kind = "schema"
      BY <2>7 DEF CatalogFetched, Resumes, Waiting
    <3>2. CASE Await(c, "connect")
      BY <3>1, <3>2, StayMaps DEF Await, Waiting
    <3>3. CASE Conclude(c, "invalid_params")
      BY <3>1, <3>3, EndMaps
    <3>4. CASE Conclude(c, "result")
      BY <3>1, <3>4, EndMaps
    <3>5. QED
      BY <2>7, <3>2, <3>3, <3>4 DEF CatalogFetched, Resumes
  <2>8. CASE Raises(c) \/ Abandons(c)
    <3>1. PICK answer \in {"invalid_params", "execution_failed", "cancelled"} : Conclude(c, answer)
      BY <2>8 DEF Raises, Abandons
    <3>2. pc[c] \in Waiting /\ job' = job
      BY <2>8 DEF Raises, Abandons
    <3>3. QED
      BY <3>1, <3>2, EndMaps
  <2>9. CASE TimerFires(c) \/ Cancel(c)
    BY <2>9, SameMaps DEF TimerFires, Cancel, GivesUp
  <2>10. CASE LiftsLimit(c) \/ LeftoverEnds(c)
    BY <2>10, SameMaps DEF LiftsLimit, LeftoverEnds
  <2>11. QED
    BY <1>1, <2>1, <2>2, <2>3, <2>4, <2>5, <2>6, <2>7, <2>8, <2>9, <2>10 DEF Session
<1>2. CASE Migrate \/ UNCHANGED vars
  BY <1>2, SameMaps DEF Migrate, vars, session
<1>3. QED
  BY <1>1, <1>2 DEF Next, Idle

(* The detailed session implements the abstract wait the handler of        *)
(* server.py relies on (its safety; that the wait ends is left to TLC).    *)
THEOREM OneWait == Spec => Wait!Spec
<1>1. Init => Wait!Init
  BY DEF Init, Wait!Init
<1>2. TypeOK /\ Shape /\ [Next]_vars => [Wait!Next]_(Wait!vars)
  BY StepMaps
<1>3. QED
  BY <1>1, <1>2, Shapely, PTL DEF Spec, Wait!Spec
=============================================================================
