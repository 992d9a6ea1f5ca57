-------------------------- MODULE ReadonlySession --------------------------
(***************************************************************************)
(* The readonly sessions of db.py: execute_sql, and inspect_schema with    *)
(* one session of its own for every catalog query.  ToolServer sees a call *)
(* of these as a single wait; here is what happens during it.  An action   *)
(* goes from one await to the next; close() is no await that can wait.     *)
(*                                                                         *)
(* PostgreSQL (external) answers a statement or not, and ends a statement  *)
(* that exceeds the statement_timeout of its connection.  psycopg          *)
(* (external) awaits a statement once more when its await is given up:     *)
(* asyncio.wait_for waits for that, and no timer does.  Migrations of the  *)
(* application replace the inspected table meanwhile.                      *)
(***************************************************************************)
EXTENDS Integers, Sequences

CONSTANTS
  Calls,         \* calls of execute_sql and inspect_schema
  Jobs,          \* what they may be asked for
  MaxRows,       \* MAX_MAX_ROWS
  MaxMigrations  \* bound on the migrations

NoRows == -1  \* the outcome of a statement that returns no rows

(* sets: how many rows each result of the SQL has   lifts: it may set its  *)
(* own statement_timeout, being several statements nobody has parsed       *)
SqlJob == [kind : {"sql"}, sets : Seq(Nat \cup {NoRows}) \ {<<>>}, max : 1 .. MaxRows,
           lifts : BOOLEAN]
SchemaJob == [kind : {"schema"}, schema : BOOLEAN, table : {"", "t", "s.t", ".t", "s."}]

ASSUME SessionAssumption ==
  /\ MaxRows \in Nat /\ MaxMigrations \in Nat
  /\ Jobs \subseteq SqlJob \cup SchemaJob

VARIABLES
  job,        \* the arguments of each call
  pc,         \* the await it is suspended at
  conn,       \* its connection: none, open, or open with its limit set
  work,       \* its statement at the server: none, or the limit it runs under
  got,        \* the result sets of the SQL collected so far
  parts,      \* the answers of the catalog queries so far
  givenUp,    \* why the await is given up: no, timeout, cancelled
  reply,      \* what it ended with
  catalog,    \* the version of the inspected table, 0 if there is none
  migrations, \* how many migrations there have been
  moved       \* history: has the table changed since the call first read it?

read == <<got, parts>>
session == <<pc, conn, work, read, givenUp, reply>>
world == <<catalog, migrations, moved>>
vars == <<job, session, world>>

Waiting == {"connect", "limit", "execute", "fetch"}

-----------------------------------------------------------------------------
(* What is asked. *)

(* inspect_schema: "s.t" is split if there is no schema, and an empty part *)
(* counts as none.                                                         *)
Route(j) ==
  IF j.kind = "sql" THEN "sql"
  ELSE IF j.table = "" \/ (j.table = "s." /\ ~j.schema) THEN "list"
  ELSE IF j.schema \/ j.table = "s.t" THEN "inspect"
  ELSE "invalid"

(* How many connections a call opens, one after the other. *)
Queries(j) == IF Route(j) = "inspect" THEN 3 ELSE 1

(* Mutant of Collected: fetchmany(max_rows). *)
CollectedShort(n, max) ==
  LET fetched == IF n <= max THEN n ELSE max IN
  IF n = NoRows THEN [count |-> 0, truncated |-> FALSE]
  ELSE [count |-> fetched, truncated |-> fetched > max]

(* fetchmany(max_rows + 1), of which max_rows are kept. *)
Collected(n, max) ==
  LET fetched == IF n <= max + 1 THEN n ELSE max + 1 IN
  IF n = NoRows THEN [count |-> 0, truncated |-> FALSE]
  ELSE [count |-> IF fetched <= max THEN fetched ELSE max, truncated |-> fetched > max]

-----------------------------------------------------------------------------
Init ==
  /\ job \in [Calls -> Jobs]
  /\ pc = [c \in Calls |-> "new"]
  /\ conn = [c \in Calls |-> "none"] /\ work = conn /\ reply = conn
  /\ got = [c \in Calls |-> <<>>] /\ parts = got
  /\ givenUp = [c \in Calls |-> "no"]
  /\ catalog \in {0, 1} /\ migrations = 1
  /\ moved = [c \in Calls |-> FALSE]

Await(c, where) == pc' = [pc EXCEPT ![c] = where] /\ UNCHANGED <<reply, givenUp>>

(* What it awaits there arrives. *)
Resumes(c, where) == pc[c] = where /\ givenUp[c] = "no"

(* Mutant of Conclude: the connection is closed after a result only. *)
ConcludeOpen(c, answer) ==
  /\ pc' = [pc EXCEPT ![c] = "ended"]
  /\ conn' = [conn EXCEPT ![c] = IF answer = "result" THEN "none" ELSE @]
  /\ reply' = [reply EXCEPT ![c] = answer]
  /\ UNCHANGED givenUp

(* The finally block closes the connection. *)
Conclude(c, answer) ==
  /\ pc' = [pc EXCEPT ![c] = "ended"]
  /\ conn' = [conn EXCEPT ![c] = "none"]
  /\ reply' = [reply EXCEPT ![c] = answer]
  /\ UNCHANGED givenUp

Start(c) ==
  /\ pc[c] = "new"
  /\ IF Route(job[c]) = "invalid"
     THEN Conclude(c, "invalid_params")
     ELSE Await(c, "connect") /\ UNCHANGED conn
  /\ UNCHANGED <<job, work, read, world>>

Connected(c) ==
  /\ Resumes(c, "connect")
  /\ conn' = [conn EXCEPT ![c] = "open"]
  /\ Await(c, "limit")
  /\ UNCHANGED <<job, work, read, world>>

(* Mutants of LimitSet: a failure to set the limit is ignored; the catalog *)
(* queries go without.                                                     *)
LimitSetOrNot(c) ==
  /\ Resumes(c, "limit")
  /\ \E how \in {"open", "limited"} : conn' = [conn EXCEPT ![c] = how]
  /\ work' = [work EXCEPT ![c] = conn'[c]]
  /\ Await(c, "execute")
  /\ UNCHANGED <<job, read, world>>

LimitSetForSql(c) ==
  /\ Resumes(c, "limit")
  /\ conn' = [conn EXCEPT ![c] = IF job[c].kind = "sql" THEN "limited" ELSE "open"]
  /\ work' = [work EXCEPT ![c] = conn'[c]]
  /\ Await(c, "execute")
  /\ UNCHANGED <<job, read, world>>

(* set statement_timeout, then the statement is sent. *)
LimitSet(c) ==
  /\ Resumes(c, "limit")
  /\ conn' = [conn EXCEPT ![c] = "limited"]
  /\ work' = [work EXCEPT ![c] = conn'[c]]
  /\ Await(c, "execute")
  /\ UNCHANGED <<job, read, world>>

(* One of the caller's statements sets statement_timeout; those after it   *)
(* run without a limit, for as long as they like.                          *)
LiftsLimit(c) ==
  /\ job[c].kind = "sql" /\ job[c].lifts
  /\ work[c] = "limited"
  /\ work' = [work EXCEPT ![c] = "lifted"]
  /\ UNCHANGED <<job, pc, conn, read, givenUp, reply, world>>

(* The first k results have been collected, and those without rows that    *)
(* follow are: only rows are awaited.                                      *)
Collects(c, k) ==
  LET sets == job[c].sets IN
  \E upTo \in k .. Len(sets) :
    /\ \A i \in k + 1 .. upTo : sets[i] = NoRows
    /\ upTo < Len(sets) => sets[upTo + 1] # NoRows
    /\ got' = [got EXCEPT ![c] = [i \in 1 .. upTo |-> Collected(sets[i], job[c].max)]]
    /\ IF upTo = Len(sets)
       THEN Conclude(c, "result")
       ELSE Await(c, "fetch") /\ UNCHANGED conn

SqlExecuted(c) ==
  /\ Resumes(c, "execute")
  /\ job[c].kind = "sql"
  /\ work' = [work EXCEPT ![c] = "none"]
  /\ Collects(c, 0)
  /\ UNCHANGED <<job, parts, world>>

RowsFetched(c) ==
  /\ Resumes(c, "fetch")
  /\ job[c].kind = "sql"
  /\ Collects(c, Len(got[c]) + 1)
  /\ UNCHANGED <<job, work, parts, world>>

(* A catalog query sees the catalog of one moment. *)
CatalogRead(c) ==
  /\ Resumes(c, "execute")
  /\ job[c].kind = "schema"
  /\ work' = [work EXCEPT ![c] = "none"]
  /\ parts' = [parts EXCEPT ![c] = Append(@, catalog)]
  /\ Await(c, "fetch")
  /\ UNCHANGED <<job, conn, got, world>>

(* Mutant of Missing: nobody looks whether the table is there. *)
NeverMissing(c) == FALSE

(* The first query of _inspect_table found no table. *)
Missing(c) == Route(job[c]) = "inspect" /\ parts[c] = <<0>>

(* The next query has a connection of its own. *)
CatalogFetched(c) ==
  /\ Resumes(c, "fetch")
  /\ job[c].kind = "schema"
  /\ \/ Missing(c) /\ Conclude(c, "invalid_params")
     \/ ~Missing(c) /\ Len(parts[c]) = Queries(job[c]) /\ Conclude(c, "result")
     \/ /\ ~Missing(c) /\ Len(parts[c]) < Queries(job[c])
        /\ conn' = [conn EXCEPT ![c] = "none"]
        /\ Await(c, "connect")
  /\ UNCHANGED <<job, work, read, world>>

-----------------------------------------------------------------------------
(* Failure. *)

(* An exception leaves the await: PostgreSQL refuses, the connection is    *)
(* lost, or what was sent or received cannot be encoded or loaded, which   *)
(* is often a ValueError and then counts as invalid arguments.             *)
Raises(c) ==
  /\ pc[c] \in Waiting /\ givenUp[c] = "no"
  /\ \E answer \in {"invalid_params", "execution_failed"} : Conclude(c, answer)
  /\ work' \in {work, [work EXCEPT ![c] = "none"]}
  /\ UNCHANGED <<job, read, world>>

GivesUp(c, why) ==
  /\ givenUp' = [givenUp EXCEPT ![c] = why]
  /\ UNCHANGED <<job, pc, conn, work, read, reply, world>>

(* Mutant of TimerFires: the rows are fetched without a timeout. *)
TimerSparesFetch(c) ==
  /\ pc[c] \in Waiting \ {"fetch"} /\ givenUp[c] = "no"
  /\ GivesUp(c, "timeout")

(* _with_timeout, at whatever await the call is. *)
TimerFires(c) ==
  /\ pc[c] \in Waiting /\ givenUp[c] = "no"
  /\ GivesUp(c, "timeout")

(* The client cancels the tool call. *)
Cancel(c) ==
  /\ pc[c] \in Waiting /\ givenUp[c] # "cancelled"
  /\ GivesUp(c, "cancelled")

(* The await that was given up ends: psycopg has asked the server to       *)
(* cancel the statement and awaited what becomes of it, or it was broken   *)
(* off again, or lost the connection, which is an error of its own.        *)
Abandons(c) ==
  /\ pc[c] \in Waiting /\ givenUp[c] # "no"
  /\ \E answer \in {"execution_failed", "cancelled"} :
       /\ answer = "cancelled" => givenUp[c] = "cancelled"
       /\ Conclude(c, answer)
  /\ work' \in {work, [work EXCEPT ![c] = "none"]}
  /\ UNCHANGED <<job, read, world>>

(* A statement nobody waits for ends, or statement_timeout ends it. *)
LeftoverEnds(c) ==
  /\ pc[c] = "ended"
  /\ work[c] # "none"
  /\ work' = [work EXCEPT ![c] = "none"]
  /\ UNCHANGED <<job, pc, conn, read, givenUp, reply, world>>

-----------------------------------------------------------------------------
(* The table is dropped, created or altered. *)
Migrate ==
  /\ migrations < MaxMigrations
  /\ migrations' = migrations + 1
  /\ catalog' \in {0, migrations'} \ {catalog}
  /\ moved' = [c \in Calls |-> moved[c] \/ (pc[c] \in Waiting /\ parts[c] # <<>>)]
  /\ UNCHANGED <<job, session>>

Idle ==
  /\ \A c \in Calls : pc[c] = "ended" /\ work[c] \in {"none", "lifted"}
  /\ UNCHANGED vars

Session(c) ==
  \/ Start(c) \/ Connected(c) \/ LimitSet(c) \/ LiftsLimit(c)
  \/ SqlExecuted(c) \/ RowsFetched(c) \/ CatalogRead(c) \/ CatalogFetched(c)
  \/ Raises(c) \/ TimerFires(c) \/ Cancel(c) \/ Abandons(c) \/ LeftoverEnds(c)

Next == (\E c \in Calls : Session(c)) \/ Migrate \/ Idle

Spec == Init /\ [][Next]_vars

(* The timers fire; an await that was given up ends, since PostgreSQL ends *)
(* the statement psycopg asks it to cancel or the connection is lost; and  *)
(* statement_timeout ends what it limits.  Nothing makes PostgreSQL answer *)
(* before.                                                                 *)
Fairness ==
  \A c \in Calls :
    /\ WF_vars(TimerFires(c))
    /\ WF_vars(Abandons(c))
    /\ WF_vars(work[c] = "limited" /\ LeftoverEnds(c))

FairSpec == Spec /\ Fairness
-----------------------------------------------------------------------------
(* Every variable holds a value the code can give it. *)
TypeOK ==
  /\ job \in [Calls -> Jobs]
  /\ pc \in [Calls -> Waiting \cup {"new", "ended"}]
  /\ conn \in [Calls -> {"none", "open", "limited"}]
  /\ work \in [Calls -> {"none", "open", "limited", "lifted"}]
  /\ got \in [Calls -> Seq([count : Nat, truncated : BOOLEAN])] /\ parts \in [Calls -> Seq(Nat)]
  /\ givenUp \in [Calls -> {"no", "timeout", "cancelled"}]
  /\ reply \in [Calls -> {"none", "result", "invalid_params", "execution_failed", "cancelled"}]
  /\ catalog \in 0 .. migrations /\ migrations \in Nat
  /\ moved \in [Calls -> BOOLEAN]

(* Wherever a call is broken off, between the three connections of an      *)
(* inspection included, it has a connection exactly from connect to close: *)
(* none is left open, and never two at a time.                             *)
ConnectionsClosed ==
  \A c \in Calls : conn[c] # "none" <=> pc[c] \in Waiting \ {"connect"}

(* No statement begins before its connection has its limit, and it is the  *)
(* caller's own SQL if one goes on without: a catalog query never does,    *)
(* nor SQL that leaves statement_timeout alone.                            *)
OnlyLimited ==
  \A c \in Calls :
    \/ work[c] \in {"none", "limited"}
    \/ work[c] = "lifted" /\ job[c].kind = "sql" /\ job[c].lifts

(* A result has every result set of the SQL, in order; each has as many    *)
(* rows as there are, up to max_rows, and says whether there were more.    *)
RowsAreExact ==
  \A c \in Calls : job[c].kind = "sql" /\ reply[c] = "result" =>
    /\ Len(got[c]) = Len(job[c].sets)
    /\ \A i \in DOMAIN got[c] : LET n == job[c].sets[i] IN
         /\ 1 .. got[c][i].count = {row \in 1 .. n : row <= job[c].max}
         /\ got[c][i].truncated <=> n > job[c].max

(* The three parts of an inspected table, read over three connections, are *)
(* those of one existing table, unless it changed while they were read.    *)
TableIsWhole ==
  \A c \in Calls : Route(job[c]) = "inspect" /\ reply[c] = "result" =>
    /\ Len(parts[c]) = 3
    /\ parts[c][1] # 0
    /\ moved[c] \/ (parts[c][2] = parts[c][1] /\ parts[c][3] = parts[c][1])

(* A statement whose call is over, because its timer fired, its client     *)
(* cancelled or its connection broke, does not run for ever, although      *)
(* nobody waits for it, unless its own SQL has lifted the limit.           *)
LeftoversEnd ==
  \A c \in Calls : pc[c] = "ended" /\ work[c] # "none" ~> work[c] \in {"none", "lifted"}

(* A call is one wait that ends, and ends with one answer. *)
Wait == INSTANCE QueryWait WITH
  tool  <- [c \in Calls |-> IF job[c].kind = "sql" THEN "ops_sql_readonly" ELSE "ops_db_schema"],
  state <- [c \in Calls |-> IF reply[c] # "none" THEN reply[c]
                            ELSE IF pc[c] = "new" THEN "idle" ELSE "querying"]

(* Whatever PostgreSQL does, the call keeps what QueryWait promises to the *)
(* handler: it waits once, for however many awaits and connections, and    *)
(* ends once, because every await has a timer and psycopg ends those that  *)
(* were given up.                                                          *)
EndsLikeOneWait == Wait!FairSpec
=============================================================================
