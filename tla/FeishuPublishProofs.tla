------------------------ MODULE FeishuPublishProofs ------------------------
(***************************************************************************)
(* Theorems about the token cache and the report of FeishuPublish, for any *)
(* number of publishes, apps, jobs, cards and attempts, and any TTL longer *)
(* than a token request.                                                   *)
(*                                                                         *)
(* What makes an entry honest lies in requests that are still under way,   *)
(* whose answers may arrive in any order: CacheInd says of each that it    *)
(* was dated before its token was handed out, and is not overdue.          *)
(***************************************************************************)
EXTENDS FeishuPublish, FiniteSetTheorems, SequenceTheorems, TLAPS

CacheTypes ==
  /\ now \in 0 .. Horizon
  /\ cache \in [Apps -> Entry \cup {NoEntry}]
  /\ job \in [Publishes -> Jobs]
  /\ phase \in [Publishes -> Waiting \cup {"new", "done"}]
  /\ creds \in [Publishes -> Apps \cup {NoApp}]
  /\ asked \in [Publishes -> 0 .. Horizon]
  /\ token \in [Publishes -> Token \cup {NoToken}]

RequestsInTime ==
  \A p \in Publishes :
    /\ phase[p] \in {"asking", "answered"} =>
         creds[p] \in Apps /\ asked[p] <= now /\ now <= asked[p] + RequestTime
    /\ phase[p] = "answered" =>
         /\ token[p] \in Token
         /\ token[p].app = creds[p]
         /\ asked[p] <= token[p].at

CacheInd == CacheTypes /\ RequestsInTime /\ TokensAreOwn /\ CacheNeverFlatters

-----------------------------------------------------------------------------
(* No entry can be mistaken for a missing one. *)
LEMMA EntryIsNotNoEntry == \A e \in Entry : e # NoEntry /\ e.token \in Token /\ e.ts \in 0 .. Horizon
<1>1. \A e \in Entry : e.token \in Token /\ e.ts \in 0 .. Horizon
  BY DEF Entry
<1>2. \A t \in Token : t.app \in Apps
  BY DEF Token
<1>3. NoEntry.token.app = NoApp
  BY DEF NoEntry, NoToken
<1>4. QED
  BY <1>1, <1>2, <1>3, PublishAssumption

LEMMA InitCacheInd == Init => CacheInd
<1> SUFFICES ASSUME Init PROVE CacheInd
  OBVIOUS
<1>1. CacheTypes
  BY PublishAssumption DEF Init, CacheTypes
<1>2. RequestsInTime /\ TokensAreOwn /\ CacheNeverFlatters
  BY DEF Init, RequestsInTime, TokensAreOwn, CacheNeverFlatters
<1>3. QED
  BY <1>1, <1>2 DEF CacheInd

(* A step that only moves a publish on, or ends it. *)
LEMMA MovesOn ==
  ASSUME CacheInd, NEW p \in Publishes, NEW q \in {"lookup", "sending", "backoff", "done"},
         phase' = [phase EXCEPT ![p] = q],
         q \in {"sending", "backoff"} => phase[p] \in {"sending", "backoff"},
         UNCHANGED <<now, cache, job, creds, asked, token>>
  PROVE  CacheInd'
<1>1. CacheTypes'
  BY DEF CacheInd, CacheTypes, Waiting
<1>2. RequestsInTime'
  BY DEF CacheInd, CacheTypes, RequestsInTime
<1>3. TokensAreOwn' /\ CacheNeverFlatters'
  BY DEF CacheInd, CacheTypes, TokensAreOwn, CacheNeverFlatters
<1>4. QED
  BY <1>1, <1>2, <1>3 DEF CacheInd

(* What the end of the lookup does, by the await it leads to. *)
LEMMA LookupKeeps ==
  ASSUME CacheInd, NEW p \in Publishes, LookupEnds(p)
  PROVE  CacheInd'
<1>1. PICK app \in {EnvApp} \cup {job[p].row} :
        /\ app = NoApp => EnvApp = NoApp
        /\ creds' = [creds EXCEPT ![p] = app]
        /\ \/ /\ EarlyReturn(job[p], app) # "none"
              /\ Return(p, EarlyReturn(job[p], app))
              /\ UNCHANGED <<asked, token>>
           \/ /\ EarlyReturn(job[p], app) = "none"
              /\ \E entry \in Usable(app) : token' = [token EXCEPT ![p] = entry.token]
              /\ phase' = [phase EXCEPT ![p] = "sending"]
              /\ UNCHANGED <<asked, outcome>>
           \/ /\ EarlyReturn(job[p], app) = "none"
              /\ Usable(app) = {}
              /\ asked' = [asked EXCEPT ![p] = now]
              /\ phase' = [phase EXCEPT ![p] = "asking"]
              /\ UNCHANGED <<token, outcome>>
  BY DEF LookupEnds
<1>2. now' = now /\ cache' = cache /\ job' = job
  BY DEF LookupEnds
<1>3. app \in Apps \cup {NoApp}
  <2>1. job[p] \in Job
    BY PublishAssumption DEF CacheInd, CacheTypes
  <2>2. job[p].row \in Apps \cup {NoApp}
    BY <2>1 DEF Job
  <2>3. QED
    BY <2>2, PublishAssumption
<1>4. EarlyReturn(job[p], app) = "none" => app \in Apps
  BY <1>3 DEF EarlyReturn
<1>5. CASE phase' = [phase EXCEPT ![p] = "done"] /\ UNCHANGED <<asked, token>>
  <2>1. CacheTypes'
    BY <1>1, <1>2, <1>3, <1>5 DEF CacheInd, CacheTypes
  <2>2. RequestsInTime' /\ TokensAreOwn' /\ CacheNeverFlatters'
    BY <1>1, <1>2, <1>5 DEF CacheInd, CacheTypes, RequestsInTime, TokensAreOwn, CacheNeverFlatters
  <2>3. QED
    BY <2>1, <2>2 DEF CacheInd
<1>6. CASE /\ app \in Apps
           /\ \E entry \in Usable(app) : token' = [token EXCEPT ![p] = entry.token]
           /\ phase' = [phase EXCEPT ![p] = "sending"]
           /\ UNCHANGED asked
  <2>1. cache[app] \in Entry /\ token' = [token EXCEPT ![p] = cache[app].token]
    BY <1>6 DEF Usable, Fresh, CacheInd, CacheTypes
  <2>2. cache[app].token \in Token /\ cache[app].token.app = app
    BY <1>6, <2>1, EntryIsNotNoEntry DEF CacheInd, TokensAreOwn
  <2>3. CacheTypes'
    BY <1>1, <1>2, <1>3, <1>6, <2>1, <2>2 DEF CacheInd, CacheTypes, Waiting
  <2>4. RequestsInTime'
    BY <1>1, <1>2, <1>6, <2>1 DEF CacheInd, CacheTypes, RequestsInTime
  <2>5. TokensAreOwn' /\ CacheNeverFlatters'
    BY <1>1, <1>2, <1>6, <2>1, <2>2 DEF CacheInd, CacheTypes, TokensAreOwn, CacheNeverFlatters
  <2>6. QED
    BY <2>3, <2>4, <2>5 DEF CacheInd
<1>7. CASE /\ app \in Apps
           /\ asked' = [asked EXCEPT ![p] = now]
           /\ phase' = [phase EXCEPT ![p] = "asking"]
           /\ UNCHANGED token
  <2>1. CacheTypes'
    BY <1>1, <1>2, <1>3, <1>7 DEF CacheInd, CacheTypes, Waiting
  <2>2. RequestsInTime'
    BY <1>1, <1>2, <1>7, PublishAssumption DEF CacheInd, CacheTypes, RequestsInTime
  <2>3. TokensAreOwn' /\ CacheNeverFlatters'
    BY <1>1, <1>2, <1>7 DEF CacheInd, CacheTypes, TokensAreOwn, CacheNeverFlatters
  <2>4. QED
    BY <2>1, <2>2, <2>3 DEF CacheInd
<1>8. QED
  BY <1>1, <1>4, <1>5, <1>6, <1>7 DEF Return

(* Feishu dates the token no earlier than the request. *)
LEMMA IssueKeeps ==
  ASSUME CacheInd, NEW p \in Publishes, FeishuIssues(p)
  PROVE  CacheInd'
<1> DEFINE new == [app |-> creds[p], at |-> now]
<1>1. creds[p] \in Apps /\ asked[p] <= now /\ now <= asked[p] + RequestTime
  BY DEF FeishuIssues, CacheInd, RequestsInTime
<1>2. new \in Token
  BY <1>1 DEF Token, CacheInd, CacheTypes
<1>3. CacheTypes'
  BY <1>2 DEF FeishuIssues, CacheInd, CacheTypes, Waiting
<1>4. RequestsInTime'
  BY <1>1, <1>2 DEF FeishuIssues, CacheInd, CacheTypes, RequestsInTime
<1>5. TokensAreOwn' /\ CacheNeverFlatters'
  BY DEF FeishuIssues, CacheInd, CacheTypes, TokensAreOwn, CacheNeverFlatters
<1>6. QED
  BY <1>3, <1>4, <1>5 DEF CacheInd

(* The entry is dated when the request was, so not after its token. *)
LEMMA ArrivalKeeps ==
  ASSUME CacheInd, NEW p \in Publishes, TokenArrives(p)
  PROVE  CacheInd'
<1> DEFINE new == [token |-> token[p], ts |-> asked[p]]
<1>1. /\ creds[p] \in Apps /\ token[p] \in Token
      /\ token[p].app = creds[p] /\ asked[p] <= token[p].at
  BY DEF TokenArrives, CacheInd, RequestsInTime
<1>2. new \in Entry
  BY <1>1 DEF Entry, CacheInd, CacheTypes
<1>3. CacheTypes'
  BY <1>1, <1>2 DEF TokenArrives, CacheInd, CacheTypes, Waiting
<1>4. RequestsInTime'
  BY DEF TokenArrives, CacheInd, CacheTypes, RequestsInTime
<1>5. TokensAreOwn' /\ CacheNeverFlatters'
  BY <1>1 DEF TokenArrives, CacheInd, CacheTypes, TokensAreOwn, CacheNeverFlatters
<1>6. QED
  BY <1>3, <1>4, <1>5 DEF CacheInd

LEMMA TickKeeps == CacheInd /\ Tick => CacheInd'
<1> SUFFICES ASSUME CacheInd, Tick PROVE CacheInd'
  OBVIOUS
<1>1. CacheTypes'
  BY PublishAssumption DEF Tick, CacheInd, CacheTypes
<1>2. RequestsInTime'
  BY PublishAssumption DEF Tick, CacheInd, CacheTypes, RequestsInTime
<1>3. TokensAreOwn' /\ CacheNeverFlatters'
  BY DEF Tick, CacheInd, TokensAreOwn, CacheNeverFlatters
<1>4. QED
  BY <1>1, <1>2, <1>3 DEF CacheInd

LEMMA NextCacheInd == CacheInd /\ [Next]_vars => CacheInd'
<1> SUFFICES ASSUME CacheInd, [Next]_vars PROVE CacheInd'
  OBVIOUS
<1>u. ASSUME UNCHANGED vars PROVE CacheInd'
  BY <1>u DEF vars, CacheInd, CacheTypes, RequestsInTime, TokensAreOwn, CacheNeverFlatters
<1>1. ASSUME NEW p \in Publishes, Start(p) PROVE CacheInd'
  BY <1>1, MovesOn DEF Start
<1>2. ASSUME NEW p \in Publishes, TokenFails(p) PROVE CacheInd'
  BY <1>2, MovesOn DEF TokenFails, Return
<1>3. ASSUME NEW p \in Publishes, CardSent(p) PROVE CacheInd'
  BY <1>3, MovesOn DEF CardSent, NextCard, Return
<1>4. ASSUME NEW p \in Publishes, CardFails(p) PROVE CacheInd'
  BY <1>4, MovesOn DEF CardFails, NextCard, Return
<1>5. ASSUME NEW p \in Publishes, WakeUp(p) PROVE CacheInd'
  BY <1>5, MovesOn DEF WakeUp
<1>6. ASSUME NEW p \in Publishes, Cancel(p) PROVE CacheInd'
  BY <1>6, MovesOn DEF Cancel, Return
<1>7. QED
  BY <1>u, <1>1, <1>2, <1>3, <1>4, <1>5, <1>6, LookupKeeps, IssueKeeps, ArrivalKeeps, TickKeeps
  DEF Next, Publish, Idle

(* The invariant of the cache, from which the next three follow.           *)
THEOREM CacheInductive == Spec => []CacheInd
  BY InitCacheInd, NextCacheInd, PTL DEF Spec

(* In whatever order concurrent requests are answered, a publish sends     *)
(* with a token of its own app.                                            *)
THEOREM OwnTokens == Spec => []TokensAreOwn
<1>1. CacheInd => TokensAreOwn
  BY DEF CacheInd
<1>2. QED
  BY <1>1, CacheInductive, PTL

(* ... and no cache entry makes its token look younger than it is. *)
THEOREM HonestCache == Spec => []CacheNeverFlatters
<1>1. CacheInd => CacheNeverFlatters
  BY DEF CacheInd
<1>2. QED
  BY <1>1, CacheInductive, PTL

(* A publish starts to send with a token handed out less than TTL before:  *)
(* a cached one because its entry is honest, a new one because no request  *)
(* takes as long as TTL.                                                   *)
THEOREM YoungTokens == Spec => TokensVouched
<1>1. CacheInd /\ [Next]_vars
        => [\A p \in Publishes : BeginsToSend(p) => now - token'[p].at < TTL]_vars
  <2> SUFFICES ASSUME CacheInd, [Next]_vars, NEW p \in Publishes, BeginsToSend(p)
               PROVE  now - token'[p].at < TTL
    OBVIOUS
  <2>b. phase[p] # "sending" /\ phase[p] # "backoff" /\ phase'[p] = "sending"
    BY DEF BeginsToSend
  <2>t. /\ phase \in [Publishes -> Waiting \cup {"new", "done"}]
        /\ token \in [Publishes -> Token \cup {NoToken}]
        /\ now \in 0 .. Horizon
    BY DEF CacheInd, CacheTypes
  <2>1. TokenArrives(p) \/ LookupEnds(p)
    <3>1. \A r \in Publishes : r # p /\ Publish(r) => phase'[p] = phase[p]
      BY <2>t DEF Publish, Start, LookupEnds, FeishuIssues, TokenArrives, TokenFails, CardSent,
                  CardFails, WakeUp, Cancel, NextCard, Return
    <3>2. ~Start(p) /\ ~FeishuIssues(p) /\ ~TokenFails(p) /\ ~Cancel(p)
      BY <2>b, <2>t DEF Start, FeishuIssues, TokenFails, Cancel, Return
    <3>3. ~CardSent(p) /\ ~CardFails(p) /\ ~WakeUp(p)
      BY <2>b DEF CardSent, CardFails, WakeUp
    <3>4. ~Tick /\ ~UNCHANGED vars
      BY <2>b DEF Tick, vars
    <3>5. QED
      BY <2>b, <3>1, <3>2, <3>3, <3>4 DEF Next, Publish, Idle
  <2>2. CASE TokenArrives(p)
    <3>1. /\ token[p] \in Token /\ asked[p] <= token[p].at
          /\ now <= asked[p] + RequestTime /\ asked[p] \in 0 .. Horizon
      BY <2>2 DEF TokenArrives, CacheInd, CacheTypes, RequestsInTime
    <3>2. token[p].at \in 0 .. Horizon
      BY <3>1 DEF Token
    <3>3. token' = token
      BY <2>2 DEF TokenArrives
    <3>4. QED
      BY <2>t, <3>1, <3>2, <3>3, PublishAssumption
  <2>3. CASE LookupEnds(p)
    <3>0. job[p].row \in Apps \cup {NoApp}
      <4>1. job[p] \in Job
        BY PublishAssumption DEF CacheInd, CacheTypes
      <4>2. QED
        BY <4>1 DEF Job
    <3>1. PICK app \in Apps : \E entry \in Usable(app) : token' = [token EXCEPT ![p] = entry.token]
      BY <2>b, <2>t, <2>3, <3>0, PublishAssumption DEF LookupEnds, Return, EarlyReturn
    <3>2. /\ cache[app] # NoEntry /\ now - cache[app].ts < TTL
          /\ token' = [token EXCEPT ![p] = cache[app].token]
      BY <3>1 DEF Usable, Fresh
    <3>3. cache[app] \in Entry /\ cache[app].ts <= cache[app].token.at
      BY <3>2 DEF CacheInd, CacheTypes, CacheNeverFlatters
    <3>4. cache[app].token.at \in 0 .. Horizon /\ cache[app].ts \in 0 .. Horizon
      BY <3>3 DEF Entry, Token
    <3>5. token'[p].at = cache[app].token.at
      BY <2>t, <3>2
    <3>6. QED
      BY <2>t, <3>2, <3>3, <3>4, <3>5, PublishAssumption
  <2>4. QED
    BY <2>1, <2>2, <2>3
<1>2. QED
  BY <1>1, CacheInductive, PTL DEF Spec, TokensVouched
-----------------------------------------------------------------------------
(* The report.  PublishOK is what holds of one publish, by its arguments,  *)
(* its await and what it knows of its cards: those before pos are dealt    *)
(* with, those after it untried.                                           *)
Cards(j) == DOMAIN Plan(j)
Same(j, i) == {k \in Cards(j) : Plan(j)[k] = Plan(j)[i]}

Told(j, at, co, re, i) ==
  \/ re[i] = "id" /\ \E k \in Same(j, i) : co[k] > 0
  \/ re[i] = "error" /\ \E k \in Same(j, i) : at[k] = Attempts

PublishTypes(j, ps, at, co, re, ou) ==
  /\ at \in [Cards(j) -> 0 .. Attempts]
  /\ co \in [Cards(j) -> 0 .. Attempts]
  /\ re \in [Cards(j) -> {"none", "id", "error"}]
  /\ ps \in Cards(j) \cup {1}
  /\ ou \in {"none", "error", "healthy", "cards", "cancelled"}

PublishOK(j, ph, ps, at, co, re, ou) ==
  /\ PublishTypes(j, ps, at, co, re, ou)
  /\ \A i \in Cards(j) : co[i] <= at[i]
  /\ ou = "cards" => ph = "done" /\ \A i \in Cards(j) : Told(j, at, co, re, i)
  /\ ph \in {"sending", "backoff"} =>
       /\ ps \in Cards(j)
       /\ \A i \in Cards(j) :
            /\ i < ps => Told(j, at, co, re, i)
            /\ i = ps => at[i] < Attempts
            /\ i > ps => at[i] = 0
  /\ ph \in {"new", "lookup", "asking", "answered"} => ps = 1 /\ \A i \in Cards(j) : at[i] = 0
  /\ ph \in {"asking", "answered"} => 1 \in Cards(j)

SendInd ==
  \A p \in Publishes :
    PublishOK(job[p], phase[p], pos[p], attempts[p], copies[p], report[p], outcome[p])

SendTypes ==
  /\ pos \in [Publishes -> Nat]
  /\ DOMAIN attempts = Publishes /\ DOMAIN copies = Publishes
  /\ DOMAIN report = Publishes
  /\ outcome \in [Publishes -> {"none", "error", "healthy", "cards", "cancelled"}]

ReportInd == CacheInd /\ SendTypes /\ SendInd

(* A plan is a sequence, and not an empty one if there is a problem to     *)
(* tell and somebody to tell it.                                           *)
LEMMA PlanIsSequence ==
  ASSUME NEW j \in Jobs
  PROVE  /\ Len(Plan(j)) \in Nat
         /\ Cards(j) = 1 .. Len(Plan(j))
         /\ j.targets # <<>> /\ ProblemShops(j) # {} => 1 \in Cards(j)
<1> DEFINE n == Cardinality(ProblemShops(j))
           k == Len(j.targets)
<1>1. j \in Job
  BY PublishAssumption
<1>2. k \in Nat /\ (j.targets # <<>> => k > 0)
  BY <1>1 DEF Job
<1>3. ProblemShops(j) \subseteq Shops
  BY <1>1 DEF ProblemShops, Active, Job, Connection
<1>4. IsFiniteSet(ProblemShops(j))
  BY <1>3, FS_Subset, PublishAssumption
<1>5. n \in Nat /\ (ProblemShops(j) # {} => n > 0)
  BY <1>4, FS_CardinalityType, FS_EmptySet
<1>6. n * k \in Nat /\ (n > 0 /\ k > 0 => n * k > 0)
  BY <1>2, <1>5
<1>7. \E S, m : m = n * k /\ Plan(j) \in [1 .. m -> S]
  <2>1. DOMAIN Plan(j) = 1 .. n * k /\ Plan(j) = [i \in 1 .. n * k |-> Plan(j)[i]]
    BY DEF Plan
  <2>2. Plan(j) \in [1 .. n * k -> {Plan(j)[i] : i \in 1 .. n * k}]
    BY <2>1
  <2>3. QED
    BY <2>2
<1>8. PICK S, m : m = n * k /\ Plan(j) \in [1 .. m -> S]
  BY <1>7
<1>9. Plan(j) \in Seq(S)
  BY <1>6, <1>8, SeqDef
<1>10. Len(Plan(j)) = n * k
  BY <1>6, <1>8, <1>9
<1>11. QED
  BY <1>2, <1>5, <1>6, <1>8, <1>10 DEF Cards

(* A card that is dealt with: reported by what is known of it, and on to   *)
(* the next one or the end.                                                *)
LEMMA CardDealtWith ==
  ASSUME NEW j \in Jobs, NEW ps, NEW at, NEW co, NEW re, NEW ou,
         PublishOK(j, "sending", ps, at, co, re, ou),
         NEW more \in {0, 1}, NEW what \in {"id", "error"},
         NEW at2, NEW co2, NEW re2,
         at2 = [at EXCEPT ![ps] = @ + 1],
         co2 = [co EXCEPT ![ps] = @ + more],
         re2 = [i \in Cards(j) |-> IF Plan(j)[i] = Plan(j)[ps] THEN what ELSE re[i]],
         what = "id" => more = 1,
         what = "error" => at[ps] + 1 = Attempts
  PROVE  /\ ps = Len(Plan(j)) => PublishOK(j, "done", ps, at2, co2, re2, "cards")
         /\ ps # Len(Plan(j)) => PublishOK(j, "sending", ps + 1, at2, co2, re2, ou)
<1>1. /\ Len(Plan(j)) \in Nat
      /\ Cards(j) = 1 .. Len(Plan(j))
  BY PlanIsSequence
<1>2. /\ ps \in Cards(j) /\ at[ps] < Attempts
      /\ at \in [Cards(j) -> 0 .. Attempts] /\ co \in [Cards(j) -> 0 .. Attempts]
      /\ re \in [Cards(j) -> {"none", "id", "error"}]
      /\ \A i \in Cards(j) : co[i] <= at[i]
      /\ \A i \in Cards(j) : i > ps => at[i] = 0
      /\ ou \in {"none", "error", "healthy", "cards", "cancelled"} /\ ou # "cards"
  BY DEF PublishOK, PublishTypes
<1>3. /\ at2 \in [Cards(j) -> 0 .. Attempts] /\ co2 \in [Cards(j) -> 0 .. Attempts]
      /\ re2 \in [Cards(j) -> {"none", "id", "error"}]
      /\ \A i \in Cards(j) : co2[i] <= at2[i]
      /\ \A i \in Cards(j) : i # ps => at2[i] = at[i]
      /\ \A i \in Cards(j) : co2[i] >= co[i]
      /\ at2[ps] = at[ps] + 1 /\ co2[ps] = co[ps] + more
  BY <1>1, <1>2, PublishAssumption
<1>4. ASSUME NEW i \in Cards(j), i < ps \/ Plan(j)[i] = Plan(j)[ps]
      PROVE  Told(j, at2, co2, re2, i)
  <2>1. CASE Plan(j)[i] = Plan(j)[ps]
    <3>1. re2[i] = what /\ ps \in Same(j, i)
      BY <1>2, <2>1 DEF Same
    <3>2. what = "id" => co2[ps] > 0
      BY <1>1, <1>2, <1>3
    <3>3. what = "error" => at2[ps] = Attempts
      BY <1>3
    <3>4. QED
      BY <3>1, <3>2, <3>3 DEF Told
  <2>2. CASE Plan(j)[i] # Plan(j)[ps]
    <3>1. Told(j, at, co, re, i) /\ re2[i] = re[i]
      BY <1>4, <2>2 DEF PublishOK
    <3>2. \A k \in Same(j, i) : k \in Cards(j) /\ k # ps
      BY <2>2 DEF Same
    <3>3. \A k \in Same(j, i) : at2[k] = at[k] /\ (co[k] > 0 => co2[k] > 0)
      BY <1>2, <1>3, <3>2
    <3>4. QED
      BY <3>1, <3>3 DEF Told
  <2>3. QED
    BY <2>1, <2>2
<1>5. CASE ps = Len(Plan(j))
  <2>1. \A i \in Cards(j) : i < ps \/ i = ps
    BY <1>1, <1>5
  <2>2. \A i \in Cards(j) : Told(j, at2, co2, re2, i)
    BY <1>4, <2>1
  <2>3. QED
    BY <1>2, <1>3, <1>5, <2>2 DEF PublishOK, PublishTypes
<1>6. CASE ps # Len(Plan(j))
  <2>1. ps + 1 \in Cards(j) /\ \A i \in Cards(j) : i < ps + 1 => i < ps \/ i = ps
    BY <1>1, <1>2, <1>6
  <2>2. \A i \in Cards(j) : i < ps + 1 => Told(j, at2, co2, re2, i)
    BY <1>4, <2>1
  <2>3. \A i \in Cards(j) : /\ i = ps + 1 => at2[i] < Attempts
                            /\ i > ps + 1 => at2[i] = 0
    BY <1>1, <1>2, <1>3, PublishAssumption
  <2>4. QED
    BY <1>2, <1>3, <1>6, <2>1, <2>2, <2>3 DEF PublishOK, PublishTypes
<1>7. QED
  BY <1>5, <1>6

(* One publish moves, the others stay as they are. *)
LEMMA OneMoves ==
  ASSUME ReportInd, NEW p \in Publishes, CacheInd', SendTypes', UNCHANGED job,
         \A q \in Publishes \ {p} :
           /\ phase'[q] = phase[q] /\ pos'[q] = pos[q] /\ attempts'[q] = attempts[q]
           /\ copies'[q] = copies[q] /\ report'[q] = report[q] /\ outcome'[q] = outcome[q],
         PublishOK(job[p], phase'[p], pos'[p], attempts'[p], copies'[p], report'[p], outcome'[p])
  PROVE  ReportInd'
<1>1. ASSUME NEW q \in Publishes
      PROVE  PublishOK(job'[q], phase'[q], pos'[q], attempts'[q], copies'[q], report'[q], outcome'[q])
  <2>1. CASE q = p
    BY <2>1
  <2>2. CASE q # p
    BY <2>2 DEF ReportInd, SendInd
  <2>3. QED
    BY <2>1, <2>2
<1>2. SendInd'
  BY <1>1 DEF SendInd
<1>3. QED
  BY <1>2 DEF ReportInd

LEMMA InitReportInd == Init => ReportInd
<1> SUFFICES ASSUME Init PROVE ReportInd
  OBVIOUS
<1>1. CacheInd
  BY InitCacheInd
<1>2. SendTypes
  BY DEF Init, SendTypes
<1>3. ASSUME NEW p \in Publishes
      PROVE  PublishOK(job[p], phase[p], pos[p], attempts[p], copies[p], report[p], outcome[p])
  <2>1. /\ phase[p] = "new" /\ pos[p] = 1 /\ outcome[p] = "none"
        /\ attempts[p] = [i \in Cards(job[p]) |-> 0]
        /\ copies[p] = [i \in Cards(job[p]) |-> 0]
        /\ report[p] = [i \in Cards(job[p]) |-> "none"]
    BY DEF Init, Cards
  <2>2. QED
    BY <2>1, PublishAssumption DEF PublishOK, PublishTypes
<1>4. QED
  BY <1>1, <1>2, <1>3 DEF ReportInd, SendInd

(* A publish goes from one await to another, or returns, and no card is    *)
(* touched.                                                                *)
LEMMA NoCardTouched ==
  ASSUME ReportInd, CacheInd', NEW p \in Publishes, NEW to, NEW result,
         UNCHANGED <<job, pos, attempts, copies, report>>,
         phase' = [phase EXCEPT ![p] = to],
         outcome' = [outcome EXCEPT ![p] = result],
         \/ to = "done" /\ result \in {"error", "healthy", "cancelled"}
         \/ /\ result = outcome[p]
            /\ \/ phase[p] \in {"sending", "backoff"} /\ to \in {"sending", "backoff"}
               \/ phase[p] = "new" /\ to = "lookup"
               \/ /\ phase[p] \in {"lookup", "asking", "answered"} /\ 1 \in Cards(job[p])
                  /\ to \in {"asking", "answered", "sending"}
  PROVE  ReportInd'
<1>1. phase \in [Publishes -> Waiting \cup {"new", "done"}]
  BY DEF ReportInd, CacheInd, CacheTypes
<1>2. outcome \in [Publishes -> {"none", "error", "healthy", "cards", "cancelled"}]
  BY DEF ReportInd, SendTypes
<1>3. PublishOK(job[p], phase[p], pos[p], attempts[p], copies[p], report[p], outcome[p])
  BY DEF ReportInd, SendInd
<1>4. phase'[p] = to /\ outcome'[p] = result
  BY <1>1, <1>2
<1>5. CASE to = "done" /\ result \in {"error", "healthy", "cancelled"}
  <2>1. PublishOK(job[p], to, pos[p], attempts[p], copies[p], report[p], result)
    BY <1>3, <1>5 DEF PublishOK, PublishTypes
  <2>2. SendTypes'
    BY <1>2 DEF ReportInd, SendTypes
  <2>3. QED
    BY <1>1, <1>2, <1>4, <2>1, <2>2, OneMoves
<1>6. CASE result = outcome[p] /\ to # "done"
  <2>1. PublishOK(job[p], to, pos[p], attempts[p], copies[p], report[p], result)
    <3>1. CASE phase[p] \in {"sending", "backoff"} /\ to \in {"sending", "backoff"}
      BY <1>3, <1>6, <3>1 DEF PublishOK
    <3>2. CASE phase[p] = "new" /\ to = "lookup"
      BY <1>3, <1>6, <3>2 DEF PublishOK
    <3>3. CASE /\ phase[p] \in {"lookup", "asking", "answered"} /\ 1 \in Cards(job[p])
               /\ to \in {"asking", "answered", "sending"}
      <4>1. Cards(job[p]) \subseteq Nat \ {0}
        <5>1. job[p] \in Jobs
          BY DEF ReportInd, CacheInd, CacheTypes
        <5>2. QED
          BY <5>1, PlanIsSequence
      <4>2. outcome[p] # "cards"
        BY <1>3, <3>3 DEF PublishOK
      <4>3. pos[p] = 1 /\ \A i \in Cards(job[p]) : attempts[p][i] = 0
        BY <1>3, <3>3 DEF PublishOK
      <4>4. \A i \in Cards(job[p]) : ~(i < 1) /\ attempts[p][i] < Attempts
        BY <4>1, <4>3, PublishAssumption
      <4>5. QED
        BY <1>3, <1>6, <3>3, <4>2, <4>3, <4>4 DEF PublishOK
    <3>4. QED
      BY <1>6, <3>1, <3>2, <3>3
  <2>2. SendTypes'
    BY <1>2 DEF ReportInd, SendTypes
  <2>3. QED
    BY <1>1, <1>2, <1>4, <2>1, <2>2, OneMoves
<1>7. QED
  BY <1>5, <1>6

LEMMA LookupReports ==
  ASSUME ReportInd, CacheInd', NEW p \in Publishes, LookupEnds(p)
  PROVE  ReportInd'
<1>1. PICK app \in {EnvApp} \cup {job[p].row} :
        \/ EarlyReturn(job[p], app) # "none" /\ Return(p, EarlyReturn(job[p], app))
        \/ /\ EarlyReturn(job[p], app) = "none" /\ UNCHANGED outcome
           /\ \E to \in {"sending", "asking"} : phase' = [phase EXCEPT ![p] = to]
  BY DEF LookupEnds
<1>2. phase[p] = "lookup" /\ UNCHANGED <<job, pos, attempts, copies, report>>
  BY DEF LookupEnds
<1>3. CASE EarlyReturn(job[p], app) # "none" /\ Return(p, EarlyReturn(job[p], app))
  <2>1. EarlyReturn(job[p], app) \in {"error", "healthy"}
    BY <1>3 DEF EarlyReturn
  <2>2. QED
    BY <1>2, <1>3, <2>1, NoCardTouched DEF Return
<1>4. ASSUME NEW to \in {"sending", "asking"}, EarlyReturn(job[p], app) = "none",
             UNCHANGED outcome, phase' = [phase EXCEPT ![p] = to]
      PROVE  ReportInd'
  <2>1. job[p] \in Jobs /\ outcome = [q \in Publishes |-> outcome[q]]
    BY DEF ReportInd, CacheInd, CacheTypes, SendTypes
  <2>2. job[p].targets # <<>> /\ ProblemShops(job[p]) # {}
    BY <1>4 DEF EarlyReturn
  <2>3. 1 \in Cards(job[p])
    BY <2>1, <2>2, PlanIsSequence
  <2>4. outcome' = [outcome EXCEPT ![p] = outcome[p]]
    BY <1>4, <2>1
  <2>5. QED
    BY <1>2, <1>4, <2>3, <2>4, NoCardTouched
<1>5. QED
  BY <1>1, <1>3, <1>4

(* The last attempt at a card: accepted, or the one that gives up. *)
LEMMA CardReports ==
  ASSUME ReportInd, CacheInd', NEW p \in Publishes, phase[p] = "sending", UNCHANGED job,
         NEW accepted \in BOOLEAN, NEW what \in {"id", "error"},
         Attempt(p, accepted), report' = Reported(p, what), NextCard(p),
         what = "id" => accepted,
         what = "error" => attempts[p][pos[p]] + 1 = Attempts
  PROVE  ReportInd'
<1> DEFINE more == IF accepted THEN 1 ELSE 0
           at2 == [attempts[p] EXCEPT ![pos[p]] = @ + 1]
           co2 == [copies[p] EXCEPT ![pos[p]] = @ + more]
           re2 == [i \in Cards(job[p]) |->
                     IF Plan(job[p])[i] = Plan(job[p])[pos[p]] THEN what ELSE report[p][i]]
<1>1. /\ phase \in [Publishes -> Waiting \cup {"new", "done"}] /\ job[p] \in Jobs
      /\ SendTypes
  BY DEF ReportInd, CacheInd, CacheTypes
<1>2. PublishOK(job[p], "sending", pos[p], attempts[p], copies[p], report[p], outcome[p])
  BY DEF ReportInd, SendInd
<1>3. /\ copies[p] \in [Cards(job[p]) -> 0 .. Attempts] /\ pos[p] \in Cards(job[p])
      /\ copies[p][pos[p]] \in Nat
  BY <1>2, PublishAssumption DEF PublishOK, PublishTypes
<1>4. attempts' = [attempts EXCEPT ![p] = at2] /\ copies' = [copies EXCEPT ![p] = co2]
  <2>1. attempts' = [attempts EXCEPT ![p] = at2]
    BY DEF Attempt
  <2>2. copies[p][pos[p]] + more = IF accepted THEN copies[p][pos[p]] + 1 ELSE copies[p][pos[p]]
    BY <1>3
  <2>3. copies' = [copies EXCEPT ![p] = co2]
    BY <2>2 DEF Attempt
  <2>4. QED
    BY <2>1, <2>3
<1>5. report' = [report EXCEPT ![p] = re2]
  BY <1>1 DEF Reported, Cards, SendTypes
<1>6. attempts'[p] = at2 /\ copies'[p] = co2 /\ report'[p] = re2
  BY <1>1, <1>4, <1>5 DEF SendTypes
<1>7. /\ DOMAIN attempts' = Publishes /\ DOMAIN copies' = Publishes /\ DOMAIN report' = Publishes
  BY <1>1, <1>4, <1>5 DEF SendTypes
<1>8. /\ pos[p] = Len(Plan(job[p])) => PublishOK(job[p], "done", pos[p], at2, co2, re2, "cards")
      /\ pos[p] # Len(Plan(job[p])) =>
           PublishOK(job[p], "sending", pos[p] + 1, at2, co2, re2, outcome[p])
  BY <1>1, <1>2, CardDealtWith
<1> HIDE DEF at2, co2, re2
<1>9. ASSUME NEW q \in Publishes \ {p}
      PROVE  attempts'[q] = attempts[q] /\ copies'[q] = copies[q] /\ report'[q] = report[q]
  BY <1>1, <1>4, <1>5 DEF SendTypes
<1>10. CASE pos[p] = Len(Plan(job[p]))
  <2>1. /\ phase' = [phase EXCEPT ![p] = "done"] /\ outcome' = [outcome EXCEPT ![p] = "cards"]
        /\ pos' = pos
    BY <1>10 DEF NextCard, Return
  <2>2. SendTypes'
    BY <1>1, <1>7, <2>1 DEF SendTypes
  <2>3. phase'[p] = "done" /\ outcome'[p] = "cards" /\ pos'[p] = pos[p]
    BY <1>1, <2>1 DEF SendTypes
  <2>4. \A q \in Publishes \ {p} :
          phase'[q] = phase[q] /\ outcome'[q] = outcome[q] /\ pos'[q] = pos[q]
    BY <1>1, <2>1 DEF SendTypes
  <2>5. QED
    BY <1>6, <1>8, <1>9, <1>10, <2>2, <2>3, <2>4, OneMoves
<1>11. CASE pos[p] # Len(Plan(job[p]))
  <2>1. /\ phase' = [phase EXCEPT ![p] = "sending"] /\ outcome' = outcome
        /\ pos' = [pos EXCEPT ![p] = pos[p] + 1]
    BY <1>11 DEF NextCard
  <2>2. SendTypes'
    BY <1>1, <1>7, <2>1 DEF SendTypes
  <2>3. phase'[p] = "sending" /\ outcome'[p] = outcome[p] /\ pos'[p] = pos[p] + 1
    BY <1>1, <2>1 DEF SendTypes
  <2>4. \A q \in Publishes \ {p} :
          phase'[q] = phase[q] /\ outcome'[q] = outcome[q] /\ pos'[q] = pos[q]
    BY <1>1, <2>1 DEF SendTypes
  <2>5. QED
    BY <1>6, <1>8, <1>9, <1>11, <2>2, <2>3, <2>4, OneMoves
<1>12. QED
  BY <1>10, <1>11

(* An attempt that is not the last: the publish tries again, or it has     *)
(* been cancelled.                                                         *)
LEMMA AttemptReports ==
  ASSUME ReportInd, CacheInd', NEW p \in Publishes, phase[p] = "sending",
         UNCHANGED <<job, pos, report>>, NEW accepted \in BOOLEAN, Attempt(p, accepted),
         NEW to, NEW result,
         phase' = [phase EXCEPT ![p] = to], outcome' = [outcome EXCEPT ![p] = result],
         \/ to = "done" /\ result = "cancelled"
         \/ to = "backoff" /\ result = outcome[p] /\ attempts[p][pos[p]] + 1 < Attempts
  PROVE  ReportInd'
<1> DEFINE more == IF accepted THEN 1 ELSE 0
           at2 == [attempts[p] EXCEPT ![pos[p]] = @ + 1]
           co2 == [copies[p] EXCEPT ![pos[p]] = @ + more]
<1>1. /\ phase \in [Publishes -> Waiting \cup {"new", "done"}] /\ job[p] \in Jobs
      /\ SendTypes
  BY DEF ReportInd, CacheInd, CacheTypes
<1>2. PublishOK(job[p], "sending", pos[p], attempts[p], copies[p], report[p], outcome[p])
  BY DEF ReportInd, SendInd
<1>3. /\ attempts[p] \in [Cards(job[p]) -> 0 .. Attempts]
      /\ copies[p] \in [Cards(job[p]) -> 0 .. Attempts]
      /\ pos[p] \in Cards(job[p]) /\ attempts[p][pos[p]] < Attempts
      /\ outcome[p] # "cards"
      /\ \A i \in Cards(job[p]) : copies[p][i] <= attempts[p][i]
  BY <1>2 DEF PublishOK, PublishTypes
<1>4. Cards(job[p]) \subseteq Nat
  BY <1>1, PlanIsSequence
<1>5. /\ at2 \in [Cards(job[p]) -> 0 .. Attempts] /\ co2 \in [Cards(job[p]) -> 0 .. Attempts]
      /\ \A i \in Cards(job[p]) : co2[i] <= at2[i]
      /\ \A i \in Cards(job[p]) : i # pos[p] => at2[i] = attempts[p][i]
      /\ \A i \in Cards(job[p]) : co2[i] >= copies[p][i]
      /\ at2[pos[p]] = attempts[p][pos[p]] + 1
  BY <1>3, PublishAssumption
<1>6. ASSUME NEW i \in Cards(job[p]), Told(job[p], attempts[p], copies[p], report[p], i)
      PROVE  Told(job[p], at2, co2, report[p], i)
  <2>1. \A k \in Same(job[p], i) : k \in Cards(job[p])
    BY DEF Same
  <2>2. \A k \in Cards(job[p]) : attempts[p][k] = Attempts => k # pos[p]
    BY <1>3, PublishAssumption
  <2>3. \A k \in Same(job[p], i) : /\ attempts[p][k] = Attempts => at2[k] = Attempts
                                   /\ copies[p][k] > 0 => co2[k] > 0
    BY <1>3, <1>5, <2>1, <2>2, PublishAssumption
  <2>4. QED
    BY <1>6, <2>3 DEF Told
<1>7. PublishOK(job[p], to, pos[p], at2, co2, report[p], result)
  <2>1. CASE to = "done" /\ result = "cancelled"
    BY <1>2, <1>5, <2>1 DEF PublishOK, PublishTypes
  <2>2. CASE to = "backoff" /\ result = outcome[p] /\ attempts[p][pos[p]] + 1 < Attempts
    <3>1. \A i \in Cards(job[p]) :
            /\ i < pos[p] => Told(job[p], at2, co2, report[p], i)
            /\ i = pos[p] => at2[i] < Attempts
            /\ i > pos[p] => at2[i] = 0
      BY <1>2, <1>3, <1>4, <1>5, <1>6, <2>2 DEF PublishOK
    <3>2. PublishTypes(job[p], pos[p], at2, co2, report[p], result)
      BY <1>2, <1>5, <2>2 DEF PublishOK, PublishTypes
    <3>3. QED
      BY <1>3, <1>5, <2>2, <3>1, <3>2 DEF PublishOK
  <2>3. QED
    BY <2>1, <2>2
<1>8. attempts' = [attempts EXCEPT ![p] = at2] /\ copies' = [copies EXCEPT ![p] = co2]
  <2>1. attempts' = [attempts EXCEPT ![p] = at2]
    BY DEF Attempt
  <2>2. copies[p][pos[p]] + more = IF accepted THEN copies[p][pos[p]] + 1 ELSE copies[p][pos[p]]
    BY <1>3, PublishAssumption
  <2>3. copies' = [copies EXCEPT ![p] = co2]
    BY <2>2 DEF Attempt
  <2>4. QED
    BY <2>1, <2>3
<1> HIDE DEF at2, co2
<1>9. SendTypes'
  BY <1>1, <1>8 DEF SendTypes
<1>10. /\ phase'[p] = to /\ outcome'[p] = result /\ attempts'[p] = at2 /\ copies'[p] = co2
  BY <1>1, <1>8 DEF SendTypes
<1>11. \A q \in Publishes \ {p} :
         /\ phase'[q] = phase[q] /\ outcome'[q] = outcome[q]
         /\ attempts'[q] = attempts[q] /\ copies'[q] = copies[q]
  BY <1>1, <1>8 DEF SendTypes
<1>12. QED
  BY <1>7, <1>9, <1>10, <1>11, OneMoves

LEMMA NextReportInd == ReportInd /\ [Next]_vars => ReportInd'
<1> SUFFICES ASSUME ReportInd, [Next]_vars PROVE ReportInd'
  OBVIOUS
<1>1. CacheInd'
  BY NextCacheInd DEF ReportInd
<1>2. /\ outcome \in [Publishes -> {"none", "error", "healthy", "cards", "cancelled"}]
      /\ \A p \in Publishes : outcome = [outcome EXCEPT ![p] = outcome[p]]
  BY DEF ReportInd, SendTypes
<1>u. ASSUME UNCHANGED <<job, phase, pos, attempts, copies, report, outcome>> PROVE ReportInd'
  BY <1>1, <1>u DEF ReportInd, SendTypes, SendInd
<1>3. ASSUME NEW p \in Publishes, Start(p) PROVE ReportInd'
  BY <1>1, <1>2, <1>3, NoCardTouched DEF Start
<1>4. ASSUME NEW p \in Publishes, LookupEnds(p) PROVE ReportInd'
  BY <1>1, <1>4, LookupReports
<1>5. ASSUME NEW p \in Publishes, phase[p] \in {"asking", "answered"} PROVE 1 \in Cards(job[p])
  BY <1>5 DEF ReportInd, SendInd, PublishOK
<1>6. ASSUME NEW p \in Publishes, FeishuIssues(p) PROVE ReportInd'
  <2>1. 1 \in Cards(job[p])
    BY <1>5, <1>6 DEF FeishuIssues
  <2>2. QED
    BY <1>1, <1>2, <1>6, <2>1, NoCardTouched DEF FeishuIssues
<1>7. ASSUME NEW p \in Publishes, TokenArrives(p) PROVE ReportInd'
  <2>1. 1 \in Cards(job[p])
    BY <1>5, <1>7 DEF TokenArrives
  <2>2. QED
    BY <1>1, <1>2, <1>7, <2>1, NoCardTouched DEF TokenArrives
<1>8. ASSUME NEW p \in Publishes, TokenFails(p) PROVE ReportInd'
  BY <1>1, <1>8, NoCardTouched DEF TokenFails, Return
<1>9. ASSUME NEW p \in Publishes, CardSent(p) PROVE ReportInd'
  BY <1>1, <1>9, CardReports DEF CardSent
<1>10. ASSUME NEW p \in Publishes, CardFails(p) PROVE ReportInd'
  <2>1. PICK accepted \in BOOLEAN : Attempt(p, accepted)
    BY <1>10 DEF CardFails
  <2>2. CASE attempts[p][pos[p]] + 1 < Attempts /\ phase' = [phase EXCEPT ![p] = "backoff"]
             /\ UNCHANGED <<pos, report, outcome>>
    BY <1>1, <1>2, <1>10, <2>1, <2>2, AttemptReports DEF CardFails
  <2>3. CASE /\ attempts[p][pos[p]] + 1 = Attempts
             /\ report' = Reported(p, "error") /\ NextCard(p)
    BY <1>1, <1>10, <2>1, <2>3, CardReports DEF CardFails
  <2>4. QED
    BY <1>10, <2>2, <2>3 DEF CardFails
<1>11. ASSUME NEW p \in Publishes, WakeUp(p) PROVE ReportInd'
  BY <1>1, <1>2, <1>11, NoCardTouched DEF WakeUp
<1>12. ASSUME NEW p \in Publishes, Cancel(p) PROVE ReportInd'
  <2>1. CASE UNCHANGED <<attempts, copies>>
    BY <1>1, <1>12, <2>1, NoCardTouched DEF Cancel, Return
  <2>2. CASE phase[p] = "sending" /\ Attempt(p, TRUE)
    BY <1>1, <1>12, <2>2, AttemptReports DEF Cancel, Return
  <2>3. QED
    BY <1>12, <2>1, <2>2 DEF Cancel
<1>13. QED
  BY <1>u, <1>3, <1>4, <1>6, <1>7, <1>8, <1>9, <1>10, <1>11, <1>12
  DEF Next, Publish, Tick, Idle, vars

(* The invariant of the report, from which the last two follow.            *)
THEOREM ReportInductive == Spec => []ReportInd
  BY InitReportInd, NextReportInd, PTL DEF Spec

(* The types; in particular no card is tried more often than Attempts, and *)
(* pos never leaves the plan.                                              *)
THEOREM TypeCorrect == Spec => []TypeOK
<1>1. ReportInd => TypeOK
  <2> SUFFICES ASSUME ReportInd PROVE TypeOK
    OBVIOUS
  <2>1. ASSUME NEW p \in Publishes
        PROVE  LET cards == DOMAIN Plan(job[p]) IN
                 /\ attempts[p] \in [cards -> 0 .. Attempts]
                 /\ copies[p] \in [cards -> 0 .. Attempts]
                 /\ report[p] \in [cards -> {"none", "id", "error"}]
                 /\ pos[p] \in cards \cup {1}
    BY DEF ReportInd, SendInd, PublishOK, PublishTypes, Cards
  <2>2. QED
    BY <2>1 DEF ReportInd, CacheInd, CacheTypes, SendTypes, TypeOK
<1>2. QED
  BY <1>1, ReportInductive, PTL

(* What a publish reports is true of every card of its plan, whatever was  *)
(* refused, lost or accepted unheard.                                      *)
THEOREM TrueReport == Spec => []ReportIsTrue
<1>1. ReportInd => ReportIsTrue
  <2> SUFFICES ASSUME ReportInd, NEW p \in Publishes, outcome[p] = "cards"
               PROVE  \A i \in Cards(job[p]) :
                        Told(job[p], attempts[p], copies[p], report[p], i)
    BY DEF ReportIsTrue, Told, Same, Cards
  <2>1. QED
    BY DEF ReportInd, SendInd, PublishOK
<1>2. QED
  BY <1>1, ReportInductive, PTL

-----------------------------------------------------------------------------
(* The promise.  A publish tells neither more nor fewer than it is to tell *)
(* because its plan walks through all pairs of a problem shop and a target *)
(* and through nothing else.                                               *)

(* The shop and the target of card i, of k targets, by their numbers. *)
ShopOf(i, k) == ((i - 1) \div k) + 1
TargetOf(i, k) == ((i - 1) % k) + 1

LEMMA CardIsPair ==
  ASSUME NEW n \in Nat, NEW k \in Nat, NEW i \in 1 .. n * k
  PROVE  ShopOf(i, k) \in 1 .. n /\ TargetOf(i, k) \in 1 .. k
<1> DEFINE q == (i - 1) \div k
           r == (i - 1) % k
<1>0. n * k \in Nat
  OBVIOUS
<1>1. k > 0
  BY <1>0
<1>2. q \in Int /\ r \in 0 .. k - 1 /\ i - 1 = k * q + r
  BY <1>0, <1>1
<1> HIDE DEF q, r
<1>3. q >= 0
  <2> SUFFICES ASSUME q <= -1 PROVE FALSE
    BY <1>2
  <2>1. k * q <= k * (-1)
    BY <1>1, <1>2
  <2>2. QED
    BY <1>0, <1>2, <2>1
<1>4. q < n
  <2> SUFFICES ASSUME q >= n PROVE FALSE
    BY <1>2
  <2>1. k * q >= k * n /\ k * n = n * k
    BY <1>1, <1>2
  <2>2. QED
    BY <1>0, <1>2, <2>1
<1>5. QED
  BY <1>2, <1>3, <1>4 DEF q, r, ShopOf, TargetOf

LEMMA PairIsCard ==
  ASSUME NEW n \in Nat, NEW k \in Nat, NEW a \in 1 .. n, NEW b \in 1 .. k
  PROVE  \E i \in 1 .. n * k : ShopOf(i, k) = a /\ TargetOf(i, k) = b
<1> DEFINE i == k * (a - 1) + b
<1>1. k > 0 /\ k * (a - 1) \in Nat /\ n * k \in Nat
  OBVIOUS
<1>2. k * (a - 1) <= k * (n - 1) /\ k * (n - 1) = n * k - k
  BY <1>1
<1>3. i \in 1 .. n * k
  BY <1>1, <1>2
<1>4. (i - 1) \div k = a - 1 /\ (i - 1) % k = b - 1
  <2>1. i - 1 = k * (a - 1) + (b - 1) /\ b - 1 \in 0 .. k - 1 /\ a - 1 \in Nat
    BY <1>1
  <2>2. QED
    BY <1>1, <2>1
<1> HIDE DEF i
<1>5. i - 1 \in Int /\ (a - 1) + 1 = a /\ (b - 1) + 1 = b
  BY <1>3
<1>6. QED
  BY <1>3, <1>4, <1>5 DEF ShopOf, TargetOf

(* Numbering a finite set without repetition leaves no element out. *)
LEMMA NumberingIsComplete ==
  ASSUME NEW S, IsFiniteSet(S)
  PROVE  LET s == CHOOSE s \in [1 .. Cardinality(S) -> S] :
                    \A a, b \in 1 .. Cardinality(S) : s[a] = s[b] => a = b
         IN  /\ \A a \in 1 .. Cardinality(S) : s[a] \in S
             /\ \A e \in S : \E a \in 1 .. Cardinality(S) : s[a] = e
<1> DEFINE n == Cardinality(S)
           Numbers(s) == \A a, b \in 1 .. n : s[a] = s[b] => a = b
           s == CHOOSE s \in [1 .. n -> S] : Numbers(s)
<1>1. n \in Nat /\ ExistsBijection(1 .. n, S)
  BY FS_CardinalityType
<1>2. PICK f \in Bijection(1 .. n, S) : TRUE
  BY <1>1 DEF ExistsBijection
<1>3. f \in [1 .. n -> S] /\ Numbers(f)
  BY <1>2 DEF Bijection, Injection, IsInjective
<1>4. s \in [1 .. n -> S] /\ Numbers(s)
  BY <1>3
<1> HIDE DEF s
<1>5. {s[a] : a \in 1 .. n} = S
  <2>1. IsFiniteSet(1 .. n) /\ Cardinality(1 .. n) = n
    BY <1>1, FS_Interval
  <2>2. s \in Injection(1 .. n, S)
    BY <1>4 DEF Injection, IsInjective
  <2>3. QED
    BY <1>1, <1>4, <2>1, <2>2, FS_Injection DEF Surjection
<1>6. QED
  BY <1>4, <1>5 DEF s

LEMMA PlanComplete ==
  ASSUME NEW j \in Jobs
  PROVE  {Plan(j)[i] : i \in Cards(j)} = Wanted(j)
<1> DEFINE S == ProblemShops(j)
           n == Cardinality(S)
           k == Len(j.targets)
           s == CHOOSE s \in [1 .. n -> S] : \A a, b \in 1 .. n : s[a] = s[b] => a = b
<1>1. j \in Job /\ S \subseteq Shops
  BY PublishAssumption DEF ProblemShops, Active, Job, Connection
<1>2. k \in Nat /\ DOMAIN j.targets = 1 .. k
  BY <1>1 DEF Job
<1>3. IsFiniteSet(S) /\ n \in Nat
  BY <1>1, FS_Subset, FS_CardinalityType, PublishAssumption
<1>4. (\A a \in 1 .. n : s[a] \in S) /\ (\A e \in S : \E a \in 1 .. n : s[a] = e)
  BY <1>3, NumberingIsComplete
<1>5. Plan(j) = [i \in 1 .. n * k |->
                   [shop |-> s[ShopOf(i, k)], target |-> j.targets[TargetOf(i, k)]]]
  BY DEF Plan, ShopOf, TargetOf
<1> HIDE DEF n, k, s
<1>6. Cards(j) = 1 .. n * k
  BY <1>5 DEF Cards
<1> HIDE DEF S
<1>7. ASSUME NEW i \in Cards(j) PROVE Plan(j)[i] \in Wanted(j)
  <2>1. ShopOf(i, k) \in 1 .. n /\ TargetOf(i, k) \in 1 .. k
    BY <1>2, <1>3, <1>6, CardIsPair
  <2>2. Plan(j)[i] = [shop |-> s[ShopOf(i, k)], target |-> j.targets[TargetOf(i, k)]]
    BY <1>5, <1>6
  <2>3. QED
    BY <1>2, <1>4, <2>1, <2>2 DEF Wanted, S
<1>8. ASSUME NEW r \in Wanted(j) PROVE \E i \in Cards(j) : Plan(j)[i] = r
  <2>1. PICK a \in 1 .. n, b \in 1 .. k : r = [shop |-> s[a], target |-> j.targets[b]]
    <3>1. r = [shop |-> r.shop, target |-> r.target]
      BY DEF Wanted
    <3>2. r.shop \in S /\ \E b \in 1 .. k : r.target = j.targets[b]
      BY <1>2 DEF Wanted, S
    <3>3. QED
      BY <1>4, <3>1, <3>2
  <2>2. PICK i \in 1 .. n * k : ShopOf(i, k) = a /\ TargetOf(i, k) = b
    BY <1>2, <1>3, PairIsCard
  <2>3. QED
    BY <1>5, <1>6, <2>1, <2>2
<1>9. QED
  BY <1>7, <1>8

(* A publish that is still under way has returned nothing. *)
Unreturned == \A p \in Publishes : phase[p] # "done" => outcome[p] = "none"

LEMMA NextUnreturned == ReportInd /\ Unreturned /\ [Next]_vars => Unreturned'
<1> SUFFICES ASSUME ReportInd, Unreturned, [Next]_vars PROVE Unreturned'
  OBVIOUS
<1>1. /\ phase \in [Publishes -> Waiting \cup {"new", "done"}]
      /\ outcome \in [Publishes -> {"none", "error", "healthy", "cards", "cancelled"}]
  BY DEF ReportInd, CacheInd, CacheTypes, SendTypes
<1>2. ASSUME NEW p \in Publishes, NEW result, Return(p, result) PROVE Unreturned'
  BY <1>1, <1>2 DEF Return, Unreturned
<1>3. ASSUME NEW p \in Publishes, NEW to, phase[p] # "done", phase' = [phase EXCEPT ![p] = to],
             UNCHANGED outcome
      PROVE  Unreturned'
  BY <1>1, <1>3 DEF Unreturned
<1>4. ASSUME UNCHANGED <<phase, outcome>> PROVE Unreturned'
  BY <1>4 DEF Unreturned
<1>5. ASSUME NEW p \in Publishes, phase[p] = "sending", NextCard(p) PROVE Unreturned'
  BY <1>2, <1>3, <1>5 DEF NextCard
<1>6. ASSUME NEW p \in Publishes, LookupEnds(p) PROVE Unreturned'
  <2>1. \/ \E result : Return(p, result)
        \/ UNCHANGED outcome /\ \E to : phase' = [phase EXCEPT ![p] = to]
    BY <1>6 DEF LookupEnds
  <2>2. QED
    BY <1>2, <1>3, <1>6, <2>1 DEF LookupEnds
<1>7. ASSUME NEW p \in Publishes, Start(p) \/ FeishuIssues(p) \/ TokenArrives(p) \/ WakeUp(p)
      PROVE  Unreturned'
  BY <1>3, <1>7 DEF Start, FeishuIssues, TokenArrives, WakeUp
<1>8. ASSUME NEW p \in Publishes, TokenFails(p) \/ Cancel(p) PROVE Unreturned'
  BY <1>2, <1>8 DEF TokenFails, Cancel
<1>9. ASSUME NEW p \in Publishes, CardSent(p) \/ CardFails(p) PROVE Unreturned'
  BY <1>3, <1>5, <1>9 DEF CardSent, CardFails
<1>10. QED
  BY <1>4, <1>6, <1>7, <1>8, <1>9 DEF Next, Publish, Tick, Idle, vars

PromiseInd == ReportInd /\ Unreturned

LEMMA PromiseInductive == Spec => []PromiseInd
<1>1. Init => PromiseInd
  BY InitReportInd DEF Init, Unreturned, PromiseInd
<1>2. PromiseInd /\ [Next]_vars => PromiseInd'
  BY NextReportInd, NextUnreturned DEF PromiseInd
<1>3. QED
  BY <1>1, <1>2, PTL DEF Spec

(* The state the promise speaks of. *)
AllWanted == [p \in Publishes |-> Wanted(job[p])]
AllReached == [p \in Publishes |-> Reached(p)]
Claims(p) == [recipient \in Wanted(job[p]) |-> Claim(p, recipient)]
AllClaims == [p \in Publishes |-> Claims(p)]
CardOf(p) == Plan(job[p])[pos[p]]

(* A claim depends on the arguments, the report and the outcome alone. *)
ClaimFrom(j, re, ou, recipient) ==
  LET entries == {re[i] : i \in {i \in DOMAIN Plan(j) : Plan(j)[i] = recipient}} IN
  IF ou # "cards" \/ entries = {} THEN "none" ELSE CHOOSE entry \in entries : TRUE

LEMMA ClaimIsFrom ==
  ASSUME NEW p, NEW recipient
  PROVE  /\ Claim(p, recipient) = ClaimFrom(job[p], report[p], outcome[p], recipient)
         /\ Claim(p, recipient)' = ClaimFrom(job'[p], report'[p], outcome'[p], recipient)
  BY Zenon DEF Claim, ClaimFrom

LEMMA InitPromise == Init => Promise!Init
<1> SUFFICES ASSUME Init PROVE Promise!Init
  OBVIOUS
<1>1. ASSUME NEW p \in Publishes PROVE Wanted(job[p]) \subseteq [shop : Shops, target : Targets]
  <2>1. job[p] \in Job
    BY PublishAssumption DEF Init
  <2>2. /\ ProblemShops(job[p]) \subseteq Shops
        /\ {job[p].targets[i] : i \in DOMAIN job[p].targets} \subseteq Targets
    BY <2>1 DEF ProblemShops, Active, Job, Connection
  <2>3. QED
    BY <2>2 DEF Wanted
<1>2. \A p \in Publishes : Reached(p) = {}
  BY DEF Init, Reached
<1>3. \A p \in Publishes : \A recipient : Claim(p, recipient) = "none"
  BY DEF Init, Claim
<1>4. outcome = [p \in Publishes |-> "none"]
  BY DEF Init
<1>5. QED
  BY <1>1, <1>2, <1>3, <1>4 DEF Promise!Init, Promise!Silent

(* Nobody is told before the first card is sent. *)
LEMMA NobodyReached ==
  ASSUME PromiseInd, NEW p \in Publishes, phase[p] \in {"lookup", "asking", "answered"}
  PROVE  Reached(p) = {}
<1>1. PublishOK(job[p], phase[p], pos[p], attempts[p], copies[p], report[p], outcome[p])
  BY DEF PromiseInd, ReportInd, SendInd
<1>2. /\ copies[p] \in [Cards(job[p]) -> 0 .. Attempts]
      /\ \A i \in Cards(job[p]) : attempts[p][i] = 0 /\ copies[p][i] <= attempts[p][i]
  BY <1>1 DEF PublishOK, PublishTypes
<1>3. \A i \in DOMAIN copies[p] : ~(copies[p][i] > 0)
  BY <1>2, PublishAssumption
<1>4. QED
  BY <1>3 DEF Reached

(* An accepted card tells its recipient, who is one to be told. *)
LEMMA CardReaches ==
  ASSUME PromiseInd, NEW p \in Publishes, phase[p] = "sending", UNCHANGED job,
         NEW accepted \in BOOLEAN, Attempt(p, accepted)
  PROVE  /\ CardOf(p) \in Wanted(job[p])
         /\ AllReached' = IF accepted THEN [AllReached EXCEPT ![p] = @ \cup {CardOf(p)}]
                                      ELSE AllReached
<1>1. PublishOK(job[p], "sending", pos[p], attempts[p], copies[p], report[p], outcome[p])
  BY DEF PromiseInd, ReportInd, SendInd
<1>2. /\ copies[p] \in [Cards(job[p]) -> 0 .. Attempts] /\ pos[p] \in Cards(job[p])
      /\ DOMAIN copies = Publishes /\ job[p] \in Jobs
  BY <1>1 DEF PublishOK, PublishTypes, PromiseInd, ReportInd, SendTypes, CacheInd, CacheTypes
<1>3. CardOf(p) \in Wanted(job[p])
  BY <1>2, PlanComplete DEF CardOf
<1>4. CASE accepted
  <2>1. copies' = [copies EXCEPT ![p] = [copies[p] EXCEPT ![pos[p]] = @ + 1]]
    BY <1>4 DEF Attempt
  <2>2. /\ copies'[p] = [copies[p] EXCEPT ![pos[p]] = @ + 1]
        /\ \A q \in Publishes : q # p => copies'[q] = copies[q]
    BY <1>2, <2>1
  <2>3. /\ DOMAIN copies'[p] = Cards(job[p]) /\ DOMAIN copies[p] = Cards(job[p])
        /\ \A i \in Cards(job[p]) : copies'[p][i] > 0 <=> copies[p][i] > 0 \/ i = pos[p]
    BY <1>2, <2>2, PublishAssumption
  <2>4. Reached(p)' = Reached(p) \cup {CardOf(p)}
    BY <1>2, <2>3 DEF Reached, CardOf
  <2>5. \A q \in Publishes : q # p => Reached(q)' = Reached(q)
    BY <2>2 DEF Reached
  <2>6. QED
    BY <1>3, <1>4, <2>4, <2>5 DEF AllReached
<1>5. CASE ~accepted
  <2>1. copies' = [copies EXCEPT ![p] = [copies[p] EXCEPT ![pos[p]] = copies[p][pos[p]]]]
    BY <1>5 DEF Attempt
  <2>2. \A q \in Publishes : copies'[q] = copies[q]
    BY <1>2, <2>1
  <2>3. \A q \in Publishes : Reached(q)' = Reached(q)
    BY <2>2 DEF Reached
  <2>4. QED
    BY <1>3, <1>5, <2>3 DEF AllReached
<1>6. QED
  BY <1>4, <1>5

(* Nothing is claimed but by a publish that returns its report. *)
LEMMA NothingClaimed ==
  ASSUME PromiseInd, UNCHANGED job, NEW p \in Publishes, phase[p] # "done",
         outcome'[p] # "cards",
         \A q \in Publishes : q # p => report'[q] = report[q] /\ outcome'[q] = outcome[q]
  PROVE  AllClaims' = AllClaims
<1>1. outcome[p] # "cards"
  BY DEF PromiseInd, Unreturned
<1>2. Claims(p)' = Claims(p)
  BY <1>1 DEF Claims, Claim
<1>3. ASSUME NEW q \in Publishes, q # p PROVE Claims(q)' = Claims(q)
  <2>1. report'[q] = report[q] /\ outcome'[q] = outcome[q] /\ job' = job
    BY <1>3
  <2>2. \A recipient : Claim(q, recipient)' = Claim(q, recipient)
    BY <2>1, ClaimIsFrom
  <2>3. QED
    BY <2>2 DEF Claims
<1>4. QED
  BY <1>2, <1>3 DEF AllClaims

LEMMA PromiseStutters == UNCHANGED <<job, copies, report, outcome>> => UNCHANGED Promise!vars
<1> SUFFICES ASSUME UNCHANGED <<job, copies, report, outcome>> PROVE UNCHANGED Promise!vars
  OBVIOUS
<1>1. \A p \in Publishes : Reached(p)' = Reached(p)
  BY DEF Reached
<1>2. \A p, recipient : Claim(p, recipient)' = Claim(p, recipient)
  BY ClaimIsFrom
<1>3. QED
  BY <1>1, <1>2 DEF Promise!vars

(* A publish that returns before the first card, or is cancelled. *)
LEMMA ReturnsEarly ==
  ASSUME PromiseInd, NEW p \in Publishes, phase[p] \in Waiting,
         UNCHANGED <<job, copies, report>>, NEW result, outcome' = [outcome EXCEPT ![p] = result],
         \/ result = "error" /\ phase[p] \in {"lookup", "asking", "answered"}
         \/ result = "healthy" /\ ProblemShops(job[p]) = {}
         \/ result = "cancelled"
  PROVE  Promise!Next
<1>1. outcome[p] = "none" /\ DOMAIN outcome = Publishes
  BY DEF PromiseInd, Unreturned, Waiting, ReportInd, SendTypes
<1>2. AllWanted' = AllWanted /\ AllReached' = AllReached
  BY DEF AllWanted, AllReached, Reached
<1>3. AllClaims' = AllClaims
  <2>1. outcome'[p] # "cards" /\ \A q \in Publishes : q # p => outcome'[q] = outcome[q]
    BY <1>1
  <2>2. QED
    BY <2>1, NothingClaimed DEF Waiting
<1>4. CASE result = "error" /\ phase[p] \in {"lookup", "asking", "answered"}
  <2>1. Reached(p) = {}
    BY <1>4, NobodyReached
  <2>2. Promise!Reject(p)
    BY <1>1, <1>2, <1>3, <1>4, <2>1
    DEF Promise!Reject, Promise!Returns, AllWanted, AllReached, AllClaims, Claims
  <2>3. QED
    BY <2>2 DEF Promise!Next
<1>5. CASE result = "healthy" /\ ProblemShops(job[p]) = {}
  <2>1. Wanted(job[p]) = {}
    BY <1>5 DEF Wanted
  <2>2. Promise!FindHealthy(p)
    BY <1>1, <1>2, <1>3, <1>5, <2>1
    DEF Promise!FindHealthy, Promise!Returns, AllWanted, AllReached, AllClaims, Claims
  <2>3. QED
    BY <2>2 DEF Promise!Next
<1>6. CASE result = "cancelled"
  <2>1. Promise!Cancel(p)
    BY <1>1, <1>2, <1>3, <1>6
    DEF Promise!Cancel, Promise!Returns, AllWanted, AllReached, AllClaims, Claims
  <2>2. QED
    BY <2>1 DEF Promise!Next
<1>7. QED
  BY <1>4, <1>5, <1>6

(* The lookup may end in an error or in good health. *)
LEMMA LookupPromised ==
  ASSUME PromiseInd, NEW p \in Publishes, LookupEnds(p)
  PROVE  [Promise!Next]_(Promise!vars)
<1>1. PICK app : \/ EarlyReturn(job[p], app) # "none" /\ Return(p, EarlyReturn(job[p], app))
                 \/ UNCHANGED outcome
  BY DEF LookupEnds
<1>2. phase[p] = "lookup" /\ UNCHANGED <<job, copies, report>>
  BY DEF LookupEnds
<1>3. CASE EarlyReturn(job[p], app) # "none" /\ Return(p, EarlyReturn(job[p], app))
  <2>1. \/ EarlyReturn(job[p], app) = "error"
        \/ EarlyReturn(job[p], app) = "healthy" /\ ProblemShops(job[p]) = {}
    BY <1>3 DEF EarlyReturn
  <2>2. QED
    BY <1>2, <1>3, <2>1, ReturnsEarly DEF Return, Waiting
<1>4. CASE UNCHANGED outcome
  BY <1>2, <1>4, PromiseStutters
<1>5. QED
  BY <1>1, <1>3, <1>4

(* A card that is under way when its publish goes on, or is cancelled. *)
LEMMA Tells ==
  ASSUME PromiseInd, NEW p \in Publishes, phase[p] = "sending", UNCHANGED job,
         NEW accepted \in BOOLEAN, Attempt(p, accepted),
         \A q \in Publishes : q # p => report'[q] = report[q],
         \/ UNCHANGED outcome
         \/ outcome' = [outcome EXCEPT ![p] = "cancelled"]
  PROVE  [Promise!Next]_(Promise!vars)
<1>1. outcome[p] = "none" /\ DOMAIN outcome = Publishes
  BY DEF PromiseInd, Unreturned, ReportInd, SendTypes
<1>2. AllWanted' = AllWanted
  BY DEF AllWanted
<1>3. AllClaims' = AllClaims
  <2>1. outcome'[p] # "cards" /\ \A q \in Publishes : q # p => outcome'[q] = outcome[q]
    BY <1>1
  <2>2. QED
    BY <2>1, NothingClaimed
<1>4. /\ CardOf(p) \in Wanted(job[p])
      /\ AllReached' = IF accepted THEN [AllReached EXCEPT ![p] = @ \cup {CardOf(p)}]
                                   ELSE AllReached
  BY CardReaches
<1>5. \/ \E r \in AllWanted[p] : AllReached' = [AllReached EXCEPT ![p] = @ \cup {r}]
      \/ AllReached' = AllReached
  BY <1>4 DEF AllWanted
<1>6. CASE UNCHANGED outcome
  <2>1. Promise!Tell(p) \/ UNCHANGED Promise!vars
    BY <1>1, <1>2, <1>3, <1>5, <1>6
    DEF Promise!Tell, Promise!Tells, Promise!vars, AllWanted, AllReached, AllClaims, Claims
  <2>2. QED
    BY <2>1 DEF Promise!Next
<1>7. CASE outcome' = [outcome EXCEPT ![p] = "cancelled"]
  <2>1. Promise!Cancel(p)
    BY <1>1, <1>2, <1>3, <1>5, <1>7
    DEF Promise!Cancel, Promise!Returns, Promise!Tells, AllWanted, AllReached, AllClaims, Claims
  <2>2. QED
    BY <2>1 DEF Promise!Next
<1>8. QED
  BY <1>6, <1>7

(* The last card is dealt with: the report names everyone who was to be    *)
(* told, and an id only who was.                                           *)
LEMMA Reports ==
  ASSUME PromiseInd, PromiseInd', NEW p \in Publishes, phase[p] = "sending", UNCHANGED job,
         NEW accepted \in BOOLEAN, Attempt(p, accepted),
         \A q \in Publishes : q # p => report'[q] = report[q],
         outcome' = [outcome EXCEPT ![p] = "cards"]
  PROVE  Promise!Next
<1> DEFINE entries(r) == {report'[p][i] : i \in {i \in Cards(job[p]) : Plan(job[p])[i] = r}}
<1>1. outcome[p] = "none" /\ DOMAIN outcome = Publishes
  BY DEF PromiseInd, Unreturned, ReportInd, SendTypes
<1>2. AllWanted' = AllWanted
  BY DEF AllWanted
<1>3. /\ CardOf(p) \in Wanted(job[p])
      /\ AllReached' = IF accepted THEN [AllReached EXCEPT ![p] = @ \cup {CardOf(p)}]
                                   ELSE AllReached
  BY CardReaches
<1>4. \/ \E r \in AllWanted[p] : AllReached' = [AllReached EXCEPT ![p] = @ \cup {r}]
      \/ AllReached' = AllReached
  BY <1>3 DEF AllWanted
<1>5. outcome'[p] = "cards" /\ \A q \in Publishes : q # p => outcome'[q] = outcome[q]
  BY <1>1
<1>6. job[p] \in Jobs /\ job'[p] = job[p]
  BY DEF PromiseInd, ReportInd, CacheInd, CacheTypes
<1>7. \A i \in Cards(job[p]) : Told(job[p], attempts'[p], copies'[p], report'[p], i)
  BY <1>5, <1>6 DEF PromiseInd, ReportInd, SendInd, PublishOK
<1>8. DOMAIN copies'[p] = Cards(job[p])
  BY <1>6 DEF PromiseInd, ReportInd, SendInd, PublishOK, PublishTypes
<1>9. ASSUME NEW r \in Wanted(job[p])
      PROVE  /\ Claim(p, r)' \in {"id", "error"}
             /\ Claim(p, r)' = "id" => r \in Reached(p)'
  <2>1. \E i \in Cards(job[p]) : Plan(job[p])[i] = r
    BY <1>6, PlanComplete
  <2>2. entries(r) # {}
    BY <2>1
  <2>3. Claim(p, r)' = CHOOSE entry \in entries(r) : TRUE
    BY <1>5, <1>6, <2>2, ClaimIsFrom DEF ClaimFrom, Cards
  <2>4. Claim(p, r)' \in entries(r)
    BY <2>2, <2>3
  <2>5. PICK i \in Cards(job[p]) : Plan(job[p])[i] = r /\ Claim(p, r)' = report'[p][i]
    BY <2>4
  <2>6. \/ report'[p][i] = "id" /\ \E k \in Same(job[p], i) : copies'[p][k] > 0
        \/ report'[p][i] = "error"
    BY <1>7, <2>5 DEF Told
  <2>7. \A k \in Same(job[p], i) : copies'[p][k] > 0 => r \in Reached(p)'
    BY <1>6, <1>8, <2>5 DEF Same, Reached
  <2>8. QED
    BY <2>5, <2>6, <2>7
<1>10. AllClaims' = [AllClaims EXCEPT ![p] = [r \in Wanted(job[p]) |-> Claim(p, r)']]
  <2>1. \A q \in Publishes : q # p => Claims(q)' = Claims(q)
    <3>1. ASSUME NEW q \in Publishes, q # p PROVE \A r : Claim(q, r)' = Claim(q, r)
      BY <1>5, <3>1, ClaimIsFrom
    <3>2. QED
      BY <3>1 DEF Claims
  <2>2. Claims(p)' = [r \in Wanted(job[p]) |-> Claim(p, r)']
    BY <1>6 DEF Claims
  <2>3. QED
    BY <2>1, <2>2 DEF AllClaims
<1>11. \E said \in [Wanted(job[p]) -> {"id", "error"}] :
         /\ \A r \in Wanted(job[p]) : said[r] = "id" => r \in AllReached'[p]
         /\ AllClaims' = [AllClaims EXCEPT ![p] = said]
  <2>1. AllReached'[p] = Reached(p)'
    BY DEF AllReached
  <2>2. QED
    BY <1>9, <1>10, <2>1
<1>12. Promise!Report(p)
  BY <1>1, <1>2, <1>4, <1>11
  DEF Promise!Report, Promise!Returns, Promise!Tells, AllWanted, AllReached, AllClaims, Claims
<1>13. QED
  BY <1>12 DEF Promise!Next

LEMMA CardPromised ==
  ASSUME PromiseInd, PromiseInd', NEW p \in Publishes, phase[p] = "sending", UNCHANGED job,
         NEW accepted \in BOOLEAN, Attempt(p, accepted),
         NEW what, report' = Reported(p, what), NextCard(p)
  PROVE  [Promise!Next]_(Promise!vars)
<1>1. \A q \in Publishes : q # p => report'[q] = report[q]
  BY DEF Reported, PromiseInd, ReportInd, SendTypes
<1>2. UNCHANGED outcome \/ outcome' = [outcome EXCEPT ![p] = "cards"]
  BY DEF NextCard, Return
<1>3. QED
  BY <1>1, <1>2, Tells, Reports

LEMMA StepPromise == PromiseInd /\ PromiseInd' /\ [Next]_vars => [Promise!Next]_(Promise!vars)
<1> SUFFICES ASSUME PromiseInd, PromiseInd', [Next]_vars PROVE [Promise!Next]_(Promise!vars)
  OBVIOUS
<1>1. ASSUME NEW p \in Publishes, TokenFails(p) PROVE [Promise!Next]_(Promise!vars)
  BY <1>1, ReturnsEarly DEF TokenFails, Return, Waiting
<1>2. ASSUME NEW p \in Publishes, CardSent(p) PROVE [Promise!Next]_(Promise!vars)
  BY <1>2, CardPromised DEF CardSent
<1>3. ASSUME NEW p \in Publishes, CardFails(p) PROVE [Promise!Next]_(Promise!vars)
  <2>1. phase[p] = "sending" /\ UNCHANGED job
    BY <1>3 DEF CardFails
  <2>2. PICK accepted \in BOOLEAN : Attempt(p, accepted)
    BY <1>3 DEF CardFails
  <2>3. \/ UNCHANGED <<report, outcome>>
        \/ report' = Reported(p, "error") /\ NextCard(p)
    BY <1>3 DEF CardFails
  <2>4. QED
    BY <2>1, <2>2, <2>3, Tells, CardPromised
<1>4. ASSUME NEW p \in Publishes, Cancel(p) PROVE [Promise!Next]_(Promise!vars)
  <2>1. /\ phase[p] \in Waiting /\ UNCHANGED <<job, report>>
        /\ outcome' = [outcome EXCEPT ![p] = "cancelled"]
        /\ \/ UNCHANGED copies
           \/ phase[p] = "sending" /\ Attempt(p, TRUE)
    BY <1>4 DEF Cancel, Return
  <2>2. QED
    BY <2>1, ReturnsEarly, Tells
<1>5. ASSUME NEW p \in Publishes, Start(p) \/ FeishuIssues(p) \/ TokenArrives(p) \/ WakeUp(p)
      PROVE  [Promise!Next]_(Promise!vars)
  BY <1>5, PromiseStutters DEF Start, FeishuIssues, TokenArrives, WakeUp
<1>6. ASSUME UNCHANGED <<job, copies, report, outcome>> PROVE [Promise!Next]_(Promise!vars)
  BY <1>6, PromiseStutters
<1>7. QED
  BY <1>1, <1>2, <1>3, <1>4, <1>5, <1>6, LookupPromised DEF Next, Publish, Tick, Idle, vars

(* However many shops, targets and attempts there are, and whatever is     *)
(* refused, lost or cancelled: who is told was to be told, an error means  *)
(* that nobody was, and a report leaves nobody out.                        *)
THEOREM PromiseKept == Spec => KeepsPromise
  BY InitPromise, StepPromise, PromiseInductive, PTL DEF Spec, KeepsPromise, Promise!Spec

=============================================================================
