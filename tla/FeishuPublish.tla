--------------------------- MODULE FeishuPublish ---------------------------
(***************************************************************************)
(* Publishing connection alerts through Feishu: run() of                   *)
(* notification_publish.py, called concurrently in one process and sharing *)
(* the module's token cache.  As in ToolServer an action goes from one     *)
(* await to the next.                                                      *)
(*                                                                         *)
(* Feishu (external) hands out tokens and accepts cards; its answers may   *)
(* get lost.  A token is named after its app and the time it was handed    *)
(* out: the code ignores the lifetime Feishu answers with and counts on a  *)
(* token being good for TTL from then on.                                  *)
(***************************************************************************)
EXTENDS Naturals, Sequences, FiniteSets

CONSTANTS
  Publishes,    \* calls of run()
  Apps,         \* Feishu apps, by app_id
  NoApp,        \* credentials without app_id or app_secret
  EnvApp,       \* the app of the environment variables, or NoApp
  Shops, Targets,
  Jobs,         \* what may be asked of a publish
  TTL,          \* how long a cached token is used: 3600 s
  RequestTime,  \* how long a token request may take
  Attempts,     \* attempts per card: 3
  Horizon       \* bound on the clock

(* A connection as the triage sees it: whether it is one of the four data  *)
(* sources, and whether _is_unconfigured, ok or anything else.             *)
Connection == [source : BOOLEAN, state : {"ok", "problem", "unconfigured"}, shop : Shops]

(* row: the app of the tenant in ops.feishu_connections, or NoApp *)
Job == [row : Apps \cup {NoApp}, targets : Seq(Targets), connections : SUBSET Connection]

ASSUME PublishAssumption ==
  /\ NoApp \notin Apps
  /\ EnvApp \in Apps \cup {NoApp}
  /\ IsFiniteSet(Shops) /\ Jobs \subseteq Job
  /\ TTL \in Nat /\ RequestTime \in Nat /\ RequestTime < TTL
  /\ Attempts \in Nat \ {0}
  /\ Horizon \in Nat

VARIABLES
  now,       \* the clock
  cache,     \* _token_cache
  job,       \* the arguments of each publish
  phase,     \* the await each publish is suspended at
  creds,     \* the app it publishes with
  asked,     \* now_ts, read before the token request
  token,     \* the token it holds
  pos,       \* the card it is sending
  attempts,  \* attempts made per card
  copies,    \* copies of each card Feishu accepted
  report,    \* delivered: what the publish says of each recipient
  outcome    \* what run() returned, "cancelled" if an exception left it

vars == <<now, cache, job, phase, creds, asked, token, pos, attempts, copies, report, outcome>>

Token == [app : Apps, at : 0 .. Horizon]
NoToken == [app |-> NoApp, at |-> 0]
NoEntry == [token |-> NoToken, ts |-> 0]
Entry == [token : Token, ts : 0 .. Horizon]

(* asking: the request is on its way   answered: so is Feishu's token *)
Waiting == {"lookup", "asking", "answered", "sending", "backoff"}

-----------------------------------------------------------------------------
(* Triage. *)
Active(j) == {k \in j.connections : k.source /\ k.state # "unconfigured"}
ProblemShops(j) == {k.shop : k \in {k \in Active(j) : k.state # "ok"}}

(* What run() returns without asking for a token, "none" if it asks. *)
EarlyReturn(j, app) ==
  IF app = NoApp \/ j.targets = <<>> \/ Active(j) = {} THEN "error"
  ELSE IF ProblemShops(j) = {} THEN "healthy"
  ELSE "none"

(* Mutant of Plan: shops and targets are walked side by side. *)
PlanPaired(j) ==
  LET n == Cardinality(ProblemShops(j))
      k == Len(j.targets)
      shops == CHOOSE s \in [1 .. n -> ProblemShops(j)] : \A a, b \in 1 .. n : s[a] = s[b] => a = b
  IN  [i \in 1 .. IF n <= k THEN n ELSE k |-> [shop |-> shops[i], target |-> j.targets[i]]]

(* One card for every problem shop and every target, shop by shop. *)
Plan(j) ==
  LET n == Cardinality(ProblemShops(j))
      k == Len(j.targets)
      shops == CHOOSE s \in [1 .. n -> ProblemShops(j)] : \A a, b \in 1 .. n : s[a] = s[b] => a = b
  IN  [i \in 1 .. n * k |->
         [shop |-> shops[((i - 1) \div k) + 1], target |-> j.targets[((i - 1) % k) + 1]]]

-----------------------------------------------------------------------------
(* The token cache. *)

(* Mutant of Fresh: an entry as old as TTL is used. *)
FreshInclusive(entry) == entry # NoEntry /\ now - entry.ts <= TTL

Fresh(entry) == entry # NoEntry /\ now - entry.ts < TTL

(* Mutant of Usable: the cache is not keyed by the app. *)
UsableOfAny(app) == {e \in {cache[a] : a \in Apps} : Fresh(e)}

(* The entries that spare app a request: its own, while fresh. *)
Usable(app) == {e \in {cache[app]} : Fresh(e)}

Init ==
  /\ now = 0
  /\ cache = [a \in Apps |-> NoEntry]
  /\ job \in [Publishes -> Jobs]
  /\ phase = [p \in Publishes |-> "new"]
  /\ creds = [p \in Publishes |-> NoApp]
  /\ asked = [p \in Publishes |-> 0]
  /\ token = [p \in Publishes |-> NoToken]
  /\ pos = [p \in Publishes |-> 1]
  /\ attempts = [p \in Publishes |-> [i \in DOMAIN Plan(job[p]) |-> 0]]
  /\ copies = attempts
  /\ report = [p \in Publishes |-> [i \in DOMAIN Plan(job[p]) |-> "none"]]
  /\ outcome = [p \in Publishes |-> "none"]

Start(p) ==
  /\ phase[p] = "new"
  /\ phase' = [phase EXCEPT ![p] = "lookup"]
  /\ UNCHANGED <<now, cache, job, creds, asked, token, pos, attempts, copies, report, outcome>>

Return(p, result) ==
  /\ phase' = [phase EXCEPT ![p] = "done"]
  /\ outcome' = [outcome EXCEPT ![p] = result]

(* The lookup ends with the row of the tenant, or with the environment if  *)
(* there is none or the query failed.  Up to the next await the publish    *)
(* triages the connections and looks into the cache.                       *)
LookupEnds(p) ==
  /\ phase[p] = "lookup"
  /\ \E app \in {EnvApp} \cup {job[p].row} :
       /\ app = NoApp => EnvApp = NoApp
       /\ creds' = [creds EXCEPT ![p] = app]
       /\ \/ /\ EarlyReturn(job[p], app) # "none"
             /\ Return(p, EarlyReturn(job[p], app))
             /\ UNCHANGED <<asked, token>>
          \/ /\ EarlyReturn(job[p], app) = "none"
             /\ \E entry \in Usable(app) : token' = [token EXCEPT ![p] = entry.token]
             /\ phase' = [phase EXCEPT ![p] = "sending"]
             /\ UNCHANGED <<asked, outcome>>
          \/ /\ EarlyReturn(job[p], app) = "none"
             /\ Usable(app) = {}
             /\ asked' = [asked EXCEPT ![p] = now]
             /\ phase' = [phase EXCEPT ![p] = "asking"]
             /\ UNCHANGED <<token, outcome>>
  /\ UNCHANGED <<now, cache, job, pos, attempts, copies, report>>

(* Feishu answers the request with a token. *)
FeishuIssues(p) ==
  /\ phase[p] = "asking"
  /\ phase' = [phase EXCEPT ![p] = "answered"]
  /\ token' = [token EXCEPT ![p] = [app |-> creds[p], at |-> now]]
  /\ UNCHANGED <<now, cache, job, creds, asked, pos, attempts, copies, report, outcome>>

(* Mutant of TokenArrives: the entry is dated when the answer arrives. *)
TokenArrivesDated(p) ==
  /\ phase[p] = "answered"
  /\ cache' = [cache EXCEPT ![creds[p]] = [token |-> token[p], ts |-> now]]
  /\ phase' = [phase EXCEPT ![p] = "sending"]
  /\ UNCHANGED <<now, job, creds, asked, token, pos, attempts, copies, report, outcome>>

(* Whichever of two concurrent requests arrives last fills the cache. *)
TokenArrives(p) ==
  /\ phase[p] = "answered"
  /\ cache' = [cache EXCEPT ![creds[p]] = [token |-> token[p], ts |-> asked[p]]]
  /\ phase' = [phase EXCEPT ![p] = "sending"]
  /\ UNCHANGED <<now, job, creds, asked, token, pos, attempts, copies, report, outcome>>

(* Refused, timed out, or the answer is lost. *)
TokenFails(p) ==
  /\ phase[p] \in {"asking", "answered"}
  /\ Return(p, "error")
  /\ UNCHANGED <<now, cache, job, creds, asked, token, pos, attempts, copies, report>>

-----------------------------------------------------------------------------
(* Sending. *)

(* The card is dealt with; run() returns after the last one. *)
NextCard(p) ==
  IF pos[p] = Len(Plan(job[p]))
  THEN Return(p, "cards") /\ UNCHANGED pos
  ELSE /\ pos' = [pos EXCEPT ![p] = @ + 1]
       /\ phase' = [phase EXCEPT ![p] = "sending"]
       /\ UNCHANGED outcome

(* delivered is keyed by recipient: a target listed twice has one entry. *)
Reported(p, what) ==
  LET plan == Plan(job[p]) IN
  [report EXCEPT ![p] = [i \in DOMAIN plan |-> IF plan[i] = plan[pos[p]] THEN what ELSE @[i]]]

(* An attempt that Feishu accepts, or not. *)
Attempt(p, accepted) ==
  /\ attempts' = [attempts EXCEPT ![p][pos[p]] = @ + 1]
  /\ copies' = [copies EXCEPT ![p][pos[p]] = IF accepted THEN @ + 1 ELSE @]

(* Mutant of CardSent: the code in Feishu's answer is not looked at. *)
CardSentUnchecked(p) ==
  /\ phase[p] = "sending"
  /\ \E accepted \in BOOLEAN : Attempt(p, accepted)
  /\ report' = Reported(p, "id")
  /\ NextCard(p)
  /\ UNCHANGED <<now, cache, job, creds, asked, token>>

CardSent(p) ==
  /\ phase[p] = "sending"
  /\ Attempt(p, TRUE)
  /\ report' = Reported(p, "id")
  /\ NextCard(p)
  /\ UNCHANGED <<now, cache, job, creds, asked, token>>

(* Mutant of CardFails: attempts that are not counted. *)
CardFailsUncounted(p) ==
  /\ phase[p] = "sending"
  /\ phase' = [phase EXCEPT ![p] = "backoff"]
  /\ UNCHANGED <<now, cache, job, creds, asked, token, pos, attempts, copies, report, outcome>>

(* send_card raises: Feishu refused the card, or accepted it and the       *)
(* answer was lost.  After the last attempt the error is the report.       *)
CardFails(p) ==
  /\ phase[p] = "sending"
  /\ \E accepted \in BOOLEAN : Attempt(p, accepted)
  /\ \/ /\ attempts[p][pos[p]] + 1 < Attempts
        /\ phase' = [phase EXCEPT ![p] = "backoff"]
        /\ UNCHANGED <<pos, report, outcome>>
     \/ /\ attempts[p][pos[p]] + 1 = Attempts
        /\ report' = Reported(p, "error")
        /\ NextCard(p)
  /\ UNCHANGED <<now, cache, job, creds, asked, token>>

(* asyncio.sleep(1) between two attempts. *)
WakeUp(p) ==
  /\ phase[p] = "backoff"
  /\ phase' = [phase EXCEPT ![p] = "sending"]
  /\ UNCHANGED <<now, cache, job, creds, asked, token, pos, attempts, copies, report, outcome>>

(* An exception leaves run(): CancelledError, when the MCP client cancels  *)
(* the call (a card under way may still arrive), or one raised while the   *)
(* connections are triaged or the card of a next shop is made.             *)
Cancel(p) ==
  /\ phase[p] \in Waiting
  /\ Return(p, "cancelled")
  /\ \/ UNCHANGED <<attempts, copies>>
     \/ phase[p] = "sending" /\ Attempt(p, TRUE)
  /\ UNCHANGED <<now, cache, job, creds, asked, token, pos, report>>

(* Time passes, but no token request outlives its timeout. *)
Tick ==
  /\ now < Horizon
  /\ \A p \in Publishes : phase[p] \in {"asking", "answered"} => now < asked[p] + RequestTime
  /\ now' = now + 1
  /\ UNCHANGED <<cache, job, phase, creds, asked, token, pos, attempts, copies, report, outcome>>

Idle == (\A p \in Publishes : phase[p] = "done") /\ UNCHANGED vars

Publish(p) ==
  \/ Start(p) \/ LookupEnds(p)
  \/ FeishuIssues(p) \/ TokenArrives(p) \/ TokenFails(p)
  \/ CardSent(p) \/ CardFails(p) \/ WakeUp(p)
  \/ Cancel(p)

Next == Tick \/ Idle \/ \E p \in Publishes : Publish(p)

Spec == Init /\ [][Next]_vars

(* Requests time out and sleeps end; the credentials lookup need not. *)
Fairness ==
  \A p \in Publishes :
    /\ WF_vars(TokenArrives(p) \/ TokenFails(p))
    /\ WF_vars(CardSent(p) \/ CardFails(p))
    /\ WF_vars(WakeUp(p))

FairSpec == Spec /\ Fairness
-----------------------------------------------------------------------------
(* Every variable holds a value the code can give it; no card is tried     *)
(* more often than Attempts.                                               *)
TypeOK ==
  /\ now \in 0 .. Horizon
  /\ cache \in [Apps -> Entry \cup {NoEntry}]
  /\ job \in [Publishes -> Jobs]
  /\ phase \in [Publishes -> Waiting \cup {"new", "done"}]
  /\ creds \in [Publishes -> Apps \cup {NoApp}]
  /\ asked \in [Publishes -> 0 .. Horizon]
  /\ token \in [Publishes -> Token \cup {NoToken}]
  /\ outcome \in [Publishes -> {"none", "error", "healthy", "cards", "cancelled"}]
  /\ \A p \in Publishes : LET cards == DOMAIN Plan(job[p]) IN
       /\ attempts[p] \in [cards -> 0 .. Attempts]
       /\ copies[p] \in [cards -> 0 .. Attempts]
       /\ report[p] \in [cards -> {"none", "id", "error"}]
       /\ pos[p] \in cards \cup {1}

(* Concurrent publishes never mix up tokens: a publish sends with a token  *)
(* of its own app, whoever filled the cache (notification_publish.py: the  *)
(* cache is keyed by app_id for multi-tenant safety).                      *)
TokensAreOwn ==
  /\ \A p \in Publishes : phase[p] \in {"sending", "backoff"} => token[p].app = creds[p]
  /\ \A a \in Apps : cache[a] # NoEntry => cache[a].token.app = a

(* An entry never makes its token look younger than it is, in whatever     *)
(* order the requests that fill it are answered (now_ts is read before     *)
(* the request).                                                           *)
CacheNeverFlatters == \A a \in Apps : cache[a] # NoEntry => cache[a].ts <= cache[a].token.at

(* A publish that has got its token, from the cache or from Feishu. *)
BeginsToSend(p) == phase[p] \notin {"sending", "backoff"} /\ phase'[p] = "sending"

(* So a publish starts to send with a token handed out less than TTL ago,  *)
(* although the cache does not know when its tokens were handed out.       *)
TokensVouched ==
  [][\A p \in Publishes : BeginsToSend(p) => now - token'[p].at < TTL]_vars

(* What run() reports of a recipient it can stand for: a message id is a   *)
(* card that Feishu accepted, an error is Attempts attempts, and every     *)
(* problem shop and target has its entry (a target listed twice has one).  *)
ReportIsTrue ==
  \A p \in Publishes : outcome[p] = "cards" =>
    LET plan == Plan(job[p]) IN
    \A i \in DOMAIN plan : LET same == {k \in DOMAIN plan : plan[k] = plan[i]} IN
      \/ report[p][i] = "id" /\ \E k \in same : copies[p][k] > 0
      \/ report[p][i] = "error" /\ \E k \in same : attempts[p][k] = Attempts

(* To whom a publish is to tell of what. *)
Wanted(j) == [shop : ProblemShops(j), target : {j.targets[i] : i \in DOMAIN j.targets}]

(* Whom it has told. *)
Reached(p) == {Plan(job[p])[i] : i \in {i \in DOMAIN copies[p] : copies[p][i] > 0}}

(* What it reports of a recipient. *)
Claim(p, recipient) ==
  LET entries == {report[p][i] : i \in {i \in DOMAIN Plan(job[p]) : Plan(job[p])[i] = recipient}} IN
  IF outcome[p] # "cards" \/ entries = {} THEN "none" ELSE CHOOSE entry \in entries : TRUE

Promise == INSTANCE Notification WITH
  Recipients <- [shop : Shops, target : Targets],
  wanted     <- [p \in Publishes |-> Wanted(job[p])],
  told       <- [p \in Publishes |-> Reached(p)],
  claims     <- [p \in Publishes |-> [recipient \in Wanted(job[p]) |-> Claim(p, recipient)]]

(* However cards are refused, lost or accepted unheard, and wherever it is *)
(* cancelled, a publish keeps its promise: in particular one that returns  *)
(* an error has sent nothing, so it may be repeated, and no problem shop   *)
(* and target is missing from a report.                                    *)
KeepsPromise == Promise!Spec

(* Once it has its credentials a publish returns, whatever Feishu does. *)
PublishReturns ==
  \A p \in Publishes : phase[p] \in Waiting \ {"lookup"} ~> phase[p] = "done"
=============================================================================
