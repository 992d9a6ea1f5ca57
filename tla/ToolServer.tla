----------------------------- MODULE ToolServer -----------------------------
(***************************************************************************)
(* The MCP tool server: the call_tool handler of server.py with its        *)
(* semaphore and its audit record, and the child processes execute() runs  *)
(* for it.  The server is one asyncio event loop, so a handler is atomic   *)
(* between two awaits: an action below goes from one await to the next,    *)
(* and its last step (result or exception, audit record, semaphore         *)
(* release, answer) is one action because no await lies in between.        *)
(*                                                                         *)
(* Left out: what SQL and Feishu answer (one await stands for each         *)
(* session), the redaction of results, and the calls the MCP library       *)
(* rejects by itself before the handler runs.                              *)
(***************************************************************************)
EXTENDS Integers, Sequences, FiniteSets

CONSTANTS Calls,          \* the tools/call requests of a session
          MaxConcurrent,  \* server.py MAX_CONCURRENT_CALLS
          Requests,       \* the requests clients may make
          AuditCanFail    \* may writing an audit record raise (disk full)?

Identity == {"absent", "safe", "unsafe"}  \* of a tenant or shop_id argument

DbTools == {"ops_db_schema", "ops_sql_readonly"}
ChildTools == {"ops_env_check", "ops_probe_connections"}

(* args says whether the argument validation of _execute_tool passes.      *)
Request ==
  LET Req(tools, args, tenants, shops) ==
        [tool : tools, args : args, tenant : tenants, shop : shops]
      Any == {"valid", "invalid"}
  IN  Req({"ops_env_check"}, {"valid"}, {"absent"}, {"absent"})
        \cup Req(DbTools \cup {"unknown"}, Any, {"absent"}, {"absent"})
        \cup Req({"ops_probe_connections"}, Any, Identity, Identity)
        \cup Req({"ops_notification_publish"}, Any, {"safe", "unsafe"}, {"absent"})

ASSUME ServerAssumption ==
  /\ IsFiniteSet(Calls)
  /\ MaxConcurrent \in Nat \ {0}
  /\ Requests \subseteq Request
  /\ AuditCanFail \in BOOLEAN

VARIABLES
  request,  \* the request each call carries
  phase,    \* the await each call is suspended at
  child,    \* the stonx process of a call
  permits,  \* asyncio.Semaphore._value
  audit,    \* the audit log, oldest record first
  reply,    \* what the client got
  dbUrl     \* was a readonly database URL resolved at startup?

vars == <<request, phase, child, permits, audit, reply, dbUrl>>

(* starting: create_subprocess_exec   running: proc.communicate            *)
(* reaping: proc.wait after the kill  querying: a readonly SQL session     *)
(* lookup: the credentials of a publish   sending: token and card requests *)
Waiting == {"starting", "running", "reaping", "querying", "lookup", "sending"}
Phases == Waiting \cup {"new", "settled"}
HandlerAnswers == {"result", "invalid_params", "execution_failed"}
Replies == HandlerAnswers \cup {"none", "busy", "sdk_error", "cancelled"}

Record == [call : Calls, status : {"success", "execution_failed"}]
InFlight == {c \in Calls : phase[c] \in Waiting}

-----------------------------------------------------------------------------
(* The whitelist and the dispatch. *)

(* A shop without a tenant is not looked at, not even to validate it. *)
SafeArgs(r) == r.tenant # "absent" => r.tenant = "safe" /\ r.shop # "unsafe"

(* The ValueErrors raised before the handler first waits. *)
Rejected(r) ==
  \/ r.tool = "unknown"
  \/ r.args = "invalid"
  \/ r.tool \in DbTools /\ ~dbUrl
  \/ r.tool = "ops_probe_connections" /\ ~SafeArgs(r)

(* Where an accepted call waits first.  A publish that loads its           *)
(* credentials from the environment may also end without waiting.          *)
FirstAwait(r) ==
  CASE r.tool \in ChildTools -> "starting"
    [] r.tool \in DbTools    -> "querying"
    [] OTHER                 -> IF dbUrl /\ r.tenant = "safe" THEN "lookup" ELSE "sending"

EndsAtOnce(r) == r.tool = "ops_notification_publish" /\ FirstAwait(r) = "sending"

-----------------------------------------------------------------------------
(* The finally block of call_tool, and what the client then gets.  The     *)
(* status starts as success and only an except clause changes it;          *)
(* CancelledError is not an Exception.  An error raised by log(), before   *)
(* or after the record reached the file, replaces the answer.              *)
Status(answer) ==
  IF answer \in {"result", "cancelled"} THEN "success" ELSE "execution_failed"

(* Mutant of Conclude: an error while writing the record is swallowed. *)
ConcludeUnlogged(c, answer) ==
  LET logged == Append(audit, [call |-> c, status |-> Status(answer)]) IN
  /\ phase' = [phase EXCEPT ![c] = "settled"]
  /\ audit' = logged \/ (AuditCanFail /\ audit' = audit)
  /\ reply' = [reply EXCEPT ![c] = answer]
  /\ UNCHANGED <<request, dbUrl>>

Conclude(c, answer) ==
  LET logged == Append(audit, [call |-> c, status |-> Status(answer)])
      raised == IF answer = "cancelled" THEN answer ELSE "sdk_error"
  IN
  /\ phase' = [phase EXCEPT ![c] = "settled"]
  /\ \/ audit' = logged /\ reply' = [reply EXCEPT ![c] = answer]
     \/ /\ AuditCanFail
        /\ audit' \in {audit, logged}
        /\ reply' = [reply EXCEPT ![c] = raised]
  /\ UNCHANGED <<request, dbUrl>>

(* Mutant of Settle: a release() beside the one of `async with`. *)
SettleTwice(c, answer) == Conclude(c, answer) /\ permits' = permits + 2

(* Conclude, leaving `async with semaphore`. *)
Settle(c, answer) == Conclude(c, answer) /\ permits' = permits + 1

(* env_check swallows every exception of execute(). *)
ChildFailure(r) == IF r.tool = "ops_env_check" THEN "result" ELSE "execution_failed"

(* What the output of an ended child leads to.  A probe's exit code is     *)
(* ignored, output that is no JSON raises JSONDecodeError, a ValueError,   *)
(* and output that is too large or no object another exception.            *)
ChildAnswers(r) == IF r.tool = "ops_env_check" THEN {"result"} ELSE HandlerAnswers

-----------------------------------------------------------------------------
Init ==
  /\ request \in [Calls -> Requests]
  /\ phase = [c \in Calls |-> "new"]
  /\ child = [c \in Calls |-> "none"]
  /\ permits = MaxConcurrent
  /\ audit = <<>>
  /\ reply = [c \in Calls |-> "none"]
  /\ dbUrl \in BOOLEAN

(* Mutant of Refuse: the last permit is never given out. *)
RefuseEarly(c) ==
  /\ phase[c] = "new"
  /\ permits <= 1
  /\ phase' = [phase EXCEPT ![c] = "settled"]
  /\ reply' = [reply EXCEPT ![c] = "busy"]
  /\ UNCHANGED <<request, child, permits, audit, dbUrl>>

(* semaphore.locked(): answered at once, outside the audited block. *)
Refuse(c) ==
  /\ phase[c] = "new"
  /\ permits = 0
  /\ phase' = [phase EXCEPT ![c] = "settled"]
  /\ reply' = [reply EXCEPT ![c] = "busy"]
  /\ UNCHANGED <<request, child, permits, audit, dbUrl>>

(* Mutant of Admit: the call is recorded when it is admitted. *)
AdmitRecords(c) ==
  /\ phase[c] = "new"
  /\ permits > 0
  /\ ~Rejected(request[c])
  /\ permits' = permits - 1
  /\ phase' = [phase EXCEPT ![c] = FirstAwait(request[c])]
  /\ audit' = Append(audit, [call |-> c, status |-> "success"])
  /\ UNCHANGED <<request, child, reply, dbUrl>>

(* No await lies between locked() and the acquisition. *)
Admit(c) ==
  /\ phase[c] = "new"
  /\ permits > 0
  /\ ~Rejected(request[c])
  /\ permits' = permits - 1
  /\ phase' = [phase EXCEPT ![c] = FirstAwait(request[c])]
  /\ UNCHANGED <<request, child, audit, reply, dbUrl>>

(* Acquired, concluded and released without an await. *)
HandleAtOnce(c) ==
  /\ phase[c] = "new"
  /\ permits > 0
  /\ \/ Rejected(request[c]) /\ Conclude(c, "invalid_params")
     \/ /\ ~Rejected(request[c])
        /\ EndsAtOnce(request[c])
        /\ \E answer \in {"result", "execution_failed"} : Conclude(c, answer)
  /\ UNCHANGED <<child, permits>>

ChildStarts(c) ==
  /\ phase[c] = "starting"
  /\ phase' = [phase EXCEPT ![c] = "running"]
  /\ child' = [child EXCEPT ![c] = "running"]
  /\ UNCHANGED <<request, permits, audit, reply, dbUrl>>

(* Mutant of StartFails: the permit is not given back. *)
StartFailsLeaky(c) ==
  /\ phase[c] = "starting"
  /\ Conclude(c, ChildFailure(request[c]))
  /\ UNCHANGED <<child, permits>>

(* OSError, or the first timeout: proc is still None. *)
StartFails(c) ==
  /\ phase[c] = "starting"
  /\ Settle(c, ChildFailure(request[c]))
  /\ UNCHANGED child

ChildExits(c) ==
  /\ phase[c] = "running"
  /\ child' = [child EXCEPT ![c] = "reaped"]
  /\ \E answer \in ChildAnswers(request[c]) : Settle(c, answer)

(* Mutants of TimerFires: the child is left to itself; it is waited for    *)
(* but not killed.                                                         *)
TimerGivesUp(c) ==
  /\ phase[c] = "running"
  /\ Settle(c, ChildFailure(request[c]))
  /\ UNCHANGED child

TimerSparesChild(c) ==
  /\ phase[c] = "running"
  /\ phase' = [phase EXCEPT ![c] = "reaping"]
  /\ UNCHANGED <<request, child, permits, audit, reply, dbUrl>>

(* The second timeout: kill, then wait for the child to be reaped. *)
TimerFires(c) ==
  /\ phase[c] = "running"
  /\ phase' = [phase EXCEPT ![c] = "reaping"]
  /\ child' = [child EXCEPT ![c] = "killed"]
  /\ UNCHANGED <<request, permits, audit, reply, dbUrl>>

ChildReaped(c) ==
  /\ phase[c] = "reaping"
  /\ child[c] = "killed"
  /\ child' = [child EXCEPT ![c] = "reaped"]
  /\ Settle(c, ChildFailure(request[c]))

(* Mutant of QueryEnds: a query that failed is begun again, as a new call. *)
QueryRetried(c) ==
  /\ phase[c] = "querying"
  /\ \/ \E answer \in HandlerAnswers : Settle(c, answer)
     \/ /\ phase' = [phase EXCEPT ![c] = "new"]
        /\ permits' = permits + 1
        /\ UNCHANGED <<request, audit, reply, dbUrl>>
  /\ UNCHANGED child

(* Every await of a SQL session that can block is under _with_timeout,     *)
(* which converts TimeoutError alone: any ValueError, of a table that is   *)
(* not visible or of a value that cannot be loaded, is an error of the     *)
(* arguments to the handler.                                               *)
QueryEnds(c) ==
  /\ phase[c] = "querying"
  /\ \E answer \in HandlerAnswers : Settle(c, answer)
  /\ UNCHANGED child

(* _load_credentials swallows its errors; run may then return at once. *)
LookupEnds(c) ==
  /\ phase[c] = "lookup"
  /\ \/ \E answer \in {"result", "execution_failed"} : Settle(c, answer)
     \/ /\ phase' = [phase EXCEPT ![c] = "sending"]
        /\ UNCHANGED <<request, permits, audit, reply, dbUrl>>
  /\ UNCHANGED child

(* The errors of sending a card are part of the result. *)
PublishEnds(c) ==
  /\ phase[c] = "sending"
  /\ \E answer \in {"result", "execution_failed"} : Settle(c, answer)
  /\ UNCHANGED child

(* The client cancels the request: CancelledError at whatever await the    *)
(* handler is suspended at.  execute() catches TimeoutError and OSError    *)
(* only, so a child that runs is left to itself.                           *)
Cancel(c) ==
  /\ phase[c] \in Waiting
  /\ Settle(c, "cancelled")
  /\ UNCHANGED child

(* A child no handler waits for ends by itself; the event loop reaps it. *)
OrphanEnds(c) ==
  /\ phase[c] = "settled"
  /\ child[c] \in {"running", "killed"}
  /\ child' = [child EXCEPT ![c] = "reaped"]
  /\ UNCHANGED <<request, phase, permits, audit, reply, dbUrl>>

(* The session is idle: every request has been dealt with. *)
Idle ==
  /\ \A c \in Calls : phase[c] = "settled" /\ child[c] \in {"none", "reaped"}
  /\ UNCHANGED vars

Handler(c) ==
  \/ Refuse(c) \/ Admit(c) \/ HandleAtOnce(c)
  \/ ChildStarts(c) \/ StartFails(c) \/ ChildExits(c) \/ TimerFires(c) \/ ChildReaped(c)
  \/ QueryEnds(c) \/ LookupEnds(c) \/ PublishEnds(c)
  \/ Cancel(c) \/ OrphanEnds(c)

Next == Idle \/ \E c \in Calls : Handler(c)

Spec == Init /\ [][Next]_vars

(* What the code's own timers and the event loop guarantee: nothing makes  *)
(* a child exit by itself, a client cancel, or the credentials lookup end. *)
(* That a query ends leans on psycopg too: the timer of _with_timeout      *)
(* cancels the await, and psycopg then asks PostgreSQL to cancel the       *)
(* statement and awaits its end without a timer.                           *)
Fairness ==
  \A c \in Calls :
    /\ WF_vars(ChildStarts(c) \/ StartFails(c))
    /\ WF_vars(TimerFires(c))
    /\ WF_vars(ChildReaped(c))
    /\ WF_vars(QueryEnds(c))
    /\ WF_vars(PublishEnds(c))

FairSpec == Spec /\ Fairness
-----------------------------------------------------------------------------
(* Safety. *)

(* Every variable holds a value the code can give it. *)
TypeOK ==
  /\ request \in [Calls -> Requests]
  /\ phase \in [Calls -> Phases]
  /\ child \in [Calls -> {"none", "running", "killed", "reaped"}]
  /\ permits \in 0 .. MaxConcurrent
  /\ audit \in Seq(Record)
  /\ reply \in [Calls -> Replies]
  /\ dbUrl \in BOOLEAN

(* The semaphore counts exactly the calls in flight on every path through  *)
(* the handler (early error, timeout, cancellation, failing audit write):  *)
(* a path that leaked a permit would, three calls later, leave a server    *)
(* that answers too_many_requests for ever.                                *)
PermitAccounting == permits = MaxConcurrent - Cardinality(InFlight)

(* A call is settled exactly when its client has an answer, and only a     *)
(* settled call has an audit record: no path through the handler ends      *)
(* silently, and no call is recorded before its outcome is known.          *)
SettledMeansReplied ==
  /\ \A c \in Calls : phase[c] = "settled" <=> reply[c] # "none"
  /\ \A i \in DOMAIN audit : phase[audit[i].call] = "settled"

(* Whoever receives the answer of a handler finds exactly one record of    *)
(* the call in the audit log, with the status of that answer: when the     *)
(* record cannot be written the client gets an error in place of the       *)
(* answer (server.py, the finally block of call_tool).                     *)
AnswersAreAudited ==
  /\ \A c \in Calls : reply[c] \in HandlerAnswers =>
       \E i \in DOMAIN audit : audit[i] = [call |-> c, status |-> Status(reply[c])]
  /\ \A i, j \in DOMAIN audit : audit[i].call = audit[j].call => i = j

(* A stonx process that still exists is waited for by its call, which has  *)
(* a timer to kill it with, or its call was cancelled (executor.py, the    *)
(* handling of TimeoutError).                                              *)
ChildrenSupervised ==
  \A c \in Calls :
    /\ child[c] = "running" => phase[c] = "running" \/ reply[c] = "cancelled"
    /\ child[c] = "killed"  => phase[c] = "reaping" \/ reply[c] = "cancelled"

(* At most MaxConcurrent stonx processes exist beside those a cancellation *)
(* left behind.                                                            *)
ChildrenBounded ==
  Cardinality({c \in Calls : child[c] \in {"running", "killed"} /\ reply[c] # "cancelled"})
    <= MaxConcurrent

(* The server implements the pool of calls. *)
Pool == INSTANCE CallPool WITH
  inFlight <- InFlight,
  refused  <- {c \in Calls : reply[c] = "busy"},
  answered <- {c \in Calls : reply[c] \in HandlerAnswers},
  failed   <- {c \in Calls : reply[c] \in {"sdk_error", "cancelled"}},
  ledger   <- {audit[i].call : i \in DOMAIN audit}

(* The handler keeps every promise of CallPool: the bound on calls in      *)
(* flight, refusal only when the pool is full, one settlement per call,    *)
(* no answer without its record in the ledger.                             *)
ImplementsPool == Pool!Spec

(* What a call is to the readonly database: one that never gets there      *)
(* stays idle, and of one whose record could not be written the client     *)
(* does not learn how the query ended.                                     *)
Queries == {c \in Calls : request[c].tool \in DbTools /\ ~Rejected(request[c]) /\ reply[c] # "busy"}

QueryState ==
  [c \in Calls |->
     IF c \notin Queries \/ phase[c] = "new" THEN "idle"
     ELSE IF phase[c] = "querying" THEN "querying"
     ELSE IF reply[c] = "sdk_error" THEN "execution_failed" ELSE reply[c]]

QueryTool ==
  [c \in Calls |->
     IF request[c].tool = "ops_db_schema" THEN "ops_db_schema" ELSE "ops_sql_readonly"]

Query == INSTANCE QueryWait WITH tool <- QueryTool, state <- QueryState

(* The server counts on no more than a query gives it (ReadonlySession     *)
(* implements the same QueryWait): it waits for a query once, whatever     *)
(* else it handles, takes its answer as it is, and never begins it again,  *)
(* not after a failure, a timeout or a cancellation either, so that the    *)
(* SQL of a call runs at most once.                                        *)
CountsOnQueryWait == Query!Spec

-----------------------------------------------------------------------------
(* Liveness, of FairSpec. *)

(* Every admitted call settles, children that hang included, unless it is  *)
(* a publish waiting for its credentials.                                  *)
AdmittedSettle ==
  \A c \in Calls : phase[c] \in Waiting ~> phase[c] \in {"settled", "lookup"}

(* A full pool gets a permit back, unless publishes waiting for their      *)
(* credentials hold them all.                                              *)
PermitsReturn ==
  permits = 0 ~>
    \/ permits > 0
    \/ Cardinality({c \in Calls : phase[c] = "lookup"}) = MaxConcurrent

-----------------------------------------------------------------------------
(* What the repository says and the code does not do. *)

(* executor.py: a hung process is killed, so a process that runs has a     *)
(* handler with a timer.                                                   *)
NoUnsupervisedChild == \A c \in Calls : child[c] = "running" => phase[c] = "running"
=============================================================================
