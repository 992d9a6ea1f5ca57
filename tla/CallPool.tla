------------------------------ MODULE CallPool ------------------------------
(***************************************************************************)
(* What the MCP server of stonex-ops promises about its tool calls, with   *)
(* nothing of how it keeps the promise: at most MaxConcurrent calls are    *)
(* in flight, a call is refused only when that many are, a call is settled *)
(* once, and whoever gets the answer of a handler finds the call in the    *)
(* audit ledger.  ToolServer implements this specification.                *)
(***************************************************************************)
EXTENDS Naturals, FiniteSets

CONSTANTS Calls,          \* the tools/call requests of a session
          MaxConcurrent   \* server.py MAX_CONCURRENT_CALLS

VARIABLES inFlight,       \* calls admitted and not settled
          refused,        \* calls answered too_many_requests
          answered,       \* calls settled with the answer of their handler
          failed,         \* calls settled without one
          ledger          \* calls the audit log holds a record of

vars == <<inFlight, refused, answered, failed, ledger>>

Fresh == Calls \ (inFlight \cup refused \cup answered \cup failed)

Init == inFlight = {} /\ refused = {} /\ answered = {} /\ failed = {} /\ ledger = {}

Admit(c) ==
  /\ c \in Fresh
  /\ Cardinality(inFlight) < MaxConcurrent
  /\ inFlight' = inFlight \cup {c}
  /\ UNCHANGED <<refused, answered, failed, ledger>>

Refuse(c) ==
  /\ c \in Fresh
  /\ Cardinality(inFlight) = MaxConcurrent
  /\ refused' = refused \cup {c}
  /\ UNCHANGED <<inFlight, answered, failed, ledger>>

(* A handler that never waits takes its call from fresh to settled at once. *)
MayHandle(c) == c \in inFlight \/ (c \in Fresh /\ Cardinality(inFlight) < MaxConcurrent)

Answer(c) ==
  /\ MayHandle(c)
  /\ inFlight' = inFlight \ {c}
  /\ answered' = answered \cup {c}
  /\ ledger' = ledger \cup {c}
  /\ UNCHANGED <<refused, failed>>

(* The client cancelled, or the record could not be written. *)
Fail(c) ==
  /\ MayHandle(c)
  /\ inFlight' = inFlight \ {c}
  /\ failed' = failed \cup {c}
  /\ ledger' \in {ledger, ledger \cup {c}}
  /\ UNCHANGED <<refused, answered>>

Next == \E c \in Calls : Admit(c) \/ Refuse(c) \/ Answer(c) \/ Fail(c)

Spec == Init /\ [][Next]_vars
=============================================================================
