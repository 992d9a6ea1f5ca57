----------------------------- MODULE QueryWait -----------------------------
(***************************************************************************)
(* Abstract specification: what a database call is to its caller, the      *)
(* handler of server.py: one wait, which ends with one answer and is not   *)
(* begun again, so that the SQL of a call runs at most once.  ToolServer   *)
(* counts on it (QueryEnds), ReadonlySession keeps it.                     *)
(***************************************************************************)

CONSTANT Calls

VARIABLES
  tool,  \* the tool of each call
  state  \* idle, querying, or the answer

vars == <<tool, state>>

Answers == {"result", "invalid_params", "execution_failed", "cancelled"}

Init ==
  /\ tool \in [Calls -> {"ops_db_schema", "ops_sql_readonly"}]
  /\ state = [c \in Calls |-> "idle"]

Moves(c, to) == state' = [state EXCEPT ![c] = to] /\ UNCHANGED tool

Begin(c) == state[c] = "idle" /\ Moves(c, "querying")

(* Without asking the database only a table name can be found at fault:    *)
(* the server has looked at all other arguments before.                    *)
Blames(c) == state[c] = "idle" /\ tool[c] = "ops_db_schema" /\ Moves(c, "invalid_params")

(* Also as the fault of its arguments: that is how any ValueError ends. *)
End(c) == state[c] = "querying" /\ \E answer \in Answers : Moves(c, answer)

Next == \E c \in Calls : Begin(c) \/ Blames(c) \/ End(c)

Spec == Init /\ [][Next]_vars

(* No wait is for ever. *)
FairSpec == Spec /\ \A c \in Calls : WF_vars(End(c))
=============================================================================
