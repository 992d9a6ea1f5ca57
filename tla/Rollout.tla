------------------------------ MODULE Rollout ------------------------------
(***************************************************************************)
(* Abstract specification: what the deployment workflows promise those who *)
(* use the entry point meanwhile, MCP clients and the hourly alert.  The   *)
(* live release changes only to one that is usable, or back, before the    *)
(* switch is settled, to the one it replaced; and neither of these two is  *)
(* touched.  Deploy implements this specification.                         *)
(***************************************************************************)

CONSTANTS Releases, None

VARIABLES
  usable,   \* the releases that are installed and passed the smoke
  live,     \* the release the entry point leads to
  fallback  \* the one an unsettled switch has replaced

vars == <<usable, live, fallback>>

Init == usable = {} /\ live = None /\ fallback = None

(* A release is installed, vetted, overwritten or removed. *)
Work(r) ==
  /\ r \notin {live, fallback}
  /\ usable' \in {usable \cup {r}, usable \ {r}}
  /\ UNCHANGED <<live, fallback>>

Switch(r) ==
  /\ fallback = None
  /\ r \in usable \ {live}
  /\ live' = r /\ fallback' = live
  /\ UNCHANGED usable

Settle == fallback' = None /\ UNCHANGED <<usable, live>>

Back ==
  /\ fallback # None
  /\ live' = fallback /\ fallback' = None
  /\ UNCHANGED usable

Next == (\E r \in Releases : Work(r) \/ Switch(r)) \/ Settle \/ Back

Spec == Init /\ [][Next]_vars
=============================================================================
