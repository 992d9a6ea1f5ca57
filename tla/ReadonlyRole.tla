---------------------------- MODULE ReadonlyRole ----------------------------
(***************************************************************************)
(* Abstract specification: what the readonly role is to those who log in   *)
(* as it, the SQL tools of the server and the doctor.  It sees nothing     *)
(* before its transactions are read-only, they stay so, and a table it     *)
(* sees it sees until the table is dropped.  BootstrapRole implements this *)
(* specification, however many runs repair the role meanwhile.             *)
(***************************************************************************)

CONSTANT Tables

VARIABLES
  tables,    \* those that exist
  readonly,  \* are the transactions of the role read-only?
  visible    \* the tables it sees

vars == <<tables, readonly, visible>>

Init == tables \subseteq Tables /\ readonly = FALSE /\ visible = {}

Harden == readonly' = TRUE /\ UNCHANGED <<tables, visible>>

Reveal ==
  /\ readonly
  /\ visible' \in {seen \in SUBSET tables : visible \subseteq seen}
  /\ UNCHANGED <<tables, readonly>>

Create(t) ==
  /\ tables' = tables \cup {t}
  /\ visible' = visible \/ (readonly /\ visible' = visible \cup {t})
  /\ UNCHANGED readonly

Drop(t) ==
  /\ tables' = tables \ {t}
  /\ visible' = visible \ {t}
  /\ UNCHANGED readonly

Next == Harden \/ Reveal \/ \E t \in Tables : Create(t) \/ Drop(t)

Spec == Init /\ [][Next]_vars
=============================================================================
