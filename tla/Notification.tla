---------------------------- MODULE Notification ----------------------------
(***************************************************************************)
(* Abstract specification: what a publish promises whoever asks for it,    *)
(* the alert command or the handler of server.py.  It tells only those it  *)
(* was to tell; an error says that it told nobody; and a report has one    *)
(* entry for each of them, which says "id" only if the recipient was told. *)
(* One that is cancelled, or left by another exception, says nothing.      *)
(* FeishuPublish implements this specification.                            *)
(***************************************************************************)

CONSTANTS
  Publishes,
  Recipients  \* a problem shop and who is to know of it

VARIABLES
  wanted,  \* the recipients each publish has been asked to tell
  told,    \* those Feishu has accepted a card for
  claims,  \* what the publish reports of each
  outcome  \* what it has returned

vars == <<wanted, told, claims, outcome>>

Silent(p) == [r \in wanted[p] |-> "none"]

Init ==
  /\ wanted \in [Publishes -> SUBSET Recipients]
  /\ told = [p \in Publishes |-> {}]
  /\ claims = [p \in Publishes |-> Silent(p)]
  /\ outcome = [p \in Publishes |-> "none"]

(* A recipient is told, perhaps not for the first time. *)
Tells(p) == \E r \in wanted[p] : told' = [told EXCEPT ![p] = @ \cup {r}]

Returns(p, result) == outcome[p] = "none" /\ outcome' = [outcome EXCEPT ![p] = result]

Tell(p) == outcome[p] = "none" /\ Tells(p) /\ UNCHANGED <<wanted, claims, outcome>>

Reject(p) == told[p] = {} /\ Returns(p, "error") /\ UNCHANGED <<wanted, told, claims>>

FindHealthy(p) == wanted[p] = {} /\ Returns(p, "healthy") /\ UNCHANGED <<wanted, told, claims>>

Report(p) ==
  /\ Returns(p, "cards")
  /\ Tells(p) \/ UNCHANGED told
  /\ \E report \in [wanted[p] -> {"id", "error"}] :
       /\ \A r \in wanted[p] : report[r] = "id" => r \in told'[p]
       /\ claims' = [claims EXCEPT ![p] = report]
  /\ UNCHANGED wanted

Cancel(p) == Returns(p, "cancelled") /\ (Tells(p) \/ UNCHANGED told) /\ UNCHANGED <<wanted, claims>>

Next == \E p \in Publishes : Tell(p) \/ Reject(p) \/ FindHealthy(p) \/ Report(p) \/ Cancel(p)

Spec == Init /\ [][Next]_vars
=============================================================================
