----------------------------- MODULE Redaction -----------------------------
(***************************************************************************)
(* The second filter before an answer leaves the server: redact() of       *)
(* redaction.py walks the result of a tool in place, and call_tool sends   *)
(* what it leaves behind, or an error if it raises.                        *)
(*                                                                         *)
(* A result is a graph of dicts and lists: execute_sql puts the same lists *)
(* under its own keys and under those of its first result set.  A label is *)
(* a key of a dict or a place in a list; a place is never sensitive.       *)
(***************************************************************************)
EXTENDS Integers

CONSTANTS
  Size,      \* how many dicts and lists there are
  Labels,
  Sensitive  \* the keys is_sensitive_key holds for

ASSUME RedactionAssumption == Size \in Nat \ {0} /\ Sensitive \subseteq Labels

Nodes == 1 .. Size
Root == 1

(* What is no dict and no list. *)
Absent == 0
Value == -1
Redacted == -2

VARIABLES
  heap,   \* what each dict or list has under each label
  first,  \* history: what it had when the tool returned it
  todo,   \* those redact() has still to be called on
  done,   \* history: those it has been called on
  phase   \* walking, or what call_tool made of it: sent, failed

vars == <<heap, first, todo, done, phase>>

(* A result has no cycles: a node lies below those with smaller numbers.   *)
Acyclic == [Nodes -> [Labels -> Nodes \cup {Absent, Value}]]

Init ==
  /\ heap \in {h \in Acyclic : \A n \in Nodes, l \in Labels : h[n][l] \in Nodes => h[n][l] > n}
  /\ first = heap
  /\ todo = {Root} /\ done = {}
  /\ phase = "walking"

(* Mutant of Cleaned: every sensitive key is set, there or not. *)
CleanedAlways(node) == [l \in Labels |-> IF l \in Sensitive THEN Redacted ELSE node[l]]

(* What the node has under its sensitive keys is replaced. *)
Cleaned(node) == [l \in Labels |-> IF l \in Sensitive /\ node[l] # Absent THEN Redacted ELSE node[l]]

Below(h, n) == {h[n][l] : l \in Labels} \cap Nodes

(* Mutant of Visit: a dict with a sensitive key is not descended into. *)
VisitEither(n) ==
  /\ phase = "walking"
  /\ n \in todo
  /\ heap' = [heap EXCEPT ![n] = Cleaned(@)]
  /\ todo' = (todo \ {n}) \cup (IF heap' = heap THEN Below(heap', n) ELSE {})
  /\ done' = done \cup {n}
  /\ UNCHANGED <<first, phase>>

Visit(n) ==
  /\ phase = "walking"
  /\ n \in todo
  /\ heap' = [heap EXCEPT ![n] = Cleaned(@)]
  /\ todo' = (todo \ {n}) \cup Below(heap', n)
  /\ done' = done \cup {n}
  /\ UNCHANGED <<first, phase>>

Send ==
  /\ phase = "walking"
  /\ todo = {}
  /\ phase' = "sent"
  /\ UNCHANGED <<heap, first, todo, done>>

(* RecursionError: the result is dropped half redacted. *)
Raise ==
  /\ phase = "walking"
  /\ todo # {}
  /\ phase' = "failed"
  /\ UNCHANGED <<heap, first, todo, done>>

Next == (\E n \in Nodes : Visit(n)) \/ Send \/ Raise

Spec == Init /\ [][Next]_vars
-----------------------------------------------------------------------------
Closed(S) == Root \in S /\ \A n \in S : Below(heap, n) \subseteq S

(* What the client can get at in the answer: the least set that has the    *)
(* root and all that lies below its members.                               *)
Reachable == {n \in Nodes : \A S \in SUBSET Nodes : Closed(S) => n \in S}

(* In an answer that is sent nothing is left under a sensitive key, along  *)
(* whatever path one comes to it and however often it is shared.           *)
NothingLeaks ==
  phase = "sent" => \A n \in Reachable, l \in Sensitive : heap[n][l] \in {Absent, Redacted}

(* Nothing else is lost and nothing is added: what redact() has visited    *)
(* has the sensitive keys it had, and all else is as the tool returned it. *)
NothingElseChanges ==
  \A n \in Nodes, l \in Labels :
    IF l \in Sensitive /\ n \in done /\ first[n][l] # Absent
    THEN heap[n][l] = Redacted
    ELSE heap[n][l] = first[n][l]
=============================================================================
