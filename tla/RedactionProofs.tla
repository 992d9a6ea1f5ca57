-------------------------- MODULE RedactionProofs --------------------------
(* For results of any size and shape: what the filter leaves behind.       *)
EXTENDS Redaction, TLAPS

Graph == [Nodes -> [Labels -> Nodes \cup {Absent, Value, Redacted}]]

(* What has been visited is clean, and all that lies below it has been or  *)
(* is still to be visited: when nothing is left to visit, the visited      *)
(* nodes are closed.                                                       *)
IInv ==
  /\ heap \in Graph /\ first \in Graph
  /\ todo \subseteq Nodes /\ done \subseteq Nodes
  /\ Root \in todo \cup done
  /\ \A n \in done : Below(heap, n) \subseteq todo \cup done
  /\ phase = "sent" => todo = {}
  /\ NothingElseChanges

LEMMA InitIInv == Init => IInv
<1> SUFFICES ASSUME Init PROVE IInv
  OBVIOUS
<1>1. Root \in Nodes
  BY RedactionAssumption DEF Root, Nodes
<1>2. heap \in Graph
  BY DEF Init, Acyclic, Graph
<1>3. QED
  BY <1>1, <1>2 DEF Init, IInv, NothingElseChanges

(* Cleaning a node leaves it a node. *)
LEMMA CleanedFacts ==
  ASSUME NEW h \in Graph, NEW n \in Nodes
  PROVE  /\ Cleaned(h[n]) \in [Labels -> Nodes \cup {Absent, Value, Redacted}]
         /\ \A l \in Labels : IF l \in Sensitive /\ h[n][l] # Absent
                              THEN Cleaned(h[n])[l] = Redacted
                              ELSE Cleaned(h[n])[l] = h[n][l]
  BY DEF Graph, Cleaned

LEMMA StepIInv == IInv /\ [Next]_vars => IInv'
<1> SUFFICES ASSUME IInv, [Next]_vars PROVE IInv'
  OBVIOUS
<1>1. ASSUME NEW n \in Nodes, Visit(n) PROVE IInv'
  <2>1. /\ heap' = [heap EXCEPT ![n] = Cleaned(heap[n])] /\ n \in todo
        /\ todo' = (todo \ {n}) \cup Below(heap', n) /\ done' = done \cup {n}
        /\ first' = first /\ phase' = phase /\ phase = "walking"
    BY <1>1 DEF Visit
  <2>2. /\ heap' \in Graph /\ heap'[n] = Cleaned(heap[n])
        /\ \A m \in Nodes \ {n} : heap'[m] = heap[m]
    BY <2>1, CleanedFacts DEF IInv, Graph
  <2>3. todo' \subseteq Nodes /\ done' \subseteq Nodes /\ Root \in todo' \cup done'
    BY <2>1 DEF IInv, Below
  <2>4. ASSUME NEW m \in done' PROVE Below(heap', m) \subseteq todo' \cup done'
    <3>1. CASE m = n
      BY <2>1, <3>1
    <3>2. CASE m # n
      <4>1. m \in done /\ Below(heap', m) = Below(heap, m)
        BY <2>1, <2>2, <2>3, <3>2 DEF Below
      <4>2. QED
        BY <2>1, <4>1 DEF IInv
    <3>3. QED
      BY <3>1, <3>2
  <2>5. NothingElseChanges'
    <3> SUFFICES ASSUME NEW m \in Nodes, NEW l \in Labels
                 PROVE  IF l \in Sensitive /\ m \in done' /\ first[m][l] # Absent
                        THEN heap'[m][l] = Redacted
                        ELSE heap'[m][l] = first[m][l]
      BY <2>1 DEF NothingElseChanges
    <3>1. IF l \in Sensitive /\ m \in done /\ first[m][l] # Absent
          THEN heap[m][l] = Redacted
          ELSE heap[m][l] = first[m][l]
      BY DEF IInv, NothingElseChanges
    <3>2. CASE m # n
      BY <2>1, <2>2, <3>1, <3>2
    <3>3. CASE m = n
      <4>1. IF l \in Sensitive /\ heap[n][l] # Absent
            THEN heap'[n][l] = Redacted
            ELSE heap'[n][l] = heap[n][l]
        BY <2>2, CleanedFacts DEF IInv
      <4>2. Redacted # Absent
        BY DEF Redacted, Absent
      <4>3. QED
        BY <2>1, <3>1, <3>3, <4>1, <4>2
    <3>4. QED
      BY <3>2, <3>3
  <2>6. QED
    BY <2>1, <2>2, <2>3, <2>4, <2>5 DEF IInv
<1>2. CASE Send
  BY <1>2 DEF Send, IInv, NothingElseChanges
<1>3. CASE Raise
  BY <1>3 DEF Raise, IInv, NothingElseChanges
<1>4. CASE UNCHANGED vars
  BY <1>4 DEF vars, IInv, NothingElseChanges, Below
<1>5. QED
  BY <1>1, <1>2, <1>3, <1>4 DEF Next

LEMMA Invariance == Spec => []IInv
  BY InitIInv, StepIInv, PTL DEF Spec

(* Nothing sensitive is left in an answer, whatever its size and sharing.  *)
THEOREM Clean == Spec => []NothingLeaks
<1>1. IInv => NothingLeaks
  <2> SUFFICES ASSUME IInv, phase = "sent", NEW n \in Reachable, NEW l \in Sensitive
               PROVE  heap[n][l] \in {Absent, Redacted}
    BY DEF NothingLeaks
  <2>1. todo = {} /\ done \in SUBSET Nodes
    BY DEF IInv
  <2>2. Closed(done)
    BY <2>1 DEF IInv, Closed
  <2>3. n \in done /\ n \in Nodes
    BY <2>1, <2>2 DEF Reachable
  <2>4. l \in Labels
    BY RedactionAssumption
  <2>5. QED
    BY <2>3, <2>4 DEF IInv, NothingElseChanges
<1>2. QED
  BY <1>1, Invariance, PTL

(* The rest of the result is as the tool returned it, at every moment.     *)
THEOREM Lossless == Spec => []NothingElseChanges
<1>1. IInv => NothingElseChanges
  BY DEF IInv
<1>2. QED
  BY <1>1, Invariance, PTL
=============================================================================
