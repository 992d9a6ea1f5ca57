-------------------------- MODULE ToolServerProofs --------------------------
(***************************************************************************)
(* Theorems about ToolServer, for any finite set of calls, any positive    *)
(* number of permits and any set of requests.                              *)
(*                                                                         *)
(* None of the invariants is inductive alone: a released permit stays in   *)
(* 0 .. MaxConcurrent because permits count the calls in flight, and a     *)
(* record appended for a call is its first because recorded calls are      *)
(* settled.  Ind is their conjunction.                                     *)
(***************************************************************************)
EXTENDS ToolServer, FiniteSetTheorems, TLAPS

Ind ==
  /\ TypeOK
  /\ PermitAccounting
  /\ SettledMeansReplied
  /\ AnswersAreAudited
  /\ ChildrenSupervised

-----------------------------------------------------------------------------
(* The calls in flight are finitely many. *)
LEMMA InFlightFinite ==
  IsFiniteSet(InFlight) /\ Cardinality(InFlight) \in Nat
<1>1. InFlight \in SUBSET Calls
  BY DEF InFlight
<1>2. QED
  BY <1>1, ServerAssumption, FS_Subset, FS_CardinalityType

(* Where a step leaves call c: its phase decides whether it is in flight. *)
LEMMA InFlightStep ==
  ASSUME NEW c \in Calls, NEW p \in Phases, phase \in [Calls -> Phases],
         phase' = [phase EXCEPT ![c] = p]
  PROVE  /\ p \in Waiting => InFlight' = InFlight \cup {c}
         /\ p \notin Waiting => InFlight' = InFlight \ {c}
  BY DEF InFlight

(* A call in flight holds a permit, so one is missing. *)
LEMMA PermitMissing ==
  ASSUME TypeOK, PermitAccounting, NEW c \in Calls, phase[c] \in Waiting
  PROVE  permits + 1 \in 0 .. MaxConcurrent
<1>1. InFlight # {}
  BY DEF InFlight
<1>2. Cardinality(InFlight) # 0
  BY <1>1, InFlightFinite, FS_EmptySet
<1>3. QED
  BY <1>2, InFlightFinite, ServerAssumption DEF TypeOK, PermitAccounting

(* What Conclude does, whichever of its branches is taken: the call is     *)
(* settled and replied to, and the log grows by at most its record, which  *)
(* is there if the reply is the answer of the handler.                     *)
LEMMA ConcludeEffect ==
  ASSUME TypeOK, NEW c \in Calls,
         NEW answer \in HandlerAnswers \cup {"cancelled"}, Conclude(c, answer)
  PROVE  /\ phase' = [phase EXCEPT ![c] = "settled"]
         /\ request' = request /\ dbUrl' = dbUrl
         /\ \E r \in HandlerAnswers \cup {"sdk_error", "cancelled"} :
              /\ reply' = [reply EXCEPT ![c] = r]
              /\ \/ audit' = audit /\ r \notin HandlerAnswers
                 \/ /\ audit' = Append(audit, [call |-> c, status |-> Status(answer)])
                    /\ r \in HandlerAnswers => r = answer
              /\ answer = "cancelled" => r = "cancelled"
<1>1. PICK r \in HandlerAnswers \cup {"sdk_error", "cancelled"} :
              /\ reply' = [reply EXCEPT ![c] = r]
              /\ \/ audit' = audit /\ r \notin HandlerAnswers
                 \/ /\ audit' = Append(audit, [call |-> c, status |-> Status(answer)])
                    /\ r \in HandlerAnswers => r = answer
              /\ answer = "cancelled" => r = "cancelled"
  <2>1. CASE audit' = Append(audit, [call |-> c, status |-> Status(answer)])
             /\ reply' = [reply EXCEPT ![c] = answer]
    BY <2>1 DEF HandlerAnswers
  <2>2. CASE /\ audit' \in {audit, Append(audit, [call |-> c, status |-> Status(answer)])}
             /\ reply' = [reply EXCEPT ![c] = IF answer = "cancelled" THEN answer
                                                                      ELSE "sdk_error"]
    BY <2>2 DEF HandlerAnswers
  <2>3. QED
    BY <2>1, <2>2 DEF Conclude
<1>2. QED
  BY <1>1 DEF Conclude

(* The records of the log are records of settled calls. *)
LEMMA RecordedCalls ==
  ASSUME TypeOK, SettledMeansReplied
  PROVE  \A i \in DOMAIN audit : audit[i].call \in Calls /\ phase[audit[i].call] = "settled"
<1>1. \A i \in DOMAIN audit : audit[i] \in Record
  BY DEF TypeOK
<1>2. \A i \in DOMAIN audit : audit[i].call \in Calls
  BY <1>1 DEF Record
<1>3. QED
  BY <1>2 DEF SettledMeansReplied

-----------------------------------------------------------------------------
(* Concluding an unsettled call keeps the log and the replies in step: its *)
(* record, if there is one, is the first of the call.                      *)
LEMMA ConcludeKeepsLog ==
  ASSUME Ind, NEW c \in Calls, phase[c] # "settled",
         NEW answer \in HandlerAnswers \cup {"cancelled"}, Conclude(c, answer)
  PROVE  /\ request' \in [Calls -> Requests] /\ dbUrl' \in BOOLEAN
         /\ phase' \in [Calls -> Phases]
         /\ audit' \in Seq(Record)
         /\ reply' \in [Calls -> Replies]
         /\ SettledMeansReplied'
         /\ AnswersAreAudited'
<1> DEFINE new == [call |-> c, status |-> Status(answer)]
<1>1. /\ phase' = [phase EXCEPT ![c] = "settled"]
      /\ request' = request /\ dbUrl' = dbUrl
  BY ConcludeEffect DEF Ind
<1>2. PICK r \in HandlerAnswers \cup {"sdk_error", "cancelled"} :
        /\ reply' = [reply EXCEPT ![c] = r]
        /\ \/ audit' = audit /\ r \notin HandlerAnswers
           \/ audit' = Append(audit, new) /\ (r \in HandlerAnswers => r = answer)
  BY ConcludeEffect DEF Ind
<1>3. new \in Record
  BY DEF Record, Status
<1>4. /\ request' \in [Calls -> Requests] /\ dbUrl' \in BOOLEAN
      /\ phase' \in [Calls -> Phases]
      /\ audit' \in Seq(Record)
      /\ reply' \in [Calls -> Replies]
  <2>1. audit' \in Seq(Record)
    BY <1>2, <1>3 DEF Ind, TypeOK
  <2>2. reply' \in [Calls -> Replies]
    BY <1>2 DEF Ind, TypeOK, Replies
  <2>3. phase' \in [Calls -> Phases]
    BY <1>1 DEF Ind, TypeOK, Phases
  <2>4. QED
    BY <1>1, <2>1, <2>2, <2>3 DEF Ind, TypeOK
<1>5. \A i \in DOMAIN audit : audit[i] \in Record /\ audit[i].call # c
  BY DEF Ind, TypeOK, SettledMeansReplied
<1>6. \A d \in Calls : phase'[d] = "settled" <=> reply'[d] # "none"
  BY <1>1, <1>2 DEF Ind, TypeOK, SettledMeansReplied, HandlerAnswers
<1>7. CASE audit' = audit /\ r \notin HandlerAnswers
  <2>1. \A i \in DOMAIN audit : phase'[audit[i].call] = "settled"
    BY <1>1, <1>5 DEF Ind, TypeOK, SettledMeansReplied, Record
  <2>2. \A d \in Calls : reply'[d] \in HandlerAnswers =>
          \E i \in DOMAIN audit : audit[i] = [call |-> d, status |-> Status(reply'[d])]
    BY <1>2, <1>7 DEF Ind, TypeOK, AnswersAreAudited
  <2>3. QED
    BY <1>4, <1>6, <1>7, <2>1, <2>2 DEF Ind, SettledMeansReplied, AnswersAreAudited, Status
<1>8. CASE audit' = Append(audit, new) /\ (r \in HandlerAnswers => r = answer)
  <2>1. /\ DOMAIN audit' = 1 .. Len(audit) + 1
        /\ DOMAIN audit = 1 .. Len(audit) /\ Len(audit) \in Nat
        /\ audit'[Len(audit) + 1] = new
        /\ \A i \in 1 .. Len(audit) : audit'[i] = audit[i]
    BY <1>8, <1>3 DEF Ind, TypeOK
  <2>2. \A i \in DOMAIN audit' : phase'[audit'[i].call] = "settled"
    BY <1>1, <1>5, <2>1 DEF Ind, TypeOK, SettledMeansReplied, Record
  <2>3. \A i, j \in DOMAIN audit' : audit'[i].call = audit'[j].call => i = j
    BY <1>5, <2>1 DEF Ind, AnswersAreAudited
  <2>4. ASSUME NEW d \in Calls, reply'[d] \in HandlerAnswers
        PROVE  \E i \in DOMAIN audit' :
                 audit'[i] = [call |-> d, status |-> Status(reply'[d])]
    <3>1. CASE d = c
      BY <1>2, <1>8, <2>1, <2>4, <3>1 DEF Ind, TypeOK
    <3>2. CASE d # c
      BY <1>2, <2>1, <2>4, <3>2 DEF Ind, TypeOK, AnswersAreAudited
    <3>3. QED
      BY <3>1, <3>2
  <2>5. QED
    BY <1>4, <1>6, <2>2, <2>3, <2>4 DEF SettledMeansReplied, AnswersAreAudited, Status
<1>9. QED
  BY <1>2, <1>7, <1>8

(* Settling a waiting call gives its permit back. *)
LEMMA SettleKeeps ==
  ASSUME Ind, NEW c \in Calls, phase[c] \in Waiting,
         NEW answer \in HandlerAnswers \cup {"cancelled"}, Settle(c, answer),
         child' \in [Calls -> {"none", "running", "killed", "reaped"}]
  PROVE  TypeOK' /\ PermitAccounting' /\ SettledMeansReplied' /\ AnswersAreAudited'
<1>1. phase[c] # "settled" /\ "settled" \in Phases /\ "settled" \notin Waiting
  BY DEF Phases, Waiting
<1>2. Conclude(c, answer) /\ permits' = permits + 1
  BY DEF Settle
<1>3. permits' \in 0 .. MaxConcurrent
  BY <1>2, PermitMissing DEF Ind
<1>4. phase' = [phase EXCEPT ![c] = "settled"]
  BY <1>2, ConcludeEffect DEF Ind
<1>5. InFlight' = InFlight \ {c} /\ c \in InFlight
  BY <1>1, <1>4, InFlightStep DEF Ind, TypeOK, InFlight
<1>6. PermitAccounting'
  <2>1. Cardinality(InFlight)' = Cardinality(InFlight) - 1
    BY <1>5, InFlightFinite, FS_RemoveElement
  <2>2. QED
    BY <1>2, <2>1, InFlightFinite, ServerAssumption DEF Ind, TypeOK, PermitAccounting
<1>7. QED
  BY <1>1, <1>2, <1>3, <1>6, ConcludeKeepsLog DEF TypeOK

(* A step that only moves c between two waits, and its child. *)
LEMMA MoveKeeps ==
  ASSUME Ind, NEW c \in Calls, phase[c] \in Waiting, NEW p \in Waiting,
         phase' = [phase EXCEPT ![c] = p],
         UNCHANGED <<request, permits, audit, reply, dbUrl>>,
         child' \in [Calls -> {"none", "running", "killed", "reaped"}]
  PROVE  TypeOK' /\ PermitAccounting' /\ SettledMeansReplied' /\ AnswersAreAudited'
<1>1. p \in Phases /\ p # "settled" /\ phase[c] # "settled"
  BY DEF Phases, Waiting
<1>2. InFlight' = InFlight
  BY <1>1, InFlightStep DEF Ind, TypeOK, InFlight
<1>3. TypeOK' /\ PermitAccounting'
  BY <1>1, <1>2 DEF Ind, TypeOK, PermitAccounting
<1>4. \A i \in DOMAIN audit : audit[i].call \in Calls
  BY RecordedCalls DEF Ind
<1>5. SettledMeansReplied'
  BY <1>1, <1>4 DEF Ind, TypeOK, SettledMeansReplied
<1>6. AnswersAreAudited'
  BY DEF Ind, AnswersAreAudited, Status
<1>7. QED
  BY <1>3, <1>5, <1>6

LEMMA InitInd == Init => Ind
<1> SUFFICES ASSUME Init PROVE Ind
  OBVIOUS
<1>1. TypeOK
  BY ServerAssumption DEF Init, TypeOK, Phases, Replies
<1>2. PermitAccounting
  <2>1. InFlight = {}
    BY DEF Init, InFlight, Waiting
  <2>2. QED
    BY <2>1, FS_EmptySet, ServerAssumption DEF Init, PermitAccounting
<1>3. SettledMeansReplied /\ AnswersAreAudited
  BY DEF Init, SettledMeansReplied, AnswersAreAudited, HandlerAnswers
<1>4. ChildrenSupervised
  BY DEF Init, ChildrenSupervised
<1>5. QED
  BY <1>1, <1>2, <1>3, <1>4 DEF Ind

(* Every step of the server preserves the conjunction. *)
LEMMA NextInd == Ind /\ [Next]_vars => Ind'
<1> SUFFICES ASSUME Ind, [Next]_vars PROVE Ind'
  OBVIOUS
<1> DEFINE Kept == TypeOK' /\ PermitAccounting' /\ SettledMeansReplied' /\ AnswersAreAudited'
<1>u. ASSUME UNCHANGED vars PROVE Ind'
  BY <1>u DEF vars, Ind, TypeOK, PermitAccounting, InFlight, SettledMeansReplied,
              AnswersAreAudited, ChildrenSupervised, Status
<1>t. /\ TypeOK /\ child \in [Calls -> {"none", "running", "killed", "reaped"}]
      /\ phase \in [Calls -> Phases] /\ reply \in [Calls -> Replies]
  BY DEF Ind, TypeOK
<1>1. ASSUME NEW c \in Calls, Refuse(c) PROVE Ind'
  <2>1. "settled" \in Phases /\ "settled" \notin Waiting /\ "new" \notin Waiting
    BY DEF Phases, Waiting
  <2>2. InFlight' = InFlight
    BY <1>1, <1>t, <2>1, InFlightStep DEF Refuse, InFlight
  <2>3. TypeOK' /\ PermitAccounting'
    BY <1>1, <2>1, <2>2 DEF Refuse, Ind, TypeOK, PermitAccounting, Replies
  <2>4. \A i \in DOMAIN audit : audit[i].call \in Calls /\ audit[i].call # c
    BY <1>1, RecordedCalls DEF Refuse, Ind
  <2>5. SettledMeansReplied'
    BY <1>1, <1>t, <2>4 DEF Refuse, Ind, SettledMeansReplied
  <2>6. AnswersAreAudited'
    BY <1>1, <1>t, <2>4 DEF Refuse, Ind, AnswersAreAudited, HandlerAnswers, Status
  <2>7. ChildrenSupervised'
    BY <1>1, <1>t DEF Refuse, Ind, ChildrenSupervised, SettledMeansReplied
  <2>8. QED
    BY <2>3, <2>5, <2>6, <2>7 DEF Ind
<1>2. ASSUME NEW c \in Calls, Admit(c) PROVE Ind'
  <2> DEFINE p == FirstAwait(request[c])
  <2>1. p \in Waiting /\ p \in Phases /\ "new" \notin Waiting /\ p # "settled"
    BY DEF FirstAwait, Waiting, Phases
  <2>2. InFlight' = InFlight \cup {c} /\ c \notin InFlight
    BY <1>2, <1>t, <2>1, InFlightStep DEF Admit, InFlight
  <2>3. Cardinality(InFlight)' = Cardinality(InFlight) + 1
    BY <2>2, InFlightFinite, FS_AddElement
  <2>4. PermitAccounting'
    BY <1>2, <2>3, InFlightFinite, ServerAssumption DEF Admit, Ind, TypeOK, PermitAccounting
  <2>5. TypeOK'
    BY <1>2, <2>1, ServerAssumption DEF Admit, Ind, TypeOK
  <2>6. \A i \in DOMAIN audit : audit[i].call \in Calls /\ audit[i].call # c
    BY <1>2, RecordedCalls DEF Admit, Ind
  <2>7. SettledMeansReplied'
    BY <1>2, <1>t, <2>1, <2>6 DEF Admit, Ind, SettledMeansReplied
  <2>8. AnswersAreAudited'
    BY <1>2 DEF Admit, Ind, AnswersAreAudited, Status
  <2>9. ChildrenSupervised'
    BY <1>2, <1>t DEF Admit, Ind, ChildrenSupervised, SettledMeansReplied
  <2>10. QED
    BY <2>4, <2>5, <2>7, <2>8, <2>9 DEF Ind
<1>3. ASSUME NEW c \in Calls, HandleAtOnce(c) PROVE Ind'
  <2>1. PICK answer \in HandlerAnswers : Conclude(c, answer)
    BY <1>3 DEF HandleAtOnce, HandlerAnswers
  <2>2. phase' = [phase EXCEPT ![c] = "settled"] /\ phase[c] = "new"
        /\ UNCHANGED <<child, permits>>
    BY <1>3, <1>t, <2>1, ConcludeEffect DEF HandleAtOnce
  <2>3. InFlight' = InFlight
    BY <1>t, <2>2, InFlightStep DEF InFlight, Phases, Waiting
  <2>4. TypeOK' /\ SettledMeansReplied' /\ AnswersAreAudited'
    BY <1>t, <2>1, <2>2, ConcludeKeepsLog DEF TypeOK
  <2>5. PermitAccounting'
    BY <2>2, <2>3 DEF Ind, PermitAccounting
  <2>6. reply[c] # "cancelled" /\ \A d \in Calls : d # c => reply'[d] = reply[d]
    BY <1>t, <2>1, <2>2, ConcludeEffect DEF Ind, SettledMeansReplied
  <2>7. ChildrenSupervised'
    BY <1>t, <2>2, <2>6 DEF Ind, ChildrenSupervised
  <2>8. QED
    BY <2>4, <2>5, <2>7 DEF Ind
<1>4. ASSUME NEW c \in Calls, ChildStarts(c) PROVE Ind'
  <2>1. "running" \in Waiting /\ phase[c] \in Waiting
    BY <1>4 DEF ChildStarts, Waiting
  <2>2. Kept
    BY <1>4, <1>t, <2>1, MoveKeeps DEF ChildStarts
  <2>3. ChildrenSupervised'
    BY <1>4, <1>t DEF ChildStarts, Ind, ChildrenSupervised
  <2>4. QED
    BY <2>2, <2>3 DEF Ind
<1>5. ASSUME NEW c \in Calls, TimerFires(c) PROVE Ind'
  <2>1. "reaping" \in Waiting /\ phase[c] \in Waiting
    BY <1>5 DEF TimerFires, Waiting
  <2>2. Kept
    BY <1>5, <1>t, <2>1, MoveKeeps DEF TimerFires
  <2>3. ChildrenSupervised'
    BY <1>5, <1>t DEF TimerFires, Ind, ChildrenSupervised
  <2>4. QED
    BY <2>2, <2>3 DEF Ind
(* What the settling steps have in common. *)
<1>s. ASSUME NEW c \in Calls, phase[c] \in Waiting,
             NEW answer \in HandlerAnswers \cup {"cancelled"}, Settle(c, answer),
             \/ child' = child /\ (answer = "cancelled" \/ phase[c] \notin {"running", "reaping"})
             \/ child' = [child EXCEPT ![c] = "reaped"]
      PROVE  Ind'
  <2>1. Kept
    <3>1. child' \in [Calls -> {"none", "running", "killed", "reaped"}]
      BY <1>s, <1>t
    <3>2. QED
      BY <1>s, <3>1, SettleKeeps
  <2>2. /\ phase' = [phase EXCEPT ![c] = "settled"]
        /\ \A d \in Calls : d # c => reply'[d] = reply[d]
        /\ answer = "cancelled" => reply'[c] = "cancelled"
    <3>1. Conclude(c, answer)
      BY <1>s DEF Settle
    <3>2. PICK r \in HandlerAnswers \cup {"sdk_error", "cancelled"} :
            reply' = [reply EXCEPT ![c] = r] /\ (answer = "cancelled" => r = "cancelled")
      BY <1>s, <1>t, <3>1, ConcludeEffect
    <3>3. phase' = [phase EXCEPT ![c] = "settled"]
      BY <3>1 DEF Conclude
    <3>4. QED
      BY <1>t, <3>2, <3>3
  <2>3. reply[c] # "cancelled"
    BY <1>s DEF Ind, SettledMeansReplied, Waiting
  <2>4. ChildrenSupervised'
    BY <1>s, <1>t, <2>2, <2>3 DEF Ind, ChildrenSupervised
  <2>5. QED
    BY <2>1, <2>4 DEF Ind
<1> USE DEF HandlerAnswers, Waiting
<1>6. ASSUME NEW c \in Calls, StartFails(c) PROVE Ind'
  BY <1>6, <1>s DEF StartFails, ChildFailure
<1>7. ASSUME NEW c \in Calls, ChildExits(c) PROVE Ind'
  BY <1>7, <1>s DEF ChildExits, ChildAnswers
<1>8. ASSUME NEW c \in Calls, ChildReaped(c) PROVE Ind'
  BY <1>8, <1>s DEF ChildReaped, ChildFailure
<1>9. ASSUME NEW c \in Calls, QueryEnds(c) PROVE Ind'
  BY <1>9, <1>s DEF QueryEnds
<1>10. ASSUME NEW c \in Calls, LookupEnds(c) PROVE Ind'
  <2>1. CASE \E answer \in {"result", "execution_failed"} : Settle(c, answer)
    BY <1>10, <1>s, <2>1 DEF LookupEnds
  <2>2. CASE /\ phase' = [phase EXCEPT ![c] = "sending"]
             /\ UNCHANGED <<request, permits, audit, reply, dbUrl>>
    <3>1. Kept
      BY <1>10, <1>t, <2>2, MoveKeeps DEF LookupEnds
    <3>2. ChildrenSupervised'
      BY <1>10, <1>t, <2>2 DEF LookupEnds, Ind, ChildrenSupervised
    <3>3. QED
      BY <3>1, <3>2 DEF Ind
  <2>3. QED
    BY <1>10, <2>1, <2>2 DEF LookupEnds
<1>11. ASSUME NEW c \in Calls, PublishEnds(c) PROVE Ind'
  BY <1>11, <1>s DEF PublishEnds
<1>12. ASSUME NEW c \in Calls, Cancel(c) PROVE Ind'
  BY <1>12, <1>s DEF Cancel
<1>13. ASSUME NEW c \in Calls, OrphanEnds(c) PROVE Ind'
  <2>1. Kept
    BY <1>13, <1>t DEF OrphanEnds, Ind, TypeOK, PermitAccounting, InFlight,
                       SettledMeansReplied, AnswersAreAudited, Status
  <2>2. ChildrenSupervised'
    BY <1>13, <1>t DEF OrphanEnds, Ind, ChildrenSupervised
  <2>3. QED
    BY <2>1, <2>2 DEF Ind
<1>14. QED
  BY <1>u, <1>1, <1>2, <1>3, <1>4, <1>5, <1>6, <1>7, <1>8, <1>9, <1>10, <1>11, <1>12, <1>13
  DEF Next, Handler, Idle

(* The invariants hold together in every state of every behaviour. *)
THEOREM Inductive == Spec => []Ind
  BY InitInd, NextInd, PTL DEF Spec

(* Every variable keeps its type; a permit is never released twice. *)
THEOREM TypeCorrect == Spec => []TypeOK
<1>1. Ind => TypeOK
  BY DEF Ind
<1>2. QED
  BY <1>1, Inductive, PTL

(* No path through the handler leaks a permit or releases one too many. *)
THEOREM PermitsCount == Spec => []PermitAccounting
<1>1. Ind => PermitAccounting
  BY DEF Ind
<1>2. QED
  BY <1>1, Inductive, PTL

(* No path through the handler ends without an answer, and no call is      *)
(* recorded before its outcome is known.                                   *)
THEOREM SettledReplied == Spec => []SettledMeansReplied
<1>1. Ind => SettledMeansReplied
  BY DEF Ind
<1>2. QED
  BY <1>1, Inductive, PTL

(* Whoever gets a handler's answer finds exactly one record of the call,   *)
(* with its status, whether or not writing records can fail.               *)
THEOREM Audited == Spec => []AnswersAreAudited
<1>1. Ind => AnswersAreAudited
  BY DEF Ind
<1>2. QED
  BY <1>1, Inductive, PTL

(* A stonx process runs under the timer of its call, or was cancelled. *)
THEOREM Supervised == Spec => []ChildrenSupervised
<1>1. Ind => ChildrenSupervised
  BY DEF Ind
<1>2. QED
  BY <1>1, Inductive, PTL

(* The processes of calls that were not cancelled belong to calls in       *)
(* flight, each of which holds a permit.                                   *)
THEOREM Bounded == Spec => []ChildrenBounded
<1>1. Ind => ChildrenBounded
  <2> SUFFICES ASSUME Ind PROVE ChildrenBounded
    OBVIOUS
  <2> DEFINE kids == {c \in Calls : child[c] \in {"running", "killed"}
                                    /\ reply[c] # "cancelled"}
  <2>1. kids \subseteq InFlight
    BY DEF Ind, ChildrenSupervised, InFlight, Waiting
  <2>2. Cardinality(kids) <= Cardinality(InFlight) /\ Cardinality(kids) \in Nat
    BY <2>1, InFlightFinite, FS_Subset, FS_CardinalityType
  <2>3. Cardinality(InFlight) <= MaxConcurrent
    BY InFlightFinite, ServerAssumption DEF Ind, TypeOK, PermitAccounting
  <2>4. QED
    BY <2>2, <2>3, InFlightFinite, ServerAssumption DEF ChildrenBounded
<1>2. QED
  BY <1>1, Inductive, PTL

-----------------------------------------------------------------------------
(* The server implements the pool of calls. *)

(* The pool counts as the server does: both take Cardinality from the same *)
(* module.                                                                 *)
LEMMA SameCardinality == \A S : Pool!Cardinality(S) = Cardinality(S)
  BY DEF Pool!Cardinality, Cardinality

(* A call no handler has seen is fresh in the pool, and the pool has room  *)
(* exactly if a permit is left.                                            *)
LEMMA PoolRoom ==
  ASSUME Ind
  PROVE  /\ \A c \in Calls : phase[c] = "new" => c \in Pool!Fresh
         /\ permits > 0 <=> Cardinality(InFlight) < MaxConcurrent
         /\ permits = 0 <=> Cardinality(InFlight) = MaxConcurrent
<1>1. \A c \in Calls : phase[c] = "new" => c \in Pool!Fresh
  BY DEF Ind, SettledMeansReplied, Pool!Fresh, InFlight, Waiting, HandlerAnswers
<1>2. QED
  BY <1>1, InFlightFinite, ServerAssumption DEF Ind, TypeOK, PermitAccounting

(* The pool does not see what leaves phases, replies and log alone. *)
LEMMA PoolStutters ==
  ASSUME InFlight' = InFlight, reply' = reply, audit' = audit
  PROVE  UNCHANGED Pool!vars
  BY DEF Pool!vars

(* Concluding a call answers it or fails it in the pool. *)
LEMMA PoolConcludes ==
  ASSUME Ind, NEW c \in Calls, NEW answer \in HandlerAnswers \cup {"cancelled"},
         \/ phase[c] \in Waiting
         \/ phase[c] = "new" /\ permits > 0,
         Conclude(c, answer)
  PROVE  Pool!Next
<1> DEFINE recorded  == {audit[i].call : i \in DOMAIN audit}
           recordedN == {audit'[i].call : i \in DOMAIN audit'}
<1>1. PICK r \in HandlerAnswers \cup {"sdk_error", "cancelled"} :
        /\ reply' = [reply EXCEPT ![c] = r]
        /\ \/ audit' = audit /\ r \notin HandlerAnswers
           \/ audit' = Append(audit, [call |-> c, status |-> Status(answer)])
  BY ConcludeEffect DEF Ind
<1>2. Pool!MayHandle(c)
  BY PoolRoom, SameCardinality DEF Pool!MayHandle, InFlight
<1>3. InFlight' = InFlight \ {c}
  <2>1. phase' = [phase EXCEPT ![c] = "settled"]
    BY DEF Conclude
  <2>2. "settled" \in Phases /\ "settled" \notin Waiting
    BY DEF Phases, Waiting
  <2>3. QED
    BY <2>1, <2>2, InFlightStep DEF Ind, TypeOK
<1>4. reply \in [Calls -> Replies] /\ reply[c] = "none"
  BY DEF Ind, TypeOK, SettledMeansReplied, Waiting
<1>5. audit' = audit => recordedN = recorded
  OBVIOUS
<1>6. ASSUME audit' = Append(audit, [call |-> c, status |-> Status(answer)])
      PROVE  recordedN = recorded \cup {c}
  <2>1. /\ DOMAIN audit' = 1 .. Len(audit) + 1
        /\ DOMAIN audit = 1 .. Len(audit) /\ Len(audit) \in Nat
        /\ audit'[Len(audit) + 1] = [call |-> c, status |-> Status(answer)]
        /\ \A i \in 1 .. Len(audit) : audit'[i] = audit[i]
    <3>1. [call |-> c, status |-> Status(answer)] \in Record
      BY DEF Record, Status
    <3>2. QED
      BY <1>6, <3>1 DEF Ind, TypeOK
  <2>2. audit'[Len(audit) + 1].call = c
    BY <2>1
  <2>3. \A i \in DOMAIN audit : i \in DOMAIN audit' /\ audit'[i].call = audit[i].call
    BY <2>1
  <2>4. \A i \in DOMAIN audit' : i \in DOMAIN audit \/ i = Len(audit) + 1
    BY <2>1
  <2>5. QED
    BY <2>1, <2>2, <2>3, <2>4
<1>7. CASE r \in HandlerAnswers
  <2>1. Pool!Answer(c)
    BY <1>1, <1>2, <1>3, <1>4, <1>5, <1>6, <1>7 DEF Pool!Answer, HandlerAnswers
  <2>2. QED
    BY <2>1 DEF Pool!Next
<1>8. CASE r \notin HandlerAnswers
  <2>1. Pool!Fail(c)
    BY <1>1, <1>2, <1>3, <1>4, <1>5, <1>6, <1>8 DEF Pool!Fail, HandlerAnswers
  <2>2. QED
    BY <2>1 DEF Pool!Next
<1>9. QED
  BY <1>7, <1>8

(* Every step of the server is a step of the pool or leaves it alone. *)
LEMMA PoolStep == Ind /\ [Next]_vars => [Pool!Next]_Pool!vars
<1> SUFFICES ASSUME Ind, [Next]_vars PROVE [Pool!Next]_Pool!vars
  OBVIOUS
<1>t. phase \in [Calls -> Phases] /\ reply \in [Calls -> Replies]
  BY DEF Ind, TypeOK
<1>u. ASSUME UNCHANGED vars PROVE UNCHANGED Pool!vars
  BY <1>u, PoolStutters DEF vars, InFlight
<1>1. ASSUME NEW c \in Calls, Refuse(c) PROVE Pool!Next
  <2>1. InFlight' = InFlight
    BY <1>1, <1>t, InFlightStep DEF Refuse, InFlight, Phases, Waiting
  <2>2. c \in Pool!Fresh /\ Cardinality(InFlight) = MaxConcurrent
    BY <1>1, PoolRoom DEF Refuse
  <2>3. Pool!Refuse(c)
    BY <1>1, <1>t, <2>1, <2>2, SameCardinality DEF Refuse, Pool!Refuse, Ind, SettledMeansReplied, HandlerAnswers
  <2>4. QED
    BY <2>3 DEF Pool!Next
<1>2. ASSUME NEW c \in Calls, Admit(c) PROVE Pool!Next
  <2>1. FirstAwait(request[c]) \in Waiting /\ FirstAwait(request[c]) \in Phases
    BY DEF FirstAwait, Waiting, Phases
  <2>2. InFlight' = InFlight \cup {c}
    BY <1>2, <1>t, <2>1, InFlightStep DEF Admit
  <2>3. c \in Pool!Fresh /\ Cardinality(InFlight) < MaxConcurrent
    BY <1>2, PoolRoom DEF Admit
  <2>4. Pool!Admit(c)
    BY <1>2, <2>2, <2>3, SameCardinality DEF Admit, Pool!Admit
  <2>5. QED
    BY <2>4 DEF Pool!Next
<1>3. ASSUME NEW c \in Calls, HandleAtOnce(c) PROVE Pool!Next
  BY <1>3, PoolConcludes DEF HandleAtOnce, HandlerAnswers
<1>m. ASSUME NEW c \in Calls, NEW p \in Waiting, phase[c] \in Waiting,
             phase' = [phase EXCEPT ![c] = p], UNCHANGED <<audit, reply>>
      PROVE  UNCHANGED Pool!vars
  <2>1. InFlight' = InFlight
    BY <1>m, <1>t, InFlightStep DEF InFlight, Phases
  <2>2. QED
    BY <1>m, <2>1, PoolStutters
<1>s. ASSUME NEW c \in Calls, phase[c] \in Waiting,
             NEW answer \in HandlerAnswers \cup {"cancelled"}, Settle(c, answer)
      PROVE  Pool!Next
  BY <1>s, PoolConcludes DEF Settle
<1> USE DEF HandlerAnswers, Waiting
<1>4. ASSUME NEW c \in Calls, ChildStarts(c) PROVE UNCHANGED Pool!vars
  BY <1>4, <1>m DEF ChildStarts
<1>5. ASSUME NEW c \in Calls, TimerFires(c) PROVE UNCHANGED Pool!vars
  BY <1>5, <1>m DEF TimerFires
<1>6. ASSUME NEW c \in Calls, StartFails(c) PROVE Pool!Next
  BY <1>6, <1>s DEF StartFails, ChildFailure
<1>7. ASSUME NEW c \in Calls, ChildExits(c) PROVE Pool!Next
  BY <1>7, <1>s DEF ChildExits, ChildAnswers
<1>8. ASSUME NEW c \in Calls, ChildReaped(c) PROVE Pool!Next
  BY <1>8, <1>s DEF ChildReaped, ChildFailure
<1>9. ASSUME NEW c \in Calls, QueryEnds(c) PROVE Pool!Next
  BY <1>9, <1>s DEF QueryEnds
<1>10. ASSUME NEW c \in Calls, LookupEnds(c) PROVE [Pool!Next]_Pool!vars
  BY <1>10, <1>s, <1>m DEF LookupEnds
<1>11. ASSUME NEW c \in Calls, PublishEnds(c) PROVE Pool!Next
  BY <1>11, <1>s DEF PublishEnds
<1>12. ASSUME NEW c \in Calls, Cancel(c) PROVE Pool!Next
  BY <1>12, <1>s DEF Cancel
<1>13. ASSUME NEW c \in Calls, OrphanEnds(c) PROVE UNCHANGED Pool!vars
  BY <1>13, PoolStutters DEF OrphanEnds, InFlight
<1>14. QED
  BY <1>u, <1>1, <1>2, <1>3, <1>4, <1>5, <1>6, <1>7, <1>8, <1>9, <1>10, <1>11, <1>12, <1>13
  DEF Next, Handler, Idle

(* The tool server implements CallPool: calls in flight are bounded,       *)
(* refused only when the bound is reached, settled once, and answered      *)
(* only with a record in the ledger.                                       *)
THEOREM Implements == Spec => ImplementsPool
<1>1. Init => Pool!Init
  <2> SUFFICES ASSUME Init PROVE Pool!Init
    OBVIOUS
  <2>1. InFlight = {}
    BY DEF Init, InFlight, Waiting
  <2>2. {audit[i].call : i \in DOMAIN audit} = {}
    BY DEF Init
  <2>3. QED
    BY <2>1, <2>2 DEF Init, Pool!Init, HandlerAnswers
<1>2. QED
  BY <1>1, Inductive, PoolStep, PTL DEF Spec, ImplementsPool, Pool!Spec

-----------------------------------------------------------------------------
(* Queries.  A call of a database tool waits for nothing but its query. *)
DbPhases ==
  \A c \in Calls : request[c].tool \in DbTools => phase[c] \in {"new", "querying", "settled"}

LEMMA NextDbPhases == Ind /\ DbPhases /\ [Next]_vars => DbPhases'
<1> SUFFICES ASSUME Ind, DbPhases, [Next]_vars PROVE DbPhases'
  OBVIOUS
<1>t. phase \in [Calls -> Phases]
  BY DEF Ind, TypeOK
<1>u. CASE UNCHANGED vars
  BY <1>u DEF vars, DbPhases
<1>m. ASSUME NEW c \in Calls, NEW p, phase' = [phase EXCEPT ![c] = p], request' = request,
             request[c].tool \in DbTools => p \in {"querying", "settled"}
      PROVE  DbPhases'
  BY <1>m, <1>t DEF DbPhases
<1>s. ASSUME NEW c \in Calls, NEW answer, Conclude(c, answer) PROVE DbPhases'
  BY <1>s, <1>m DEF Conclude
<1>1. ASSUME NEW c \in Calls, Admit(c) PROVE DbPhases'
  <2>1. request[c].tool \in DbTools => FirstAwait(request[c]) = "querying"
    BY DEF FirstAwait, DbTools, ChildTools
  <2>2. QED
    BY <1>1, <1>m, <2>1 DEF Admit
<1>2. ASSUME NEW c \in Calls, Refuse(c) PROVE DbPhases'
  BY <1>2, <1>m DEF Refuse
<1>3. ASSUME NEW c \in Calls, HandleAtOnce(c) \/ StartFails(c) \/ ChildExits(c) \/ ChildReaped(c)
                              \/ QueryEnds(c) \/ PublishEnds(c) \/ Cancel(c)
      PROVE  DbPhases'
  BY <1>3, <1>s DEF HandleAtOnce, StartFails, ChildExits, ChildReaped, QueryEnds, PublishEnds,
                    Cancel, Settle
<1>4. ASSUME NEW c \in Calls, ChildStarts(c) \/ TimerFires(c) PROVE DbPhases'
  BY <1>4, <1>m DEF ChildStarts, TimerFires, DbPhases
<1>5. ASSUME NEW c \in Calls, LookupEnds(c) PROVE DbPhases'
  BY <1>5, <1>s, <1>m DEF LookupEnds, Settle, DbPhases
<1>6. ASSUME NEW c \in Calls, OrphanEnds(c) PROVE DbPhases'
  BY <1>6 DEF OrphanEnds, DbPhases
<1>7. QED
  BY <1>u, <1>1, <1>2, <1>3, <1>4, <1>5, <1>6 DEF Next, Handler, Idle

(* Whatever else the server handles, a call of a database tool is new,     *)
(* waits for its query, or is settled (server.py, _execute_tool).          *)
THEOREM DbCallsQuery == Spec => []DbPhases
<1>1. Init => DbPhases
  BY DEF Init, DbPhases
<1>2. QED
  BY <1>1, NextDbPhases, Inductive, PTL DEF Spec

(* What a step of call c does to its query and to no other. *)
LEMMA QueryMoves ==
  ASSUME NEW c \in Calls, request' = request, dbUrl' = dbUrl,
         \A d \in Calls \ {c} : phase'[d] = phase[d] /\ reply'[d] = reply[d]
  PROVE  /\ QueryState'[c] = QueryState[c] => UNCHANGED Query!vars
         /\ Query!Moves(c, QueryState'[c])
<1>1. QueryTool' = QueryTool
  BY DEF QueryTool
<1>2. \A d \in Calls \ {c} : d \in Queries' <=> d \in Queries
  BY DEF Queries, Rejected, SafeArgs
<1>3. \A d \in Calls \ {c} : QueryState'[d] = QueryState[d]
  BY <1>2 DEF QueryState
<1>4. /\ QueryState = [d \in Calls |-> QueryState[d]]
      /\ QueryState' = [d \in Calls |-> QueryState'[d]]
  BY Zenon DEF QueryState
<1>5. QueryState' = [QueryState EXCEPT ![c] = QueryState'[c]]
  BY <1>3, <1>4
<1>6. QueryState'[c] = QueryState[c] => QueryState' = QueryState
  BY <1>3, <1>4
<1>7. QED
  BY <1>1, <1>5, <1>6 DEF Query!vars, Query!Moves

(* A call that concludes ends its query, or it never queried. *)
LEMMA QueryConcludes ==
  ASSUME Ind, NEW c \in Calls, NEW answer \in HandlerAnswers \cup {"cancelled"},
         Conclude(c, answer), phase[c] # "settled",
         c \in Queries => phase[c] = "querying"
  PROVE  [Query!Next]_Query!vars
<1>0. TypeOK /\ reply \in [Calls -> Replies] /\ phase \in [Calls -> Phases]
  BY DEF Ind, TypeOK
<1>1. PICK r \in HandlerAnswers \cup {"sdk_error", "cancelled"} :
        /\ reply' = [reply EXCEPT ![c] = r]
        /\ r \in HandlerAnswers => r = answer
  BY <1>0, ConcludeEffect
<1>2. phase' = [phase EXCEPT ![c] = "settled"] /\ request' = request /\ dbUrl' = dbUrl
  BY <1>0, ConcludeEffect
<1>3. \A d \in Calls \ {c} : phase'[d] = phase[d] /\ reply'[d] = reply[d]
  BY <1>0, <1>1, <1>2
<1>4. reply[c] = "none"
  BY DEF Ind, SettledMeansReplied
<1>5. phase'[c] = "settled" /\ reply'[c] = r
  BY <1>0, <1>1, <1>2
<1>6. c \in Queries' <=> c \in Queries
  BY <1>1, <1>2, <1>4, <1>5 DEF Queries, Rejected, SafeArgs, HandlerAnswers
<1>7. CASE c \notin Queries
  BY <1>2, <1>3, <1>6, <1>7, QueryMoves DEF QueryState
<1>8. CASE c \in Queries
  <2>1. QueryState[c] = "querying"
    BY <1>8 DEF QueryState
  <2>2. QueryState'[c] = IF r = "sdk_error" THEN "execution_failed" ELSE r
    BY <1>5, <1>6, <1>8 DEF QueryState
  <2>3. Query!Moves(c, QueryState'[c])
    BY <1>2, <1>3, QueryMoves
  <2>4. QueryState'[c] \in Query!Answers
    BY <2>2 DEF Query!Answers, HandlerAnswers
  <2>5. Query!End(c)
    BY <2>1, <2>3, <2>4 DEF Query!End
  <2>6. QED
    BY <2>5 DEF Query!Next
<1>9. QED
  BY <1>7, <1>8

(* Every step of the server begins or ends a query or leaves all alone. *)
LEMMA QueryStep == Ind /\ DbPhases /\ [Next]_vars => [Query!Next]_Query!vars
<1> SUFFICES ASSUME Ind, DbPhases, [Next]_vars PROVE [Query!Next]_Query!vars
  OBVIOUS
<1>t. phase \in [Calls -> Phases] /\ reply \in [Calls -> Replies]
  BY DEF Ind, TypeOK
<1>n. \A c \in Calls : c \in Queries => phase[c] \in {"new", "querying", "settled"}
  BY DEF DbPhases, Queries, Rejected, SafeArgs
<1>m. ASSUME NEW c \in Calls, NEW p, request' = request, dbUrl' = dbUrl, reply' = reply,
             phase' = [phase EXCEPT ![c] = p], c \notin Queries
      PROVE  UNCHANGED Query!vars
  <2>1. \A d \in Calls \ {c} : phase'[d] = phase[d] /\ reply'[d] = reply[d]
    BY <1>m, <1>t
  <2>2. c \notin Queries'
    BY <1>m DEF Queries, Rejected, SafeArgs
  <2>3. QueryState'[c] = QueryState[c]
    BY <1>m, <2>2 DEF QueryState
  <2>4. QED
    BY <1>m, <2>1, <2>3, QueryMoves
<1>u. ASSUME request' = request, dbUrl' = dbUrl, reply' = reply, phase' = phase
      PROVE  UNCHANGED Query!vars
  BY <1>u DEF Query!vars, QueryTool, QueryState, Queries, Rejected, SafeArgs
<1>1. ASSUME NEW c \in Calls, Refuse(c) PROVE UNCHANGED Query!vars
  <2>1. \A d \in Calls \ {c} : phase'[d] = phase[d] /\ reply'[d] = reply[d]
    BY <1>1, <1>t DEF Refuse
  <2>2. reply'[c] = "busy"
    BY <1>1, <1>t DEF Refuse
  <2>3. QueryState'[c] = QueryState[c]
    BY <1>1, <2>2 DEF Refuse, QueryState, Queries, Rejected, SafeArgs
  <2>4. QED
    BY <1>1, <2>1, <2>3, QueryMoves DEF Refuse
<1>2. ASSUME NEW c \in Calls, Admit(c) PROVE [Query!Next]_Query!vars
  <2>1. CASE c \in Queries
    <3>1. FirstAwait(request[c]) = "querying"
      BY <2>1 DEF Queries, FirstAwait, DbTools, ChildTools
    <3>2. phase'[c] = "querying" /\ reply'[c] = reply[c]
      BY <1>2, <1>t, <3>1 DEF Admit
    <3>3. \A d \in Calls \ {c} : phase'[d] = phase[d] /\ reply'[d] = reply[d]
      BY <1>2, <1>t DEF Admit
    <3>4. QueryState[c] = "idle"
      BY <1>2 DEF Admit, QueryState
    <3>5. c \in Queries'
      BY <1>2, <2>1, <3>2 DEF Admit, Queries, Rejected, SafeArgs
    <3>6. QueryState'[c] = "querying"
      BY <3>2, <3>5 DEF QueryState
    <3>7. Query!Moves(c, QueryState'[c])
      BY <1>2, <3>3, QueryMoves DEF Admit
    <3>8. Query!Begin(c)
      BY <3>4, <3>6, <3>7 DEF Query!Begin
    <3>9. QED
      BY <3>8 DEF Query!Next
  <2>2. CASE c \notin Queries
    BY <1>2, <2>2, <1>m DEF Admit
  <2>3. QED
    BY <2>1, <2>2
<1>3. ASSUME NEW c \in Calls, HandleAtOnce(c) PROVE [Query!Next]_Query!vars
  <2>1. c \notin Queries
    BY <1>3 DEF HandleAtOnce, EndsAtOnce, Queries, Rejected, SafeArgs, DbTools
  <2>2. QED
    BY <1>3, <2>1, QueryConcludes DEF HandleAtOnce, HandlerAnswers
<1>s. ASSUME NEW c \in Calls, phase[c] \in Waiting \ {"querying"},
             NEW answer \in HandlerAnswers \cup {"cancelled"}, Settle(c, answer)
      PROVE  [Query!Next]_Query!vars
  BY <1>s, <1>n, QueryConcludes DEF Settle, Waiting
<1>4. ASSUME NEW c \in Calls, ChildStarts(c) \/ TimerFires(c) PROVE UNCHANGED Query!vars
  BY <1>4, <1>m, <1>n DEF ChildStarts, TimerFires
<1>5. ASSUME NEW c \in Calls, StartFails(c) PROVE [Query!Next]_Query!vars
  BY <1>5, <1>s DEF StartFails, ChildFailure, HandlerAnswers, Waiting
<1>6. ASSUME NEW c \in Calls, ChildExits(c) PROVE [Query!Next]_Query!vars
  BY <1>6, <1>s DEF ChildExits, ChildAnswers, HandlerAnswers, Waiting
<1>7. ASSUME NEW c \in Calls, ChildReaped(c) PROVE [Query!Next]_Query!vars
  BY <1>7, <1>s DEF ChildReaped, ChildFailure, HandlerAnswers, Waiting
<1>8. ASSUME NEW c \in Calls, QueryEnds(c) PROVE [Query!Next]_Query!vars
  BY <1>8, QueryConcludes DEF QueryEnds, Settle
<1>9. ASSUME NEW c \in Calls, LookupEnds(c) PROVE [Query!Next]_Query!vars
  BY <1>9, <1>s, <1>m, <1>n DEF LookupEnds, HandlerAnswers, Waiting
<1>10. ASSUME NEW c \in Calls, PublishEnds(c) PROVE [Query!Next]_Query!vars
  BY <1>10, <1>s DEF PublishEnds, HandlerAnswers, Waiting
<1>11. ASSUME NEW c \in Calls, Cancel(c) PROVE [Query!Next]_Query!vars
  <2>1. c \in Queries => phase[c] = "querying"
    BY <1>11, <1>n DEF Cancel, Waiting
  <2>2. QED
    BY <1>11, <2>1, QueryConcludes DEF Cancel, Settle, Waiting
<1>12. ASSUME NEW c \in Calls, OrphanEnds(c) PROVE UNCHANGED Query!vars
  BY <1>12, <1>u DEF OrphanEnds
<1>13. QED
  BY <1>u, <1>1, <1>2, <1>3, <1>4, <1>5, <1>6, <1>7, <1>8, <1>9, <1>10, <1>11, <1>12
  DEF Next, Handler, Idle, vars

(* The server uses the database as QueryWait says a query goes, and so as  *)
(* ReadonlySession makes it go: one wait, one answer, taken as it is, and  *)
(* not begun again.                                                        *)
THEOREM QueriesAsPromised == Spec => CountsOnQueryWait
<1>1. Init => Query!Init
  BY DEF Init, Query!Init, QueryTool, QueryState
<1>2. QED
  BY <1>1, Inductive, DbCallsQuery, QueryStep, PTL DEF Spec, CountsOnQueryWait, Query!Spec
=============================================================================
