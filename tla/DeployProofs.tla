---------------------------- MODULE DeployProofs ----------------------------
(***************************************************************************)
(* What the deployment workflows guarantee for any number of releases.     *)
(* The theorems on the live release are proved for hosts where no run      *)
(* deploys it; the others need no such rule.                               *)
(***************************************************************************)
EXTENDS Deploy, TLAPS

(* What has a result has been pushed, and what waits is recorded as such. *)
QueueInd ==
  /\ head \in 0 .. N /\ pending \in 0 .. N /\ running \in 0 .. N
  /\ result \in [1 .. N -> Ended \cup {"none", "queued", "running"}]
  /\ \A r \in 1 .. N : result[r] = "running" <=> r = running
  /\ \A r \in 1 .. N : result[r] # "none" => r <= head
  /\ pending # 0 => result[pending] = "queued"

RunInd ==
  /\ workflow \in {"main", "demo"}
  /\ step \in Steps \cup {"idle"}
  /\ step = "idle" <=> running = 0

HostInd ==
  /\ prev \in 0 .. N /\ current \in 0 .. N /\ before \in 0 .. N
  /\ disk \in [1 .. N -> {"absent", "broken", "installed"}]
  /\ entry \in BOOLEAN /\ alerting \in BOOLEAN
  /\ smoked \subseteq 1 .. N

TypeInd == QueueInd /\ RunInd /\ HostInd

LEMMA TypesHold == TypeInd => TypeOK
<1> SUFFICES ASSUME TypeInd PROVE TypeOK
  OBVIOUS
<1>1. entry \in BOOLEAN /\ alerting \in BOOLEAN
  BY Zenon DEF TypeInd, HostInd
<1>2. QED
  BY <1>1 DEF TypeInd, QueueInd, RunInd, HostInd, TypeOK, Releases, None

LEMMA InitType == Init => TypeInd
<1> SUFFICES ASSUME Init PROVE TypeInd
  OBVIOUS
<1>1. /\ head = 0 /\ pending = 0 /\ running = 0 /\ before = 0 /\ step = "idle"
      /\ prev = 0 /\ current = 0 /\ smoked = {} /\ 0 \in 0 .. N
  BY DeployAssumption DEF Init, None
<1>2. QueueInd
  <2>1. result = [r \in 1 .. N |-> "none"]
    BY DEF Init, Releases
  <2>2. QED
    BY <1>1, <2>1 DEF QueueInd
<1>3. RunInd
  BY <1>1 DEF RunInd, Init
<1>4. HostInd
  <2>1. entry \in BOOLEAN /\ alerting \in BOOLEAN
    BY Zenon DEF Init
  <2>2. disk = [r \in 1 .. N |-> "absent"]
    BY DEF Init, Releases
  <2>3. QED
    BY <1>1, <2>1, <2>2 DEF HostInd
<1>5. QED
  BY <1>2, <1>3, <1>4 DEF TypeInd

-----------------------------------------------------------------------------
(* The queue. *)

(* What waits or runs is a release that has been pushed, and not the same. *)
LEMMA QueuePushed ==
  ASSUME QueueInd
  PROVE  /\ running # 0 => running \in 1 .. N /\ running <= head
         /\ pending # 0 => pending \in 1 .. N /\ pending <= head /\ pending # running
  BY DeployAssumption DEF QueueInd

LEMMA ContinueKeeps ==
  ASSUME QueueInd, RunInd, running # None, NEW s \in Steps, Continue(s)
  PROVE  QueueInd' /\ RunInd'
  BY DEF QueueInd, RunInd, Continue, github, None, Steps

LEMMA EndKeeps ==
  ASSUME QueueInd, RunInd, running # None, NEW how \in Ended, End(how)
  PROVE  QueueInd' /\ RunInd'
<1>1. running \in 1 .. N /\ running <= head /\ (pending # 0 => pending \in 1 .. N /\ pending # running)
  BY QueuePushed DEF None
<1>2. /\ running' = 0 /\ step' = "idle"
      /\ result' = [result EXCEPT ![running] = how]
      /\ UNCHANGED <<workflow, head, pending>>
  BY DEF End, None, github
<1>3. how # "running"
  BY DEF Ended
<1>4. result' \in [1 .. N -> Ended \cup {"none", "queued", "running"}]
  BY <1>1, <1>2 DEF QueueInd
<1>5. \A r \in 1 .. N : result'[r] = "running" <=> r = running'
  <2> SUFFICES ASSUME NEW r \in 1 .. N PROVE result'[r] # "running"
    BY <1>2
  <2>1. QED
    BY <1>2, <1>3 DEF QueueInd
<1>6. \A r \in 1 .. N : result'[r] # "none" => r <= head
  BY <1>1, <1>2 DEF QueueInd
<1>7. pending # 0 => result'[pending] = "queued"
  BY <1>1, <1>2 DEF QueueInd
<1>8. 0 \in 0 .. N
  BY DeployAssumption
<1>9. QED
  BY <1>2, <1>4, <1>5, <1>6, <1>7, <1>8 DEF QueueInd, RunInd

LEMMA PushKeeps == ASSUME QueueInd, Push PROVE QueueInd'
<1>1. /\ head + 1 \in 1 .. N /\ head' = head + 1 /\ pending' = head + 1 /\ running' = running
      /\ head \in 0 .. N
  BY DeployAssumption DEF Push, QueueInd
<1>2. result' = [r \in 1 .. N |-> IF r = head + 1 THEN "queued"
                                   ELSE IF r = pending THEN "cancelled" ELSE result[r]]
  BY DEF Push, Releases
<1>3. result' \in [1 .. N -> Ended \cup {"none", "queued", "running"}]
  BY <1>2 DEF QueueInd, Ended
<1>4. running # head + 1 /\ (pending # 0 => pending # running /\ pending <= head)
  BY QueuePushed, <1>1 
<1>5. \A r \in 1 .. N : result'[r] = "running" <=> r = running
  <2> SUFFICES ASSUME NEW r \in 1 .. N PROVE result'[r] = "running" <=> r = running
    OBVIOUS
  <2>1. QED
    BY <1>2, <1>4 DEF QueueInd
<1>6. \A r \in 1 .. N : result'[r] # "none" => r <= head + 1
  <2> SUFFICES ASSUME NEW r \in 1 .. N, result'[r] # "none", r # head + 1 PROVE r <= head
    BY <1>1
  <2>1. CASE r = pending
    BY <2>1, <1>4
  <2>2. CASE r # pending
    BY <2>2, <1>2 DEF QueueInd
  <2>3. QED
    BY <2>1, <2>2
<1>7. result'[head + 1] = "queued"
  BY <1>1, <1>2
<1>8. head + 1 \in 0 .. N
  BY <1>1
<1>9. QED
  BY <1>1, <1>3, <1>5, <1>6, <1>7, <1>8 DEF QueueInd

LEMMA RerunKeeps == ASSUME QueueInd, NEW r \in Releases, Rerun(r) PROVE QueueInd'
<1>1. /\ pending' = r /\ r \in 1 .. N /\ r \in 0 .. N /\ result[r] \in Ended
      /\ result' = [result EXCEPT ![r] = "queued"]
      /\ UNCHANGED <<head, running>>
  BY DeployAssumption DEF Rerun, Releases, github, history
<1>2. result[r] # "none" /\ result[r] # "running"
  BY <1>1 DEF Ended
<1>3. r <= head /\ r # running
  BY <1>1, <1>2 DEF QueueInd
<1>4. result' \in [1 .. N -> Ended \cup {"none", "queued", "running"}]
  BY <1>1 DEF QueueInd
<1>5. /\ \A q \in 1 .. N : result'[q] = "running" <=> q = running
      /\ \A q \in 1 .. N : result'[q] # "none" => q <= head
      /\ result'[r] = "queued"
  BY <1>1, <1>3 DEF QueueInd
<1>6. QED
  BY <1>1, <1>4, <1>5 DEF QueueInd

LEMMA BeginKeeps == ASSUME QueueInd, RunInd, Begin PROVE QueueInd' /\ RunInd'
<1>1. /\ pending \in 1 .. N /\ pending <= head /\ running = 0
      /\ running' = pending /\ pending' = 0 /\ step' = "check"
      /\ result' = [result EXCEPT ![pending] = "running"]
      /\ UNCHANGED <<workflow, head>>
  BY QueuePushed DEF Begin, None, github
<1>2. result' \in [1 .. N -> Ended \cup {"none", "queued", "running"}]
  BY <1>1 DEF QueueInd
<1>3. /\ \A r \in 1 .. N : result'[r] = "running" <=> r = running'
      /\ \A r \in 1 .. N : result'[r] # "none" => r <= head
  BY <1>1 DEF QueueInd
<1>4. 0 \in 0 .. N
  BY DeployAssumption
<1>5. QED
  BY <1>1, <1>2, <1>3, <1>4 DEF QueueInd, RunInd, Steps

LEMMA CancelPendingKeeps == ASSUME QueueInd, CancelPending PROVE QueueInd'
<1>1. /\ pending \in 1 .. N /\ pending <= head /\ pending # running
      /\ pending' = 0 /\ result' = [result EXCEPT ![pending] = "cancelled"]
      /\ UNCHANGED <<head, running>>
  BY QueuePushed DEF CancelPending, None, github
<1>2. result' \in [1 .. N -> Ended \cup {"none", "queued", "running"}]
  BY <1>1 DEF QueueInd, Ended
<1>3. /\ \A r \in 1 .. N : result'[r] = "running" <=> r = running
      /\ \A r \in 1 .. N : result'[r] # "none" => r <= head
  BY <1>1 DEF QueueInd
<1>4. 0 \in 0 .. N
  BY DeployAssumption
<1>5. QED
  BY <1>1, <1>2, <1>3, <1>4 DEF QueueInd

(* A step of a run goes on to another step or ends the run. *)
LEMMA RunGoesOn ==
  ASSUME Run
  PROVE  running # None /\ ((\E s \in Steps : Continue(s)) \/ (\E how \in Ended : End(how)))
<1>1. CASE Check \/ Recheck
  BY <1>1 DEF Check, Recheck, Guard, At, Steps, Ended
<1>2. CASE Prepare \/ Clean \/ Unpack \/ Bootstrap \/ Smoke \/ SavePrev \/ Link \/ LinkEntry \/ Relink \/ RelinkEntry
  BY <1>2 DEF Prepare, Clean, Unpack, Bootstrap, Smoke, SavePrev, Link, LinkEntry, Relink, RelinkEntry, At, Steps
<1>3. CASE Verify \/ InstallCron
  BY <1>3 DEF Verify, InstallCron, At, Steps, Ended
<1>4. CASE Fails
  BY <1>4 DEF Fails, Steps, Ended
<1>5. CASE Remove \/ RemoveFails("failed") \/ RemoveFails("cancelled") \/ Cancel
  BY <1>5 DEF Remove, RemoveFails, Cancel, At, Ended
<1>6. QED
  BY <1>1, <1>2, <1>3, <1>4, <1>5 DEF Run

LEMMA RunKeepsHost == ASSUME TypeInd, Run PROVE HostInd'
<1>1. running \in 1 .. N /\ before' = before
  <2>1. before' = before
    BY RunGoesOn DEF Continue, End
  <2>2. running \in 1 .. N
    BY RunGoesOn, QueuePushed DEF TypeInd, None
  <2>3. QED
    BY <2>1, <2>2
<1>2. CASE UNCHANGED <<prev, host>> /\ smoked' \in {smoked, smoked \cup {running}}
  BY <1>1, <1>2 DEF TypeInd, HostInd, host
<1>3. CASE UNCHANGED <<prev, current, entry, alerting>>
             /\ (\E d \in {"absent", "broken", "installed"} : disk' = [disk EXCEPT ![running] = d])
             /\ smoked' \in {smoked, smoked \ {running}}
  <2>1. disk' \in [1 .. N -> {"absent", "broken", "installed"}]
    BY <1>3 DEF TypeInd, HostInd
  <2>2. UNCHANGED <<entry, alerting>>
    BY <1>3
  <2>3. entry' \in BOOLEAN /\ alerting' \in BOOLEAN
    BY <2>2 DEF TypeInd, HostInd
  <2>4. QED
    BY <1>1, <1>3, <2>1, <2>3 DEF TypeInd, HostInd
<1>4. CASE UNCHANGED <<disk, smoked>> /\ prev' \in {prev, current} /\ current' \in {current, prev, running}
             /\ entry' \in {TRUE, entry} /\ alerting' \in {TRUE, alerting}
  <2>1. entry' \in BOOLEAN /\ alerting' \in BOOLEAN
    BY <1>4 DEF TypeInd, HostInd
  <2>2. running \in 0 .. N
    BY DEF TypeInd, QueueInd
  <2>3. QED
    BY <1>1, <1>4, <2>1, <2>2 DEF TypeInd, HostInd
<1>5. CASE Check \/ Recheck \/ Bootstrap \/ Smoke \/ Verify \/ Fails \/ Cancel
  BY <1>2, <1>5 DEF Check, Recheck, Guard, Bootstrap, Smoke, Verify, Fails, Cancel
<1>6. CASE Prepare \/ Clean \/ Unpack \/ Remove \/ RemoveFails("failed") \/ RemoveFails("cancelled")
  <2>1. CASE Prepare
    BY <1>1, <1>3, <2>1 DEF Prepare, TypeInd, HostInd
  <2>2. CASE Clean \/ Unpack \/ Remove
    BY <1>3, <2>2 DEF Clean, Unpack, Remove
  <2>3. CASE RemoveFails("failed") \/ RemoveFails("cancelled")
    BY <1>3, <2>3 DEF RemoveFails
  <2>4. QED
    BY <1>6, <2>1, <2>2, <2>3
<1>7. CASE SavePrev \/ Link \/ LinkEntry \/ InstallCron \/ Relink \/ RelinkEntry
  BY <1>4, <1>7 DEF SavePrev, Link, LinkEntry, InstallCron, Relink, RelinkEntry, host
<1>8. QED
  BY <1>5, <1>6, <1>7 DEF Run

LEMMA NextType == TypeInd /\ [Next]_vars => TypeInd'
<1> SUFFICES ASSUME TypeInd, [Next]_vars PROVE TypeInd'
  OBVIOUS
<1>1. CASE Push \/ (\E r \in Releases : Rerun(r)) \/ CancelPending
  <2>1. QueueInd'
    BY <1>1, PushKeeps, RerunKeeps, CancelPendingKeeps DEF TypeInd
  <2>2. UNCHANGED <<workflow, running, step, prev, host, history>>
    BY <1>1 DEF Push, Rerun, CancelPending, github
  <2>3. RunInd' /\ HostInd'
    BY <2>2 DEF TypeInd, RunInd, HostInd, host, history
  <2>4. QED
    BY <2>1, <2>3 DEF TypeInd
<1>2. CASE Begin
  <2>1. QueueInd' /\ RunInd'
    BY <1>2, BeginKeeps DEF TypeInd
  <2>2. prev' = None /\ before' = current /\ UNCHANGED <<host, smoked>>
    BY <1>2 DEF Begin
  <2>3. 0 \in 0 .. N
    BY DeployAssumption
  <2>4. HostInd'
    BY <2>2, <2>3 DEF TypeInd, HostInd, host, None
  <2>5. QED
    BY <2>1, <2>4 DEF TypeInd
<1>3. CASE Run
  BY <1>3, RunGoesOn, ContinueKeeps, EndKeeps, RunKeepsHost DEF TypeInd
<1>4. CASE UNCHANGED vars
  BY <1>4 DEF TypeInd, QueueInd, RunInd, HostInd, vars, github, host, history
<1>5. QED
  BY <1>1, <1>2, <1>3, <1>4 DEF Next

(* Every variable holds a value the workflows can give it, and there is *)
(* never more than one run.                                             *)
THEOREM TypeCorrect == Spec => []TypeOK
<1>1. TypeInd /\ [Next]_vars => TypeInd'
  BY NextType
<1>2. QED
  BY InitType, <1>1, TypesHold, PTL DEF Spec

-----------------------------------------------------------------------------
(* The live release. *)

Early == {"check", "prepare", "clean", "unpack", "bootstrap", "smoke", "recheck", "save",
          "link", "discard"}
Late == {"entry", "verify", "cron"}

Good(r) == disk[r] = "installed" /\ r \in smoked

(* The run that waits is not for the live release, nor for the one its *)
(* predecessor may go back to.                                         *)
WaitInd ==
  /\ current <= head /\ before <= head
  /\ pending # 0 => pending # current
  /\ pending # 0 /\ running # 0 => pending # before

(* What is live, and what the run knows of it, at each step. *)
StepInd ==
  /\ step \in Early => current # running /\ current = before
  /\ step = "bootstrap" \/ step = "smoke" => disk[running] = "installed"
  /\ step \in {"recheck", "save", "link"} => Good(running)
  /\ step = "link" => prev = before
  /\ step \in Late => current = running
  /\ step = "cron" => entry
  /\ step \in Late \cup {"relink"} => prev = before /\ prev # running /\ (prev # 0 => Good(prev))
  /\ step = "relink" => prev # 0 /\ current \in {prev, running}
  /\ step \in {"reentry", "remove"} => current = prev /\ prev = before /\ prev # running /\ prev # 0

LiveInd == LiveIntact /\ WaitInd /\ StepInd

LEMMA InitLive == Init => LiveInd
<1> SUFFICES ASSUME Init PROVE LiveInd
  OBVIOUS
<1>1. head = 0 /\ pending = 0 /\ before = 0 /\ current = 0 /\ step = "idle"
  BY DEF Init, None
<1>2. LiveIntact
  <2>1. ~entry /\ ~alerting
    BY Zenon DEF Init
  <2>2. QED
    BY <1>1, <2>1 DEF LiveIntact, None
<1>3. QED
  BY <1>1, <1>2 DEF LiveInd, WaitInd, StepInd, Early, Late

(* The queue moves and the host does not. *)
LEMMA QueueKeepsLive ==
  ASSUME TypeInd, LiveInd, ~RedeployLive,
         Push \/ (\E r \in Releases : Rerun(r)) \/ CancelPending
  PROVE  LiveInd'
<1>1. UNCHANGED <<running, step, prev, disk, current, entry, alerting, smoked, before>>
  BY DEF Push, Rerun, CancelPending, host, history
<1>2. LiveIntact' /\ StepInd'
  BY <1>1 DEF LiveInd, LiveIntact, StepInd, Works, Good
<1>3. WaitInd'
  <2>1. CASE Push
    <3>1. head' = head + 1 /\ pending' = head + 1 /\ head \in 0 .. N
      BY <2>1 DEF Push, TypeInd, QueueInd
    <3>2. QED
      BY <1>1, <3>1 DEF LiveInd, WaitInd, TypeInd, HostInd
  <2>2. CASE \E r \in Releases : Rerun(r)
    <3>1. running = 0 /\ pending' # current /\ head' = head
      BY <2>2 DEF Rerun, None, github
    <3>2. QED
      BY <1>1, <3>1 DEF LiveInd, WaitInd
  <2>3. CASE CancelPending
    BY <1>1, <2>3 DEF CancelPending, github, None, LiveInd, WaitInd
  <2>4. QED
    BY <2>1, <2>2, <2>3
<1>4. QED
  BY <1>2, <1>3 DEF LiveInd

LEMMA BeginKeepsLive == ASSUME TypeInd, LiveInd, Begin PROVE LiveInd'
<1>1. /\ pending # 0 /\ running' = pending /\ pending' = 0 /\ step' = "check" /\ before' = current
      /\ UNCHANGED <<head, disk, current, entry, alerting, smoked>>
  BY DEF Begin, None, github, host
<1>2. LiveIntact'
  BY <1>1 DEF LiveInd, LiveIntact, Works
<1>3. QED
  BY <1>1, <1>2 DEF LiveInd, WaitInd, StepInd, Early, Late

(* A run leaves the queue alone. *)
LEMMA RunKeepsQueue == ASSUME Run PROVE UNCHANGED <<workflow, head, pending, before>>
  BY RunGoesOn DEF Continue, End, github

LEMMA RunPushed == ASSUME TypeInd, Run PROVE running \in 1 .. N /\ running # 0 /\ running <= head /\ pending # running
  BY RunGoesOn, QueuePushed, DeployAssumption DEF TypeInd, None

(* After the end of a run nothing is asked of the steps. *)
LEMMA EndKeepsLive ==
  ASSUME TypeInd, LiveInd, Run, LiveIntact', current' = current, NEW how \in Ended, End(how)
  PROVE  LiveInd'
<1>1. running' = 0 /\ step' = "idle"
  BY DEF End, None
<1>2. WaitInd'
  BY <1>1, RunKeepsQueue DEF LiveInd, WaitInd
<1>3. StepInd'
  BY <1>1 DEF StepInd, Early, Late
<1>4. QED
  BY <1>2, <1>3 DEF LiveInd

(* The steps that leave the host alone. *)
LEMMA WatchingKeepsLive ==
  ASSUME TypeInd, LiveInd, Run, Check \/ Recheck \/ Bootstrap \/ Smoke \/ Verify \/ Fails \/ Cancel \/ SavePrev
  PROVE  LiveInd'
<1>1. UNCHANGED <<disk, current, entry, alerting>> /\ smoked' \in {smoked, smoked \cup {running}}
  BY DEF Check, Recheck, Guard, Bootstrap, Smoke, Verify, Fails, Cancel, SavePrev, host
<1>2. LiveIntact'
  BY <1>1 DEF LiveInd, LiveIntact, Works
<1>3. CASE \E how \in Ended : End(how)
  BY <1>1, <1>2, <1>3, EndKeepsLive
<1>4. CASE \E s \in Steps : Continue(s)
  <2>1. running' = running /\ \A r : Good(r) => Good(r)'
    BY <1>1, <1>4 DEF Continue, Good
  <2>2. WaitInd'
    BY <1>1, <2>1, RunKeepsQueue DEF LiveInd, WaitInd
  <2>3. UNCHANGED <<disk, current, before, running>> /\ running # 0
    BY <1>1, <2>1, RunKeepsQueue, RunPushed
  <2>4. StepInd'
    <3>1. CASE Check
      BY <2>3, <1>4, <3>1 DEF Check, At, Guard, Continue, End, LiveInd, StepInd, Early, Late, None
    <3>2. CASE Bootstrap
      BY <2>3, <3>2 DEF Bootstrap, At, Continue, LiveInd, StepInd, Early, Late
    <3>3. CASE Smoke
      BY <2>3, <3>3 DEF Smoke, At, Continue, LiveInd, StepInd, Early, Late, Good
    <3>4. CASE Recheck
      BY <2>1, <2>3, <3>4 DEF Recheck, At, Guard, Continue, End, LiveInd, StepInd, Early, Late, None
    <3>5. CASE SavePrev
      BY <2>1, <2>3, <3>5 DEF SavePrev, At, Continue, LiveInd, StepInd, Early, Late
    <3>6. CASE Verify
      <4>1. entry'
        BY <1>1, <3>6 DEF Verify, Works
      <4>2. QED
        BY <2>1, <2>3, <3>6, <4>1 DEF Verify, At, Continue, End, LiveInd, StepInd, Early, Late, None
    <3>7. CASE Fails
      BY <2>1, <2>3, <3>7
         DEF Fails, Continue, End, LiveInd, LiveIntact, StepInd, Early, Late, Good, None
    <3>8. CASE Cancel
      BY <2>3, <3>8 DEF Cancel, End, None
    <3>9. QED
      BY <3>1, <3>2, <3>3, <3>4, <3>5, <3>6, <3>7, <3>8
  <2>5. QED
    BY <1>2, <2>2, <2>4 DEF LiveInd
<1>5. QED
  BY <1>3, <1>4, RunGoesOn

LEMMA UploadKeepsLive ==
  ASSUME TypeInd, LiveInd, Prepare \/ Clean \/ Unpack, Run
  PROVE  LiveInd'
<1>1. /\ running \in 1 .. N /\ running # 0 /\ current # running /\ current = before /\ running' = running
      /\ UNCHANGED <<prev, current, entry, alerting, before, pending, head>>
  BY RunPushed, RunKeepsQueue DEF Prepare, Clean, Unpack, At, Continue, LiveInd, StepInd, Early
<1>2. current # 0 => current \in 1 .. N
  BY DEF TypeInd, HostInd
<1>3. (\E d : disk' = [disk EXCEPT ![running] = d]) /\ smoked' \in {smoked, smoked \ {running}}
  BY DEF Prepare, Clean, Unpack
<1>4. disk'[current] = disk[current] \/ current = 0
  BY <1>1, <1>2, <1>3 DEF TypeInd, HostInd
<1>5. LiveIntact'
  BY <1>1, <1>3, <1>4 DEF LiveInd, LiveIntact, Works, None
<1>6. WaitInd'
  BY <1>1 DEF LiveInd, WaitInd
<1>7. StepInd'
  <2>1. Unpack => disk'[running] = "installed"
    BY <1>1 DEF Unpack, TypeInd, HostInd
  <2>2. QED
    BY <1>1, <2>1 DEF Prepare, Clean, Unpack, Continue, StepInd, Early, Late
<1>8. QED
  BY <1>5, <1>6, <1>7 DEF LiveInd

LEMMA SwitchKeepsLive ==
  ASSUME TypeInd, LiveInd, Run, Link \/ LinkEntry \/ InstallCron \/ Relink \/ RelinkEntry
  PROVE  LiveInd'
<1>1. /\ running # 0 /\ running <= head /\ pending # running /\ before <= head
      /\ (pending # 0 => pending # before) /\ UNCHANGED <<disk, smoked, pending, head, before>>
  BY RunPushed, RunKeepsQueue
     DEF Link, LinkEntry, InstallCron, Relink, RelinkEntry, LiveInd, WaitInd
<1>2. CASE Link
  <2>1. /\ step = "link" /\ current' = running /\ running' = running /\ step' = "entry"
        /\ UNCHANGED <<prev, entry, alerting>>
    BY <1>2 DEF Link, At, Continue
  <2>2. LiveIntact'
    BY <1>1, <2>1 DEF LiveInd, LiveIntact, StepInd, Works, Good, None
  <2>3. WaitInd'
    BY <1>1, <2>1 DEF WaitInd
  <2>4. StepInd'
    BY <1>1, <2>1 DEF LiveInd, LiveIntact, StepInd, Good, None, Early, Late
  <2>5. QED
    BY <2>2, <2>3, <2>4 DEF LiveInd
<1>3. CASE Relink
  <2>1. /\ step = "relink" /\ current' = prev /\ running' = running /\ step' = "reentry"
        /\ UNCHANGED <<prev, entry, alerting>>
    BY <1>3 DEF Relink, At, Continue
  <2>2. prev # 0 /\ prev = before /\ prev # running /\ Good(prev)
    BY <2>1 DEF LiveInd, StepInd, Late
  <2>3. LiveIntact'
    BY <1>1, <2>1, <2>2 DEF LiveInd, LiveIntact, Works, Good, None
  <2>4. WaitInd'
    BY <1>1, <2>1, <2>2 DEF WaitInd
  <2>5. StepInd'
    BY <1>1, <2>1, <2>2 DEF StepInd, Early, Late
  <2>6. QED
    BY <2>3, <2>4, <2>5 DEF LiveInd
<1>4. CASE LinkEntry \/ RelinkEntry
  <2>1. entry' /\ running' = running /\ UNCHANGED <<prev, current, alerting>>
    BY <1>4 DEF LinkEntry, RelinkEntry, Continue
  <2>2. current # 0
    BY <1>1, <1>4 DEF LinkEntry, RelinkEntry, At, LiveInd, StepInd, Late
  <2>3. LiveIntact'
    BY <1>1, <2>1, <2>2 DEF LiveInd, LiveIntact, Works, None
  <2>4. WaitInd'
    BY <1>1, <2>1 DEF LiveInd, WaitInd
  <2>5. StepInd'
    BY <1>1, <1>4, <2>1 DEF LinkEntry, RelinkEntry, At, Continue, LiveInd, StepInd, Good, Early, Late
  <2>6. QED
    BY <2>3, <2>4, <2>5 DEF LiveInd
<1>5. CASE InstallCron
  <2>1. step = "cron" /\ UNCHANGED <<current, entry>> /\ (\E how \in Ended : End(how))
    BY <1>5 DEF InstallCron, At, Ended
  <2>2. entry /\ current # 0
    BY <1>1, <2>1 DEF LiveInd, StepInd, Late
  <2>3. LiveIntact'
    BY <1>1, <2>1, <2>2 DEF LiveInd, LiveIntact, Works, None
  <2>4. QED
    BY <2>1, <2>3, EndKeepsLive
<1>6. QED
  BY <1>2, <1>3, <1>4, <1>5

LEMMA RemoveKeepsLive ==
  ASSUME TypeInd, LiveInd, Run, Remove \/ RemoveFails("failed") \/ RemoveFails("cancelled")
  PROVE  LiveInd' /\ disk'[current] = disk[current] /\ current' = current
<1>1. /\ running \in 1 .. N /\ current # running
      /\ UNCHANGED <<prev, current, entry, alerting>> /\ (\E how \in Ended : End(how))
  BY RunPushed DEF Remove, RemoveFails, At, LiveInd, StepInd, Early, Ended
<1>2. (\E d : disk' = [disk EXCEPT ![running] = d]) /\ smoked' = smoked \ {running}
  BY DEF Remove, RemoveFails
<1>3. disk'[current] = disk[current]
  BY <1>1, <1>2 DEF TypeInd, HostInd
<1>4. LiveIntact'
  BY <1>1, <1>2, <1>3 DEF LiveInd, LiveIntact, Works, None
<1>5. QED
  BY <1>1, <1>3, <1>4, EndKeepsLive

LEMMA NextLive == TypeInd /\ LiveInd /\ ~RedeployLive /\ [Next]_vars => LiveInd'
<1> SUFFICES ASSUME TypeInd, LiveInd, ~RedeployLive, [Next]_vars PROVE LiveInd'
  OBVIOUS
<1>1. CASE Push \/ (\E r \in Releases : Rerun(r)) \/ CancelPending
  BY <1>1, QueueKeepsLive
<1>2. CASE Begin
  BY <1>2, BeginKeepsLive
<1>3. CASE Run
  BY <1>3, WatchingKeepsLive, UploadKeepsLive, SwitchKeepsLive, RemoveKeepsLive DEF Run
<1>4. CASE UNCHANGED vars
  <2>1. UNCHANGED <<head, pending, running, step, prev, disk, current, entry, alerting, smoked, before>>
    BY <1>4 DEF vars, github, host, history
  <2>2. QED
    BY <2>1 DEF LiveInd, LiveIntact, Works, WaitInd, StepInd, Good
<1>5. QED
  BY <1>1, <1>2, <1>3, <1>4 DEF Next

LEMMA LiveInductive == ASSUME ~RedeployLive PROVE Spec => [](TypeInd /\ LiveInd)
<1>1. TypeInd /\ LiveInd /\ [Next]_vars => (TypeInd /\ LiveInd)'
  BY NextType, NextLive
<1>2. QED
  BY InitType, InitLive, <1>1, PTL DEF Spec

(* As long as no run deploys the live release, current never points to a  *)
(* release that is missing, half unpacked or not smoked.                  *)
THEOREM LiveStays == ASSUME ~RedeployLive PROVE Spec => []LiveIntact
<1>1. LiveInd => LiveIntact
  BY DEF LiveInd
<1>2. QED
  BY <1>1, LiveInductive, PTL

(* The step that gives a release a result is the last of its run. *)
LEMMA WhoEnds ==
  ASSUME TypeInd, [Next]_vars, NEW r \in Releases, NEW how \in {"ok", "reverted"},
         result[r] # how, result'[r] = how
  PROVE  /\ Run /\ r = running /\ running \in 1 .. N /\ result' # result
         /\ \A h : End(h) => h = how
<1>1. r \in 1 .. N
  BY DEF Releases
<1>2. ~Push
  BY <1>1 DEF Push, TypeInd, QueueInd
<1>3. ~(\E q \in Releases : Rerun(q)) /\ ~CancelPending /\ ~Begin
  BY <1>1 DEF Rerun, CancelPending, Begin, TypeInd, QueueInd, Releases
<1>4. ~UNCHANGED vars
  BY DEF vars
<1>5. Run
  BY <1>2, <1>3, <1>4 DEF Next
<1>6. result' # result
  OBVIOUS
<1>7. \E h \in Ended : End(h)
  BY <1>5, <1>6, RunGoesOn DEF Continue
<1>8. r = running
  BY <1>1, <1>7 DEF End, TypeInd, QueueInd
<1>9. \A h : End(h) => h = how
  BY <1>1, <1>8 DEF End, TypeInd, QueueInd
<1>10. QED
  BY <1>1, <1>5, <1>6, <1>8, <1>9

(* A run that succeeds has put its own release behind the entry point. *)
THEOREM SuccessDeploys == ASSUME ~RedeployLive PROVE Spec => SuccessIsLive
<1>1. ASSUME TypeInd /\ LiveInd, [Next]_vars
      PROVE  [\A r \in Releases : result[r] # "ok" /\ result'[r] = "ok" => current' = r /\ Works']_vars
  <2> SUFFICES ASSUME NEW r \in Releases, result[r] # "ok", result'[r] = "ok"
               PROVE  current' = r /\ Works'
    OBVIOUS
  <2>1. Run /\ r = running /\ running # 0 /\ result' # result /\ (\A h : End(h) => h = "ok")
    BY <1>1, WhoEnds
  <2>2. Verify \/ InstallCron
    BY <2>1 DEF Run, Check, Recheck, Guard, Prepare, Clean, Unpack, Bootstrap, Smoke, SavePrev, Link,
                LinkEntry, Fails, Relink, RelinkEntry, Remove, RemoveFails, Cancel, Continue
  <2>3. current = running /\ UNCHANGED <<disk, current>>
    BY <1>1, <2>2 DEF Verify, InstallCron, At, LiveInd, StepInd, Late, host
  <2>4. entry'
    BY <1>1, <2>2 DEF Verify, InstallCron, At, Works, LiveInd, StepInd, host
  <2>5. disk[current] = "installed"
    BY <1>1, <2>1, <2>3 DEF LiveInd, LiveIntact, None
  <2>6. QED
    BY <2>1, <2>3, <2>4, <2>5 DEF Works, None
<1>2. QED
  BY <1>1, LiveInductive, PTL DEF Spec, SuccessIsLive

(* A completed rollback leaves the release that was live before. *)
THEOREM RevertKeeps == ASSUME ~RedeployLive PROVE Spec => RevertRestores
<1>1. ASSUME TypeInd /\ LiveInd, [Next]_vars
      PROVE  [\A r \in Releases : result[r] # "reverted" /\ result'[r] = "reverted" =>
                /\ current' = before
                /\ before # None => disk'[before] = "installed"]_vars
  <2> SUFFICES ASSUME NEW r \in Releases, result[r] # "reverted", result'[r] = "reverted"
               PROVE  current' = before /\ (before # None => disk'[before] = "installed")
    OBVIOUS
  <2>1. Run /\ result' # result /\ (\A h : End(h) => h = "reverted")
    BY <1>1, WhoEnds
  <2>2. Remove
    BY <2>1 DEF Run, Check, Recheck, Guard, Prepare, Clean, Unpack, Bootstrap, Smoke, SavePrev, Link,
                LinkEntry, Verify, InstallCron, Fails, Relink, RelinkEntry, RemoveFails, Cancel, Continue
  <2>3. current = before
    BY <1>1, <2>2 DEF Remove, At, LiveInd, StepInd, Early
  <2>4. disk'[current] = disk[current] /\ current' = current
    BY <1>1, <2>1, <2>2, RemoveKeepsLive
  <2>5. QED
    BY <1>1, <2>3, <2>4 DEF LiveInd, LiveIntact
<1>2. QED
  BY <1>1, LiveInductive, PTL DEF Spec, RevertRestores

-----------------------------------------------------------------------------
(* The order of the releases. *)

OrderInd ==
  /\ current <= head /\ prev <= head
  /\ workflow = "demo" /\ step \in {"save", "link"} => current <= running

LEMMA NextOrder == TypeInd /\ OrderInd /\ [Next]_vars => OrderInd'
<1> SUFFICES ASSUME TypeInd, OrderInd, [Next]_vars PROVE OrderInd'
  OBVIOUS
<1>1. /\ head \in 0 .. N /\ running \in 0 .. N /\ current \in 0 .. N /\ prev \in 0 .. N
      /\ running <= head
  BY QueuePushed, DeployAssumption DEF TypeInd, QueueInd, HostInd
<1>2. CASE Push
  BY <1>1, <1>2 DEF Push, OrderInd, host
<1>3. CASE (\E r \in Releases : Rerun(r)) \/ CancelPending \/ UNCHANGED vars
  BY <1>3 DEF Rerun, CancelPending, vars, OrderInd, host, github
<1>4. CASE Begin
  BY <1>1, <1>4 DEF Begin, OrderInd, host, github, None
<1>5. CASE Recheck
  BY <1>1, <1>5 DEF Recheck, At, Guard, AtHead, Continue, End, OrderInd, host, github
<1>6. CASE SavePrev \/ Link \/ Relink
  BY <1>1, <1>6 DEF SavePrev, Link, Relink, At, Continue, OrderInd, host, github
<1>7. CASE Check \/ Prepare \/ Clean \/ Unpack \/ Bootstrap \/ Smoke
  BY <1>7 DEF Check, Guard, Prepare, Clean, Unpack, Bootstrap, Smoke, At, Continue, End,
              OrderInd, host, github
<1>8. CASE LinkEntry \/ Verify \/ InstallCron \/ RelinkEntry \/ Fails \/ Cancel
  BY <1>8 DEF LinkEntry, Verify, InstallCron, RelinkEntry, Fails, Cancel, At, Continue, End,
              OrderInd, host, github
<1>9. CASE Remove \/ RemoveFails("failed") \/ RemoveFails("cancelled")
  BY <1>9 DEF Remove, RemoveFails, End, OrderInd, host, github
<1>10. QED
  BY <1>2, <1>3, <1>4, <1>5, <1>6, <1>7, <1>8, <1>9 DEF Next, Run

(* demo is never switched to an older release, even when runs deploy the *)
(* live release.                                                         *)
THEOREM DemoMovesOn == Spec => NeverBackwards
<1>1. Init => OrderInd
  BY DEF Init, OrderInd, None
<1>2. TypeInd /\ OrderInd /\ [Next]_vars => (TypeInd /\ OrderInd)'
  BY NextType, NextOrder
<1>3. ASSUME TypeInd /\ OrderInd, [Next]_vars
      PROVE  [workflow = "demo" /\ At("link") /\ current' # current => current < current']_vars
  <2> SUFFICES ASSUME workflow = "demo", At("link"), current' # current PROVE current < current'
    OBVIOUS
  <2>1. step = "link"
    BY DEF At
  <2>2. Link
    BY <1>3, <2>1 
       DEF Next, Run, Push, Rerun, CancelPending, Begin, Check, Recheck, Guard, Prepare, Clean,
           Unpack, Bootstrap, Smoke, SavePrev, LinkEntry, Verify, InstallCron, Fails, Relink,
           RelinkEntry, Remove, RemoveFails, Cancel, At, host, vars
  <2>3. current <= running /\ current' = running /\ running \in 0 .. N /\ current \in 0 .. N
    BY <1>3, <2>1, <2>2 DEF OrderInd, Link, TypeInd, QueueInd, HostInd
  <2>4. QED
    BY <2>3
<1>4. QED
  BY InitType, <1>1, <1>2, <1>3, PTL DEF Spec, NeverBackwards

-----------------------------------------------------------------------------
(* The promise to those who use the entry point meanwhile. *)

Usable == {r \in smoked : disk[r] = "installed"}
Fallback == IF running # 0 /\ current = running THEN prev ELSE 0

LEMMA InitRollout == Init => Rollout!Init
<1> SUFFICES ASSUME Init PROVE Rollout!Init
  OBVIOUS
<1>1. smoked = {} /\ current = None /\ running = None
  BY DEF Init
<1>2. QED
  BY <1>1 DEF Rollout!Init

LEMMA RolloutStutters ==
  ASSUME UNCHANGED <<disk, smoked, current>>, Fallback' = Fallback
  PROVE  UNCHANGED Rollout!vars
BY DEF Rollout!vars, Fallback, None

(* Only the files of the release that is deployed are touched, and never   *)
(* while it is live.                                                       *)
LEMMA WorksOnOther ==
  ASSUME TypeInd, LiveInd, Run,
         step \in Early \ {"link"} \/ step = "remove",
         \E d : disk' = [disk EXCEPT ![running] = d] \/ disk' = disk,
         smoked' \in {smoked, smoked \cup {running}, smoked \ {running}},
         current' = current, running' \in {0, running}
  PROVE  [Rollout!Next]_(Rollout!vars)
<1>1. running \in 1 .. N /\ running # 0 /\ current # running
  BY RunPushed DEF LiveInd, StepInd, Early
<1>2. Fallback = 0 /\ Fallback' = 0
  BY <1>1 DEF Fallback
<1>3. \A r : r # running => (r \in Usable' <=> r \in Usable)
  <2>1. \A r \in 1 .. N : r # running => disk'[r] = disk[r]
    BY DEF TypeInd, HostInd
  <2>2. \A r : r # running => (r \in smoked' <=> r \in smoked)
    OBVIOUS
  <2>3. smoked \subseteq 1 .. N
    BY DEF TypeInd, HostInd
  <2>4. QED
    BY <2>1, <2>2, <2>3 DEF Usable
<1>4. Usable' \in {Usable \cup {running}, Usable \ {running}}
  BY <1>3
<1>5. PICK r \in Releases : r = running
  BY <1>1 DEF Releases
<1>6. Rollout!Work(r)
  BY <1>1, <1>2, <1>4, <1>5 DEF Rollout!Work, Usable, Fallback, None
<1>7. QED
  BY <1>6 DEF Rollout!Next

(* The links are switched and switched back. *)
LEMMA SwitchesFaithfully ==
  ASSUME TypeInd, LiveInd, Run, Link \/ Relink
  PROVE  [Rollout!Next]_(Rollout!vars)
<1>1. /\ running \in 1 .. N /\ running # 0 /\ running' = running
      /\ UNCHANGED <<disk, smoked, prev>>
  BY RunPushed DEF Link, Relink, Continue
<1>2. CASE Link
  <2>1. /\ current' = running /\ current # running /\ prev = current /\ running \in Usable
    BY <1>2 DEF Link, At, LiveInd, StepInd, Early, Good, Usable
  <2>2. Fallback = 0 /\ Fallback' = current
    BY <1>1, <2>1 DEF Fallback
  <2>3. Rollout!Switch(running)
    BY <1>1, <2>1, <2>2 DEF Rollout!Switch, Usable, Fallback, None
  <2>4. QED
    BY <1>1, <2>3 DEF Rollout!Next, Releases
<1>3. CASE Relink
  <2>1. current' = prev /\ prev # 0 /\ prev # running /\ current \in {prev, running}
    BY <1>3 DEF Relink, At, LiveInd, StepInd
  <2>2. Fallback' = 0
    BY <1>1, <2>1 DEF Fallback
  <2>3. CASE current = running
    <3>1. Fallback = prev
      BY <1>1, <2>3 DEF Fallback
    <3>2. Rollout!Back
      BY <1>1, <2>1, <2>2, <3>1 DEF Rollout!Back, Usable, Fallback, None
    <3>3. QED
      BY <3>2 DEF Rollout!Next
  <2>4. CASE current = prev
    BY <1>1, <2>1, <2>2, <2>4, RolloutStutters DEF Fallback
  <2>5. QED
    BY <2>1, <2>3, <2>4
<1>4. QED
  BY <1>2, <1>3

(* A step that leaves the links to releases and the releases alone. *)
LEMMA SettlesOrStutters ==
  ASSUME UNCHANGED <<disk, smoked, current>>,
         UNCHANGED <<running, prev>> \/ running' = 0 \/ Fallback' = Fallback
  PROVE  [Rollout!Next]_(Rollout!vars)
<1>1. CASE running' = 0
  <2>1. Fallback' = 0
    BY <1>1 DEF Fallback
  <2>2. Rollout!Settle
    BY <2>1 DEF Rollout!Settle, Fallback, None
  <2>3. QED
    BY <2>2 DEF Rollout!Next
<1>2. CASE UNCHANGED <<running, prev>> \/ Fallback' = Fallback
  BY <1>2, RolloutStutters DEF Fallback
<1>3. QED
  BY <1>1, <1>2

LEMMA StepRollout == TypeInd /\ LiveInd /\ [Next]_vars => [Rollout!Next]_(Rollout!vars)
<1> SUFFICES ASSUME TypeInd, LiveInd, [Next]_vars PROVE [Rollout!Next]_(Rollout!vars)
  OBVIOUS
<1>1. CASE Push \/ (\E r \in Releases : Rerun(r)) \/ CancelPending \/ UNCHANGED vars
  BY <1>1, SettlesOrStutters DEF Push, Rerun, CancelPending, vars, host, history
<1>2. CASE Begin
  <2>1. UNCHANGED <<disk, smoked, current>> /\ Fallback = 0 /\ Fallback' = 0
    BY <1>2 DEF Begin, host, Fallback, None
  <2>2. QED
    BY <2>1, SettlesOrStutters
<1>3. CASE Prepare \/ Clean \/ Unpack \/ Smoke
  BY <1>3, WorksOnOther DEF Run, Prepare, Clean, Unpack, Smoke, At, Continue, Early, host
<1>4. CASE Remove \/ RemoveFails("failed") \/ RemoveFails("cancelled")
  BY <1>4, WorksOnOther DEF Run, Remove, RemoveFails, At, End, Early, None
<1>5. CASE Link \/ Relink
  BY <1>5, SwitchesFaithfully DEF Run
<1>6. CASE SavePrev
  <2>1. UNCHANGED <<disk, smoked, current, running>> /\ current # running
    BY <1>6 DEF SavePrev, At, Continue, host, LiveInd, StepInd, Early
  <2>2. QED
    BY <2>1, SettlesOrStutters DEF Fallback
<1>7. CASE Check \/ Recheck \/ Bootstrap \/ LinkEntry \/ RelinkEntry \/ Verify
           \/ InstallCron \/ Fails \/ Cancel
  <2>1. UNCHANGED <<disk, smoked, current, prev>> /\ running' \in {0, running}
    BY <1>7 DEF Check, Recheck, Guard, Bootstrap, LinkEntry, RelinkEntry, Verify, InstallCron, Fails,
                Cancel, Continue, End, host, None
  <2>2. QED
    BY <2>1, SettlesOrStutters
<1>8. QED
  BY <1>1, <1>2, <1>3, <1>4, <1>5, <1>6, <1>7 DEF Next, Run

(* For any number of releases, and whatever fails, is cancelled or rolls   *)
(* back, what users of the entry point are promised is kept.               *)
THEOREM RolloutKept == ASSUME ~RedeployLive PROVE Spec => ImplementsRollout
  BY InitRollout, StepRollout, LiveInductive, PTL DEF Spec, ImplementsRollout, Rollout!Spec
=============================================================================
