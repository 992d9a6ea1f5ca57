--------------------------- MODULE AlertingProofs ---------------------------
(* Theorems about Alerting, for any number of editors, jobs and commands.  *)
EXTENDS Alerting, TLAPS

(* A command that has not got to its cards has sent none, and one that has *)
(* got past the lookup has seen a problem it sends them for.               *)
Honest(c) ==
  /\ c \in Command
  /\ c.phase \in {"probing", "lookup", "token"} => ~c.tried
  /\ c.phase = "token" \/ c.tried => c.seen = "problem"
  /\ c.phase = "sending" => c.tried
  /\ ~c.tried => ~c.sent
  /\ c.phase # "exited" => c.exit = 0
  /\ c.phase = "exited" /\ c.exit = 0 => c.tried \/ c.seen # "problem"

IInv ==
  /\ run \in [Runs -> Command] /\ shops \in States
  /\ \A r \in Runs : Honest(run[r])

LEMMA FreshFacts ==
  ASSUME NEW chat \in BOOLEAN
  PROVE  /\ Honest(Fresh(chat))
         /\ Honest([Fresh(chat) EXCEPT !.phase = "exited"])
  BY DEF Fresh, Honest, Command, States

LEMMA InitIInv == Init => IInv
  BY FreshFacts DEF Init, IInv, Honest, States

(* Only one command changes. *)
LEMMA OneStep ==
  ASSUME IInv, NEW r \in Runs, NEW c, Honest(c), run' = [run EXCEPT ![r] = c], shops' = shops
  PROVE  IInv'
  BY DEF IInv, Honest

LEMMA StepIInv == IInv /\ [Next]_vars => IInv'
<1> SUFFICES ASSUME IInv, [Next]_vars PROVE IInv'
  OBVIOUS
<1>1. ASSUME NEW r \in Runs, Alert(r) PROVE IInv'
  <2>0. Honest(run[r]) /\ run[r] \in Command
    BY DEF IInv
  <2>1. CASE Fire(r)
    <3>1. PICK line \in AlertLines : run' = [run EXCEPT ![r] = Fresh(line = "alert_to_chat")]
      BY <2>1 DEF Fire
    <3>2. (line = "alert_to_chat") \in BOOLEAN
      BY Zenon
    <3>3. QED
      BY <2>1, <3>1, <3>2, FreshFacts, OneStep DEF Fire
  <2>2. CASE Probed(r)
    <3>1. shops \in States /\ run[r].phase = "probing" /\ shops' = shops
      BY <2>2 DEF Probed, IInv
    <3>2. CASE shops = "ok"
      <4>1. run' = [run EXCEPT ![r] = [run[r] EXCEPT !.seen = "ok", !.phase = "exited"]]
        BY <2>2, <3>2 DEF Probed
      <4>2. Honest([run[r] EXCEPT !.seen = "ok", !.phase = "exited"])
        BY <2>0, <3>1 DEF Honest, Command, States
      <4>3. QED
        BY <3>1, <4>1, <4>2, OneStep
    <3>3. CASE shops # "ok"
      <4>1. run' = [run EXCEPT ![r] = [run[r] EXCEPT !.seen = shops, !.phase = "lookup"]]
        BY <2>2, <3>3 DEF Probed
      <4> DEFINE new == [run[r] EXCEPT !.seen = shops, !.phase = "lookup"]
      <4>a. /\ new \in Command /\ new.phase = "lookup" /\ new.tried = run[r].tried
            /\ new.sent = run[r].sent /\ new.exit = run[r].exit
        BY <2>0, <3>1 DEF Command
      <4>2. Honest(new)
        BY <2>0, <3>1, <4>a DEF Honest
      <4>3. QED
        BY <3>1, <4>1, <4>2, OneStep
    <3>4. QED
      BY <3>2, <3>3
  <2>3. ASSUME run[r].phase \in {"probing", "lookup", "token"}, Exits(r, 1) PROVE IInv'
    <3> DEFINE new == [run[r] EXCEPT !.phase = "exited", !.exit = 1]
    <3>a. /\ new \in Command /\ new.phase = "exited" /\ new.exit = 1 /\ new.seen = run[r].seen
          /\ new.tried = run[r].tried /\ new.sent = run[r].sent
      BY <2>0 DEF Command
    <3>1. Honest(new)
      BY <2>0, <3>a, <2>3 DEF Honest
    <3>2. QED
      BY <2>3, <3>1, OneStep DEF Exits
  <2>4. CASE Publishable(r)
    <3>1. CASE run[r].seen = "problem" /\ Goes(r, "token")
      <4>1. Honest([run[r] EXCEPT !.phase = "token"])
        BY <2>0, <2>4, <3>1 DEF Publishable, Honest, Command
      <4>2. QED
        BY <3>1, <4>1, OneStep DEF Goes
    <3>2. CASE run[r].seen # "problem" /\ Exits(r, 0)
      <4>1. Honest([run[r] EXCEPT !.phase = "exited", !.exit = 0])
        BY <2>0, <2>4, <3>2 DEF Publishable, Honest, Command
      <4>2. QED
        BY <3>2, <4>1, OneStep DEF Exits
    <3>3. QED
      BY <2>4, <3>1, <3>2 DEF Publishable
  <2>5. CASE Hangs(r)
    BY <2>5, FreshFacts, OneStep DEF Hangs
  <2>6. CASE TokenArrives(r)
    <3>1. Honest([run[r] EXCEPT !.phase = "sending", !.tried = TRUE])
      BY <2>0, <2>6 DEF TokenArrives, Honest, Command
    <3>2. QED
      BY <2>6, <3>1, OneStep DEF TokenArrives
  <2>7. ASSUME NEW accepted \in BOOLEAN, NEW code \in {0, 1}, Sent(r, accepted, code) PROVE IInv'
    <3>0. run[r].phase = "sending"
      BY <2>7 DEF Sent
    <3> DEFINE new == [run[r] EXCEPT !.phase = "exited", !.sent = accepted, !.exit = code]
    <3>a. /\ new \in Command /\ new.phase = "exited" /\ new.tried = run[r].tried
          /\ new.seen = run[r].seen
      BY <2>0 DEF Command
    <3>1. Honest(new)
      BY <2>0, <3>0, <3>a DEF Honest
    <3>2. QED
      BY <2>7, <3>1, OneStep DEF Sent
  <2>8. QED
    BY <1>1, <2>1, <2>2, <2>3, <2>4, <2>5, <2>6, <2>7
    DEF Alert, ProbeFails, Unpublishable, TokenFails, Published, Raises
<1>2. ASSUME NEW e \in Editors, Edit(e) PROVE IInv'
  BY <1>2 DEF Edit, Read, Install, BreaksOff, IInv
<1>3. ASSUME NEW j \in Jobs, AddJob(j) PROVE IInv'
  BY <1>3 DEF AddJob, IInv
<1>4. CASE ShopsChange
  BY <1>4 DEF ShopsChange, IInv
<1>5. CASE UNCHANGED vars
  BY <1>5 DEF vars, IInv
<1>6. QED
  BY <1>1, <1>2, <1>3, <1>4, <1>5 DEF Next

(* An exit code 0 is true: a card was tried, or there was no problem to    *)
(* send one for; and none is sent but for a problem.                       *)
THEOREM TrueExit == Spec => []ExitTells
<1>1. IInv => ExitTells
  BY DEF IInv, ExitTells, Honest
<1>2. QED
  BY <1>1, InitIInv, StepIInv, PTL DEF Spec
-----------------------------------------------------------------------------
(* The crontab. *)

Crontabs == {t \in [Lines -> Nat] : t["alert"] + t["alert_to_chat"] <= 1}

(* The jobs that are to be kept are in every copy somebody is about to     *)
(* install: a read that does not find them is the end of the promise.      *)
TabInd ==
  /\ crontab \in Crontabs
  /\ copies \in [Editors -> SUBSET Crontabs]
  /\ kept \subseteq Jobs
  /\ \A j \in kept : crontab[j] > 0
  /\ \A e \in Editors : \A t \in copies[e] : \A j \in kept : t[j] > 0

LEMMA NothingFacts == Nothing \in Crontabs
  BY DEF Nothing, Crontabs, Lines, AlertLines

(* One alert line takes the place of all. *)
LEMMA OneLine ==
  ASSUME NEW t \in Crontabs, NEW line \in AlertLines
  PROVE  /\ With(Others(t), line) \in Crontabs
         /\ \A j \in Jobs : With(Others(t), line)[j] = t[j]
<1>1. /\ Others(t) \in [Lines -> Nat]
      /\ Others(t)["alert"] = 0 /\ Others(t)["alert_to_chat"] = 0
      /\ \A j \in Jobs : Others(t)[j] = t[j]
  BY AlertingAssumption DEF Others, Crontabs, Lines, AlertLines
<1>2. Others(t)[line] + 1 = 1 /\ line \in Lines /\ line \notin Jobs
  BY <1>1, AlertingAssumption DEF AlertLines, Lines
<1>3. With(Others(t), line) = [Others(t) EXCEPT ![line] = 1]
  BY <1>2 DEF With
<1>4. QED
  BY <1>1, <1>2, <1>3, AlertingAssumption DEF Crontabs, Lines, AlertLines

(* A job more is no alert line more. *)
LEMMA OneJob ==
  ASSUME NEW t \in Crontabs, NEW j \in Jobs
  PROVE  /\ With(t, j) \in Crontabs
         /\ With(t, j)[j] > 0
         /\ \A i \in Jobs : t[i] > 0 => With(t, j)[i] > 0
  BY AlertingAssumption DEF With, Crontabs, Lines, AlertLines

LEMMA InitTab == Init => TabInd
  BY NothingFacts DEF Init, TabInd

LEMMA StepTab == TabInd /\ [Next]_vars => TabInd'
<1> SUFFICES ASSUME TabInd, [Next]_vars PROVE TabInd'
  OBVIOUS
<1>1. ASSUME NEW e \in Editors, Read(e) PROVE TabInd'
  BY <1>1, NothingFacts DEF Read, TabInd
<1>2. ASSUME NEW e \in Editors, Install(e) PROVE TabInd'
  <2>1. PICK lines \in copies[e], line \in AlertLines : crontab' = With(Others(lines), line)
    BY <1>2 DEF Install
  <2>2. lines \in Crontabs /\ \A j \in kept : lines[j] > 0
    BY DEF TabInd
  <2>3. crontab' \in Crontabs /\ \A j \in kept : crontab'[j] > 0
    BY <2>1, <2>2, OneLine DEF TabInd
  <2>4. QED
    BY <1>2, <2>3 DEF Install, TabInd
<1>3. ASSUME NEW e \in Editors, BreaksOff(e) PROVE TabInd'
  BY <1>3 DEF BreaksOff, TabInd
<1>4. ASSUME NEW j \in Jobs, AddJob(j) PROVE TabInd'
  <2>1. crontab' = With(crontab, j) /\ copies' = copies /\ crontab \in Crontabs
    BY <1>4 DEF AddJob, TabInd
  <2>2. /\ crontab' \in Crontabs /\ crontab'[j] > 0
        /\ \A i \in Jobs : crontab[i] > 0 => crontab'[i] > 0
    BY <2>1, OneJob
  <2>3. CASE kept' = kept
    BY <2>1, <2>2, <2>3 DEF TabInd
  <2>4. CASE kept' = kept \cup {j} /\ \A e \in Editors : copies[e] = {}
    BY <2>1, <2>2, <2>4 DEF TabInd
  <2>5. QED
    BY <1>4, <2>3, <2>4 DEF AddJob
<1>5. ASSUME NEW r \in Runs, Alert(r) PROVE TabInd'
  BY <1>5 DEF Alert, Fire, Probed, ProbeFails, Unpublishable, Publishable, Hangs, TokenArrives,
     TokenFails, Published, Raises, Sent, Goes, Exits, TabInd
<1>6. CASE ShopsChange \/ UNCHANGED vars
  BY <1>6 DEF ShopsChange, vars, TabInd
<1>7. QED
  BY <1>1, <1>2, <1>3, <1>4, <1>5, <1>6 DEF Next, Edit

(* Whatever edits overlap, break off or cannot read: one alert line, and   *)
(* the operator's jobs stay unless an edit was under way when they came or *)
(* one could not read the crontab.                                         *)
THEOREM Whole == Spec => []CrontabIsWhole
<1>1. TabInd => CrontabIsWhole
  BY DEF TabInd, Crontabs, CrontabIsWhole, Holds
<1>2. QED
  BY <1>1, InitTab, StepTab, PTL DEF Spec
=============================================================================
