------------------------------- MODULE Deploy -------------------------------
(***************************************************************************)
(* The deployment workflows deploy-main.yml and deploy-demo.yml, each with *)
(* a host of its own: upload a release, smoke it, switch the symlink       *)
(* current to it, smoke it again, and roll back on failure.  The two       *)
(* differ where the variable workflow is looked at.                        *)
(*                                                                         *)
(* GitHub (external) runs one workflow run at a time and keeps one more    *)
(* waiting (the concurrency group), and a run may be cancelled or lost at  *)
(* any step.  A command on the host ends with its connection.  What the    *)
(* bootstrap step does to the database is in BootstrapRole.                *)
(***************************************************************************)
EXTENDS Naturals

CONSTANTS
  N,            \* releases are numbered in the order they are pushed
  RedeployLive  \* may a run deploy the release that is live?

ASSUME DeployAssumption == N \in Nat /\ RedeployLive \in BOOLEAN

Releases == 1 .. N
None == 0  \* no release

VARIABLES
  workflow,  \* "main" or "demo"
  head,      \* the newest release pushed; for demo the head of main
  pending,   \* the release whose run waits for the concurrency group
  running,   \* the release whose run has it
  step,      \* the step that run executes next
  prev,      \* steps.prev.outputs.prev
  result,    \* how the latest run of each release ended
  disk,      \* the directory of each release on the host
  current,   \* the release /stonex/ops/current points to
  entry,     \* is there a link /stonex/bin/stonex-ops to current?
  alerting,  \* does the crontab have the alert line?
  smoked,    \* history: releases whose files passed the pre-switch smoke
  before     \* history: current when the run began

github == <<workflow, head>>
history == <<smoked, before>>
host == <<disk, current, entry, alerting>>
vars == <<github, pending, running, step, prev, result, host, history>>

Ended == {"ok", "skipped", "blind", "failed", "reverted", "cancelled"}
Steps == {"check", "prepare", "clean", "unpack", "bootstrap", "smoke", "recheck", "save",
          "link", "entry", "verify", "cron", "discard", "relink", "reentry", "remove"}

Init ==
  /\ workflow \in {"main", "demo"}
  /\ head = None /\ pending = None /\ running = None
  /\ step = "idle"
  /\ prev = None
  /\ result = [r \in Releases |-> "none"]
  /\ disk = [r \in Releases |-> "absent"]
  /\ current = None /\ entry = FALSE /\ alerting = FALSE
  /\ smoked = {}
  /\ before = None

(* What the entry point leads to is there. *)
Works == entry /\ current # None /\ disk[current] = "installed"

-----------------------------------------------------------------------------
(* The queue. *)

(* Mutant of Push: a push during a run starts none. *)
PushDropped ==
  /\ head < N
  /\ head' = head + 1
  /\ IF running = None
     THEN pending' = head + 1 /\ result' = [result EXCEPT ![head + 1] = "queued"]
     ELSE UNCHANGED <<pending, result>>
  /\ UNCHANGED <<workflow, running, step, prev, host, history>>

(* The new run takes the place of the one that waits. *)
Push ==
  /\ head < N
  /\ head' = head + 1
  /\ pending' = head + 1
  /\ result' = [r \in Releases |->
                  IF r = head + 1 THEN "queued" ELSE IF r = pending THEN "cancelled" ELSE result[r]]
  /\ UNCHANGED <<workflow, running, step, prev, host, history>>

(* An operator runs a workflow again.  Without RedeployLive only when none *)
(* is under way, and not that of the live release.                         *)
Rerun(r) ==
  /\ pending = None
  /\ result[r] \in Ended
  /\ RedeployLive \/ (running = None /\ r # current)
  /\ pending' = r
  /\ result' = [result EXCEPT ![r] = "queued"]
  /\ UNCHANGED <<github, running, step, prev, host, history>>

Begin ==
  /\ running = None
  /\ pending # None
  /\ running' = pending
  /\ pending' = None
  /\ step' = "check"
  /\ prev' = None
  /\ result' = [result EXCEPT ![pending] = "running"]
  /\ before' = current
  /\ UNCHANGED <<github, host, smoked>>

-----------------------------------------------------------------------------
(* The steps of a run. *)

At(s) == running # None /\ step = s

Continue(s) == step' = s /\ UNCHANGED <<github, pending, running, result, before>>

End(how) ==
  /\ running' = None
  /\ step' = "idle"
  /\ result' = [result EXCEPT ![running] = how]
  /\ UNCHANGED <<github, pending, before>>

(* Mutant of AtHead: the guard is always satisfied. *)
AnyHead(r) == r \in Releases

(* git ls-remote names the commit of the run. *)
AtHead(r) == r = head

(* The stale deploy guard of demo, before and after the upload.  The exit  *)
(* status is that of awk: when git ls-remote fails, the run finds itself   *)
(* stale, skips what follows, and succeeds.                                *)
Guard(next) ==
  /\ \/ (workflow = "demo" => AtHead(running)) /\ Continue(next)
     \/ workflow = "demo" /\ ~AtHead(running) /\ End("skipped")
     \/ workflow = "demo" /\ End("blind")
  /\ UNCHANGED <<prev, host, smoked>>

Check == At("check") /\ Guard("prepare")

(* mkdir and scp *)
Prepare ==
  /\ At("prepare")
  /\ disk' = [disk EXCEPT ![running] = IF @ = "absent" THEN "broken" ELSE @]
  /\ Continue("clean")
  /\ UNCHANGED <<prev, current, entry, alerting, smoked>>

(* Mutant of Clean: what other releases left on the host goes too. *)
CleanOthers ==
  /\ At("clean")
  /\ disk' = [r \in Releases |-> IF r = running THEN "broken" ELSE "absent"]
  /\ smoked' = {}
  /\ Continue("unpack")
  /\ UNCHANGED <<prev, current, entry, alerting>>

(* rm -rf site *)
Clean ==
  /\ At("clean")
  /\ disk' = [disk EXCEPT ![running] = "broken"]
  /\ smoked' = smoked \ {running}
  /\ Continue("unpack")
  /\ UNCHANGED <<prev, current, entry, alerting>>

Unpack ==
  /\ At("unpack")
  /\ disk' = [disk EXCEPT ![running] = "installed"]
  /\ Continue("bootstrap")
  /\ UNCHANGED <<prev, current, entry, alerting, smoked>>

(* Mutant of Bootstrap: the smoke step is left out. *)
BootstrapUnsmoked ==
  /\ At("bootstrap")
  /\ Continue("recheck")
  /\ UNCHANGED <<prev, host, smoked>>

Bootstrap ==
  /\ At("bootstrap")
  /\ Continue("smoke")
  /\ UNCHANGED <<prev, host, smoked>>

(* doctor and list_tools, run from the directory of the release *)
Smoke ==
  /\ At("smoke")
  /\ smoked' = smoked \cup {running}
  /\ Continue("recheck")
  /\ UNCHANGED <<prev, host>>

Recheck == At("recheck") /\ Guard("save")

SavePrev ==
  /\ At("save")
  /\ prev' = current
  /\ Continue("link")
  /\ UNCHANGED <<host, smoked>>

(* Mutant of Link: ln -sf, which puts the new link into the directory an   *)
(* existing link points to.                                                *)
LinkInside ==
  /\ At("link")
  /\ current' = IF current = None THEN running ELSE current
  /\ Continue("entry")
  /\ UNCHANGED <<prev, disk, entry, alerting, smoked>>

Link ==
  /\ At("link")
  /\ current' = running
  /\ Continue("entry")
  /\ UNCHANGED <<prev, disk, entry, alerting, smoked>>

LinkEntry ==
  /\ At("entry")
  /\ entry' = TRUE
  /\ Continue("verify")
  /\ UNCHANGED <<prev, disk, current, alerting, smoked>>

(* doctor again, from the entry point; the last step of demo *)
Verify ==
  /\ At("verify")
  /\ Works
  /\ IF workflow = "main" THEN Continue("cron") ELSE End("ok")
  /\ UNCHANGED <<prev, host, smoked>>

InstallCron ==
  /\ At("cron")
  /\ alerting' = TRUE
  /\ End("ok") \/ End("failed")
  /\ UNCHANGED <<prev, disk, current, entry, smoked>>

-----------------------------------------------------------------------------
(* Failure. *)

(* A step may fail.  A failed smoke removes the release, a failed switch   *)
(* or post-switch smoke rolls back if there is something to roll back to,  *)
(* and after any other failure no step runs.                               *)
Fails ==
  /\ running # None
  /\ step \notin {"recheck", "discard", "remove"}
  /\ CASE step = "smoke" -> Continue("discard")
       [] step \in {"link", "entry", "verify"} /\ prev # None -> Continue("relink")
       [] OTHER -> End("failed")
  /\ UNCHANGED <<prev, host, smoked>>

(* Mutant of Relink: ln -sf, as in LinkInside. *)
RelinkInside ==
  /\ At("relink")
  /\ Continue("reentry")
  /\ UNCHANGED <<prev, host, smoked>>

Relink ==
  /\ At("relink")
  /\ current' = prev
  /\ Continue("reentry")
  /\ UNCHANGED <<prev, disk, entry, alerting, smoked>>

RelinkEntry ==
  /\ At("reentry")
  /\ entry' = TRUE
  /\ Continue("remove")
  /\ UNCHANGED <<prev, disk, current, alerting, smoked>>

(* rm -rf of the release, the last step of either rollback *)
Remove ==
  /\ At("discard") \/ At("remove")
  /\ disk' = [disk EXCEPT ![running] = "absent"]
  /\ smoked' = smoked \ {running}
  /\ End("reverted")
  /\ UNCHANGED <<prev, current, entry, alerting>>

(* It breaks off with some or all of the files gone. *)
RemoveFails(how) ==
  /\ At("discard") \/ At("remove")
  /\ \E left \in {"broken", "absent"} : disk' = [disk EXCEPT ![running] = left]
  /\ smoked' = smoked \ {running}
  /\ End(how)
  /\ UNCHANGED <<prev, current, entry, alerting>>

(* The run is cancelled, or its runner is lost: failure() is not true. *)
Cancel ==
  /\ running # None
  /\ End("cancelled")
  /\ UNCHANGED <<prev, host, smoked>>

CancelPending ==
  /\ pending # None
  /\ pending' = None
  /\ result' = [result EXCEPT ![pending] = "cancelled"]
  /\ UNCHANGED <<github, running, step, prev, host, history>>

Run ==
  \/ Check \/ Prepare \/ Clean \/ Unpack \/ Bootstrap \/ Smoke \/ Recheck \/ SavePrev
  \/ Link \/ LinkEntry \/ Verify \/ InstallCron
  \/ Fails \/ Relink \/ RelinkEntry \/ Remove \/ RemoveFails("failed") \/ RemoveFails("cancelled")
  \/ Cancel

Next == Push \/ (\E r \in Releases : Rerun(r)) \/ Begin \/ CancelPending \/ Run

Spec == Init /\ [][Next]_vars

(* A waiting run gets the group, and no job outlives GitHub's time limit. *)
Fairness == WF_vars(Begin) /\ WF_vars(Run)

FairSpec == Spec /\ Fairness
-----------------------------------------------------------------------------
(* Every variable holds a value the code can give it, and there is one run *)
(* at a time.                                                              *)
TypeOK ==
  /\ workflow \in {"main", "demo"}
  /\ head \in 0 .. N /\ pending \in 0 .. N /\ running \in 0 .. N
  /\ prev \in 0 .. N /\ current \in 0 .. N /\ before \in 0 .. N
  /\ step \in Steps \cup {"idle"}
  /\ step = "idle" <=> running = None
  /\ result \in [Releases -> Ended \cup {"none", "queued", "running"}]
  /\ \A r \in Releases : result[r] = "running" <=> r = running
  /\ disk \in [Releases -> {"absent", "broken", "installed"}]
  /\ entry \in BOOLEAN /\ alerting \in BOOLEAN
  /\ smoked \subseteq Releases

(* current never points to a release that is missing, half unpacked or not *)
(* smoked, and the entry point and the alert line never come before it, at *)
(* whatever step runs fail, are cancelled or roll back, as long as no run  *)
(* deploys the live release.                                               *)
LiveIntact ==
  /\ current # None => disk[current] = "installed" /\ current \in smoked
  /\ entry => current # None
  /\ alerting => Works

(* A run that succeeds has put its own release behind the entry point. *)
SuccessIsLive ==
  [][\A r \in Releases : result[r] # "ok" /\ result'[r] = "ok" => current' = r /\ Works']_vars

(* A completed rollback leaves the release that was live when the run      *)
(* began live and unharmed (the workflows: "Rollback complete (previous    *)
(* symlink untouched)").                                                   *)
RevertRestores ==
  [][\A r \in Releases : result[r] # "reverted" /\ result'[r] = "reverted" =>
       /\ current' = before
       /\ before # None => disk'[before] = "installed"]_vars

(* demo is never switched to a release older than the one it had, although *)
(* old runs may be repeated and main moves while a run is under way.       *)
NeverBackwards ==
  [][workflow = "demo" /\ At("link") /\ current' # current => current < current']_vars

Rollout == INSTANCE Rollout WITH
  usable   <- {r \in smoked : disk[r] = "installed"},
  live     <- current,
  fallback <- IF running # None /\ current = running THEN prev ELSE None

(* Whatever fails, is cancelled or rolls back, current is only switched to *)
(* a usable release or back to the one before, and until a switch is       *)
(* settled both stay as they are.                                          *)
ImplementsRollout == Rollout!Spec

(* The head of main gets to demo, unless it moves on or its run fails, is  *)
(* cancelled, or cannot read the head: a run is not skipped for nothing.   *)
HeadLands ==
  \A r \in Releases :
    workflow = "demo" /\ head = r ~>
      head # r \/ current = r \/ result[r] \in {"blind", "failed", "reverted", "cancelled"}
=============================================================================
