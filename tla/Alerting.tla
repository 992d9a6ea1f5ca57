------------------------------ MODULE Alerting ------------------------------
(***************************************************************************)
(* From a broken connection to a card: the crontab of the host, those who  *)
(* edit it (setup-alert-cron.sh by hand, the last step of deploy-main),    *)
(* and the alert commands cron starts by it (_run_alert), which overlap    *)
(* when one takes longer than an hour.  Each is a process of its own, with *)
(* a token cache of its own.  FeishuPublish has what publishing does; here *)
(* it is what the command sees of it.                                      *)
(*                                                                         *)
(* The shops, the services and the operator's own cron jobs are external.  *)
(***************************************************************************)
EXTENDS Naturals

CONSTANTS
  Editors,    \* processes that edit the crontab
  Runs,       \* alert commands at a time
  Jobs,       \* jobs an operator adds to the crontab
  HasUser     \* do the credentials name a user to send to?

(* The line of the default tenant, without and with FEISHU_CHAT_ID. *)
AlertLines == {"alert", "alert_to_chat"}

Lines == AlertLines \cup Jobs

ASSUME AlertingAssumption == HasUser \in BOOLEAN /\ Jobs \cap AlertLines = {}

VARIABLES
  crontab,    \* how often it has each line
  copies,     \* what each editor has read of it: one copy, none outside of an edit
  kept,       \* history: jobs added while nobody edited, and found by every read since
  shops,      \* how the connections are
  run,        \* the alert commands
  alerted     \* history: has a card told of a problem since the shops last changed?

vars == <<crontab, copies, kept, shops, run, alerted>>

(* A crontab without a line. *)
Nothing == [line \in Lines |-> 0]

Holds(line) == crontab[line] > 0

(* problem: of a data source, one run() sends a card for                   *)
(* unconfigured: run() leaves the data sources with a problem out, as not  *)
(* configured      unrelated: no data source has a problem                 *)
States == {"ok", "problem", "unconfigured", "unrelated"}

(* tried: it began to send   sent: Feishu accepted a card *)
Command == [phase : {"probing", "lookup", "token", "sending", "exited"}, chat : BOOLEAN,
            seen : States, tried : BOOLEAN, sent : BOOLEAN, exit : {0, 1}]

Fresh(chat) ==
  [phase |-> "probing", chat |-> chat, seen |-> "ok", tried |-> FALSE, sent |-> FALSE, exit |-> 0]

Init ==
  /\ crontab = Nothing /\ kept = {}
  /\ copies = [e \in Editors |-> {}]
  /\ shops = "ok" /\ alerted = FALSE
  /\ run = [r \in Runs |-> [Fresh(FALSE) EXCEPT !.phase = "exited"]]

-----------------------------------------------------------------------------
(* The crontab. *)

(* crontab -l || true: a failure leaves an empty copy. *)
Read(e) ==
  /\ copies[e] = {}
  /\ \/ copies' = [copies EXCEPT ![e] = {crontab}] /\ UNCHANGED kept
     \/ copies' = [copies EXCEPT ![e] = {Nothing}] /\ kept' = {}
  /\ UNCHANGED <<crontab, shops, run, alerted>>

(* sed: the lines of a crontab that are not alert lines. *)
Others(lines) == [line \in Lines |-> IF line \in AlertLines THEN 0 ELSE lines[line]]

With(lines, line) == [lines EXCEPT ![line] = @ + 1]

(* Mutant of Install: the previous line is not removed. *)
InstallAnother(e) ==
  /\ \E lines \in copies[e], line \in AlertLines : crontab' = With(lines, line)
  /\ copies' = [copies EXCEPT ![e] = {}]
  /\ UNCHANGED <<kept, shops, run, alerted>>

(* The alert lines are removed, one is added, the crontab is replaced.  A  *)
(* deployment's line has no chat.                                          *)
Install(e) ==
  /\ \E lines \in copies[e], line \in AlertLines : crontab' = With(Others(lines), line)
  /\ copies' = [copies EXCEPT ![e] = {}]
  /\ UNCHANGED <<kept, shops, run, alerted>>

(* A command of the script fails, or the connection of the deployment.     *)
BreaksOff(e) ==
  /\ copies[e] # {}
  /\ copies' = [copies EXCEPT ![e] = {}]
  /\ UNCHANGED <<crontab, kept, shops, run, alerted>>

(* crontab -e by an operator. *)
AddJob(j) ==
  /\ ~Holds(j)
  /\ crontab' = With(crontab, j)
  /\ kept' = IF \A e \in Editors : copies[e] = {} THEN kept \cup {j} ELSE kept
  /\ UNCHANGED <<copies, shops, run, alerted>>

-----------------------------------------------------------------------------
(* The alert command. *)

(* Cron starts it, whatever became of the earlier ones. *)
Fire(r) ==
  /\ run[r].phase = "exited"
  /\ \E line \in AlertLines :
       /\ Holds(line)
       /\ run' = [run EXCEPT ![r] = Fresh(line = "alert_to_chat")]
  /\ UNCHANGED <<crontab, copies, kept, shops, alerted>>

Goes(r, phase) ==
  /\ run' = [run EXCEPT ![r].phase = phase]
  /\ UNCHANGED <<crontab, copies, kept, shops, alerted>>

Exits(r, code) ==
  /\ run' = [run EXCEPT ![r].phase = "exited", ![r].exit = code]
  /\ UNCHANGED <<crontab, copies, kept, shops, alerted>>

(* problem_count counts every connection. *)
Probed(r) ==
  /\ run[r].phase = "probing"
  /\ run' = [run EXCEPT ![r].seen = shops,
                        ![r].phase = IF shops = "ok" THEN "exited" ELSE "lookup"]
  /\ UNCHANGED <<crontab, copies, kept, shops, alerted>>

(* The probe raises: a timeout, or no JSON. *)
ProbeFails(r) == run[r].phase = "probing" /\ Exits(r, 1)

(* No credentials, no recipients, no active data source, or a connection   *)
(* run() cannot read.                                                      *)
Unpublishable(r) == run[r].phase = "lookup" /\ Exits(r, 1)

(* Mutant of Publishable: _is_unconfigured drops whatever has a reason. *)
PublishableDropping(r) ==
  run[r].phase = "lookup" /\ (HasUser \/ run[r].chat) /\ Exits(r, 0)

(* run() knows whom to send what, or that the data sources it did not      *)
(* leave out are healthy.                                                  *)
Publishable(r) ==
  /\ run[r].phase = "lookup"
  /\ HasUser \/ run[r].chat
  /\ IF run[r].seen = "problem" THEN Goes(r, "token") ELSE Exits(r, 0)

(* The lookup has no timeout: the process stays, out of sight of cron.     *)
Hangs(r) ==
  /\ run[r].phase = "lookup"
  /\ run' = [run EXCEPT ![r] = [Fresh(FALSE) EXCEPT !.phase = "exited"]]
  /\ UNCHANGED <<crontab, copies, kept, shops, alerted>>

(* The first card is made and on its way. *)
TokenArrives(r) ==
  /\ run[r].phase = "token"
  /\ run' = [run EXCEPT ![r].phase = "sending", ![r].tried = TRUE]
  /\ UNCHANGED <<crontab, copies, kept, shops, alerted>>

(* Mutant of TokenFails: outcome["error"] is not looked at. *)
TokenFailsUnseen(r) == run[r].phase = "token" /\ Exits(r, 0)

(* Also when the first card cannot be made. *)
TokenFails(r) == run[r].phase = "token" /\ Exits(r, 1)

(* Of the cards on their way some were accepted, or none. *)
Sent(r, accepted, code) ==
  /\ run[r].phase = "sending"
  /\ run' = [run EXCEPT ![r].phase = "exited", ![r].sent = accepted, ![r].exit = code]
  /\ alerted' = (alerted \/ accepted)
  /\ UNCHANGED <<crontab, copies, kept, shops>>

(* The last card is dealt with.  Nobody counts those that were accepted.   *)
Published(r, accepted) == Sent(r, accepted, 0)

(* A later card cannot be made, or the summary cannot be printed. *)
Raises(r, accepted) == Sent(r, accepted, 1)

-----------------------------------------------------------------------------
ShopsChange ==
  /\ shops' \in States \ {shops}
  /\ alerted' = FALSE
  /\ UNCHANGED <<crontab, copies, kept, run>>

Edit(e) == Read(e) \/ Install(e) \/ BreaksOff(e)

Alert(r) ==
  \/ Fire(r) \/ Probed(r) \/ ProbeFails(r)
  \/ Publishable(r) \/ Unpublishable(r) \/ Hangs(r)
  \/ TokenArrives(r) \/ TokenFails(r)
  \/ \E accepted \in BOOLEAN : Published(r, accepted) \/ Raises(r, accepted)

Next ==
  \/ \E e \in Editors : Edit(e)
  \/ \E j \in Jobs : AddJob(j)
  \/ \E r \in Runs : Alert(r)
  \/ ShopsChange

Spec == Init /\ [][Next]_vars

(* Cron fires every hour and an await ends; a service that is asked again  *)
(* and again answers sometimes, and sometimes with connections a card can  *)
(* be made of.  The editors need not do anything.                          *)
Fairness ==
  \A r \in Runs :
    /\ WF_vars(Alert(r))
    /\ SF_vars(Probed(r))
    /\ SF_vars(Publishable(r))
    /\ SF_vars(TokenArrives(r))
    /\ SF_vars(Published(r, TRUE))

FairSpec == Spec /\ Fairness
-----------------------------------------------------------------------------
(* However edits overlap, break off or fail to read, there is never a      *)
(* second alert line, with which every problem would be told twice; and a  *)
(* job of the operator's gets lost only by an edit that was under way when *)
(* it was added, or by one that could not read the crontab.                *)
CrontabIsWhole ==
  /\ crontab["alert"] + crontab["alert_to_chat"] <= 1
  /\ \A j \in kept : Holds(j)

(* What cron learns from the exit code: after 0 a card was tried, although *)
(* perhaps none delivered, or there was no problem run() sends a card for. *)
(* A 1 says nothing of the cards: an error may come after some were sent.  *)
(* None is sent but for a problem.                                         *)
ExitTells ==
  \A r \in Runs :
    /\ run[r].phase = "exited" /\ run[r].exit = 0 => run[r].tried \/ run[r].seen # "problem"
    /\ run[r].sent => run[r].tried
    /\ run[r].tried => run[r].seen = "problem"

(* Cron starts commands, and they have somebody to tell. *)
Reachable == Holds("alert_to_chat") \/ (HasUser /\ Holds("alert"))

(* A problem that lasts is told, although commands fail, hang and overlap  *)
(* and nothing is retried but by the next hour's command: a problem run()  *)
(* sends a card for, since one it leaves out is never told.                *)
ProblemAlerted == <>[](shops = "problem" /\ Reachable) => []<>alerted
=============================================================================
