-------------------------- MODULE HostCheckProofs --------------------------
(* The doctor's promise, by induction over its steps and those of others.  *)
EXTENDS HostCheck, TLAPS

TypeOK ==
  /\ url \in BOOLEAN /\ failed \in BOOLEAN /\ ok \in BOOLEAN /\ fresh \in BOOLEAN
  /\ name \in BOOLEAN /\ dir \in Dirs /\ file \in Files
  /\ step \in Steps
  /\ server \in Server

(* What the doctor takes the host for when it passes the audit file: but   *)
(* for what it does not see, the server can append to it.                  *)
Writable == dir \in {"writable", "full"}

LooksFine == file \in {"writable", "directory"} \/ (file = "missing" /\ Writable)

(* What the doctor has found out and nobody has changed since: the checks  *)
(* before the audit file if none has failed, and what ok stands for.  The  *)
(* touch is never reached: a directory that was not writable still is not. *)
Found ==
  fresh =>
    /\ step \in Steps \ {"none", "binary", "version", "url"} /\ ~failed => url
    /\ step = "file" => (ok <=> Writable)
    /\ step = "absent" => ~ok /\ (file = "missing" => ~Writable)
    /\ step = "touch" => ~ok /\ file = "missing" /\ ~Writable
    /\ step # "unlink"
    /\ step = "audit" /\ ok => LooksFine
    /\ step = "done" /\ ~failed => LooksFine

(* What the server counts on. *)
Vouched == server.vouched => fresh /\ url /\ GreenLight

IInv == TypeOK /\ Found /\ Vouched

LEMMA InitIInv == Init => IInv
<1> SUFFICES ASSUME Init PROVE IInv
  OBVIOUS
<1>1. Down \in Server /\ ~Down.vouched
  BY DEF Down, Server
<1>2. QED
  BY <1>1 DEF Init, Steps, Paths, Dirs, Files, IInv, TypeOK, Found, Vouched

(* With nobody else about, a file the doctor would try cannot be created.  *)
LEMMA DoctorTouchesNothing ==
  ASSUME IInv, Doctor, fresh
  PROVE  UNCHANGED host
<1>1. ~Unlink
  BY DEF IInv, Found, Unlink
<1>2. CASE Touch
  <2>1. file = "missing" /\ dir # "writable"
    BY <1>2 DEF IInv, Found, Writable, Touch
  <2>2. QED
    BY <1>2, <2>1 DEF Touch, host
<1>3. QED
  BY <1>1, <1>2 DEF Doctor, Begin, CheckHost, CheckDir, CheckFile, CheckAbsent, Conclude

(* What CheckDir leaves in ok. *)
LEMMA DirFound ==
  ASSUME CheckDir
  PROVE  ok' \in BOOLEAN /\ (ok' <=> Writable)
<1>1. ok' \in BOOLEAN /\ (ok' <=> dir = "writable" \/ dir = "full")
  BY Zenon DEF CheckDir
<1>2. QED
  BY <1>1 DEF Writable

LEMMA DoctorIInv ==
  ASSUME IInv, Doctor
  PROVE  IInv'
<1>0. UNCHANGED <<url, name, server, dir>>
  BY DEF Doctor, Begin, CheckHost, CheckDir, CheckFile, CheckAbsent, Touch, Unlink, Conclude, host
<1>a. fresh => fresh' /\ file' = file
  BY DoctorTouchesNothing DEF Doctor, Begin, CheckHost, CheckDir, CheckFile, CheckAbsent, Touch,
     Unlink, Conclude, host
<1>1. Vouched'
  BY <1>0, <1>a DEF IInv, Vouched, GreenLight
<1> USE DEF host, Steps, Paths, Dirs, Files, IInv, TypeOK, Found, LooksFine, Writable
<1>2. CASE Begin
  BY <1>0, <1>1, <1>2 DEF Begin
<1>3. CASE CheckHost
  <2>1. UNCHANGED <<file, ok, fresh>>
    BY <1>3 DEF CheckHost
  <2>2. /\ step' \in {"version", "url", "schema", "sql", "dir", "done"}
        /\ failed' \in BOOLEAN
        /\ step' = "done" => failed'
        /\ fresh /\ step' \in {"schema", "sql", "dir"} /\ ~failed' => url
    BY <1>3 DEF CheckHost, Passes, Fails
  <2>3. QED
    BY <1>0, <1>1, <2>1, <2>2
<1>4. CASE CheckDir
  <2>1. ok' \in BOOLEAN /\ (ok' <=> Writable)
    BY <1>4, DirFound
  <2>2. step' = "file" /\ UNCHANGED <<file, failed, fresh>> /\ step = "dir"
    BY <1>4 DEF CheckDir
  <2>3. QED
    BY <1>0, <1>1, <2>1, <2>2
<1>5. CASE CheckFile
  <2>1. UNCHANGED <<file, failed, fresh>> /\ ok' = (ok /\ file # "closed") /\ step = "file"
    BY <1>5 DEF CheckFile
  <2>2. CASE ok' /\ step' = "audit"
    BY <1>0, <1>1, <2>1, <2>2
  <2>3. CASE ~ok' /\ step' = "absent"
    BY <1>0, <1>1, <2>1, <2>3
  <2>4. QED
    BY <1>5, <2>1, <2>2, <2>3 DEF CheckFile
<1>6. CASE CheckAbsent
  BY <1>0, <1>1, <1>6 DEF CheckAbsent
<1>7. CASE Touch
  <2>1. step = "touch" /\ UNCHANGED <<failed, ok, fresh>>
    BY <1>7 DEF Touch
  <2>2. step' \in {"unlink", "audit"} /\ file' \in Files
    BY <1>7 DEF Touch
  <2>3. step' = "unlink" \/ ok => ~fresh
    BY <1>7, <2>1 DEF Touch
  <2>4. QED
    BY <1>0, <1>1, <2>1, <2>2, <2>3
<1>8. CASE Unlink
  BY <1>0, <1>1, <1>8 DEF Unlink
<1>9. CASE Conclude
  <2>1. step = "audit" /\ step' = "done" /\ UNCHANGED <<file, ok, fresh>>
    BY <1>9 DEF Conclude, Passes, Fails
  <2>2. failed' \in BOOLEAN /\ (~failed' => ok /\ ~failed)
    BY <1>9 DEF Conclude, Passes, Fails
  <2>3. QED
    BY <1>0, <1>1, <2>1, <2>2
<1>10. QED
  BY <1>2, <1>3, <1>4, <1>5, <1>6, <1>7, <1>8, <1>9 DEF Doctor

LEMMA VouchedType ==
  ASSUME NEW v \in BOOLEAN, NEW p \in {"opened", "crashed"}
  PROVE  [phase |-> p, url |-> FALSE, vouched |-> v] \in Server
  BY DEF Server

(* Opening the audit file disturbs nothing that was found out. *)
LEMMA OpenKeeps ==
  ASSUME IInv, UNCHANGED <<stonx, url, db, name, dir, step, failed, ok, fresh>>,
         server' \in Server,
         server'.vouched = (step = "done" /\ ~failed /\ fresh),
         \/ server'.phase = "opened" /\ Appendable /\ file' = "writable"
         \/ /\ server'.phase = "crashed" /\ file' = file
            /\ server'.vouched =>
                 ~name \/ file = "directory" \/ (file = "missing" /\ dir = "full")
  PROVE  IInv'
<1>1. server'.vouched => fresh /\ url
  BY DEF IInv, Found, Steps
<1>2. Vouched'
  BY <1>1 DEF Vouched, GreenLight
<1>3. CASE file' = file
  BY <1>2, <1>3 DEF IInv, TypeOK, Found, LooksFine, Writable
<1>4. CASE Appendable /\ file' = "writable"
  BY <1>2, <1>4 DEF IInv, TypeOK, Found, LooksFine, Writable, Appendable, Files, Paths
<1>5. QED
  BY <1>3, <1>4

LEMMA StepIInv == IInv /\ [Next]_vars => IInv'
<1> SUFFICES ASSUME IInv, [Next]_vars PROVE IInv'
  OBVIOUS
<1>1. CASE Doctor
  BY <1>1, DoctorIInv
<1>2. CASE Open
  <2> DEFINE passed == step = "done" /\ ~failed /\ fresh
             opens == name /\ Appendable
  <2>1. UNCHANGED <<stonx, url, db, name, dir, step, failed, ok, fresh>>
    BY <1>2 DEF Open, doctor
  <2>2. passed \in BOOLEAN
    BY Zenon
  <2>3. CASE opens
    <3>1. /\ server' = [phase |-> "opened", url |-> FALSE, vouched |-> passed]
          /\ file' = "writable"
      BY <1>2, <2>3 DEF Open
    <3>2. server' \in Server /\ server'.phase = "opened" /\ server'.vouched = passed
      BY <2>2, <3>1, VouchedType
    <3>3. QED
      BY <2>1, <2>3, <3>1, <3>2, OpenKeeps
  <2>4. CASE ~opens
    <3>1. /\ server' = [phase |-> "crashed", url |-> FALSE, vouched |-> passed]
          /\ file' = file
      BY <1>2, <2>4 DEF Open
    <3>2. server' \in Server /\ server'.phase = "crashed" /\ server'.vouched = passed
      BY <2>2, <3>1, VouchedType
    <3>3. passed => LooksFine
      BY DEF IInv, Found
    <3>4. passed => ~name \/ file = "directory" \/ (file = "missing" /\ dir = "full")
      BY <2>4, <3>3 DEF LooksFine, Writable, Appendable
    <3>5. QED
      BY <2>1, <3>1, <3>2, <3>4, OpenKeeps
  <2>5. QED
    BY <2>3, <2>4
<1>3. CASE Serve
  BY <1>3 DEF Serve, host, doctor, IInv, TypeOK, Found, Vouched, LooksFine, Writable, Server,
     GreenLight
<1>4. CASE Stop
  BY <1>4 DEF Stop, host, doctor, Down, IInv, TypeOK, Found, Vouched, LooksFine, Writable, Server,
     GreenLight
<1>5. CASE HostChanges
  <2>1. /\ ~fresh' /\ fresh' \in BOOLEAN /\ ~server'.vouched /\ server' \in Server
        /\ UNCHANGED <<step, failed, ok>>
    BY <1>5 DEF HostChanges, IInv, TypeOK, Server
  <2>2. url' \in BOOLEAN /\ name' \in BOOLEAN /\ dir' \in Dirs /\ file' \in Files
    BY <1>5 DEF HostChanges, IInv, TypeOK, Dirs, Files, Paths
  <2>3. QED
    BY <2>1, <2>2 DEF IInv, TypeOK, Found, Vouched
<1>6. CASE UNCHANGED vars
  BY <1>6 DEF vars, host, doctor, IInv, TypeOK, Found, Vouched, LooksFine, Writable, GreenLight
<1>7. QED
  BY <1>1, <1>2, <1>3, <1>4, <1>5, <1>6 DEF Next

LEMMA Invariance == Spec => []IInv
  BY InitIInv, StepIInv, PTL DEF Spec

(* After a doctor that passed, and on a host nobody changes, a server gets *)
(* its database URL, and its audit file but for what the doctor does not   *)
(* check: the operator's name, a directory at the path, a file that cannot *)
(* be created.                                                             *)
THEOREM Vouches == Spec => []GreenLight
<1>1. IInv => GreenLight
  BY DEF IInv, Vouched, GreenLight
<1>2. QED
  BY <1>1, Invariance, PTL

(* On a host nobody changes no step of the doctor changes it.              *)
THEOREM Harmless == Spec => ReadOnly
<1>1. IInv /\ [Next]_vars => [fresh /\ step' # step => UNCHANGED host]_vars
  <2> SUFFICES ASSUME IInv, Next, fresh, step' # step PROVE UNCHANGED host
    BY DEF vars
  <2>1. Doctor
    BY DEF Next, Open, Serve, Stop, HostChanges, doctor
  <2>2. QED
    BY <2>1, DoctorTouchesNothing
<1>2. QED
  BY <1>1, Invariance, PTL DEF Spec, ReadOnly
=============================================================================
