----------------------------- MODULE HostCheck -----------------------------
(***************************************************************************)
(* The doctor (run_doctor) and the start of the MCP server it is to vouch  *)
(* for (run_mcp_server up to the first request), on a host that others     *)
(* change meanwhile.  Both are given the same arguments, an audit file     *)
(* among them, and run as the same user.  The doctor is a process of its   *)
(* own, so what its audit check finds out may be stale at the next system  *)
(* call.                                                                   *)
(*                                                                         *)
(* The host is external: the stonx binary, where the database URL comes    *)
(* from, the database, the name of the operator, the directory of the      *)
(* audit file and the file.                                                *)
(***************************************************************************)

VARIABLES
  stonx,    \* the binary: absent, broken (--version fails) or working
  url,      \* does the readonly URL resolve?
  db,       \* the database: down, up, or without a visible table
  name,     \* is an operator given, or has the user a name?
  dir,      \* the directory of the audit file
  file,     \* what is at the path of the audit file
  step,     \* the doctor's next check
  failed,   \* ~DoctorResult.passed
  ok,       \* its local of the audit check
  fresh,    \* history: has the host stayed as it was when the doctor began?
  server    \* the start of the server

host == <<stonx, url, db, name, dir, file>>
doctor == <<step, failed, ok, fresh>>
vars == <<host, doctor, server>>

Steps == {"none", "binary", "version", "url", "schema", "sql", "dir", "file", "absent", "touch",
          "unlink", "audit", "done"}

(* vouched: a doctor passed just before it started *)
Down == [phase |-> "down", url |-> FALSE, vouched |-> FALSE]
Server == [phase : {"down", "opened", "serving", "crashed"}, url : BOOLEAN, vouched : BOOLEAN]

Paths == {"missing", "closed", "writable"}

(* full: writable to os.access, but the audit file cannot be created in it *)
Dirs == Paths \cup {"full"}

(* directory: there and writable to os.access, but no file *)
Files == Paths \cup {"directory"}

Init ==
  /\ stonx \in {"absent", "broken", "working"} /\ url \in BOOLEAN /\ db \in {"down", "empty", "up"}
  /\ name \in BOOLEAN /\ dir \in Dirs /\ file \in Files
  /\ dir = "missing" => file = "missing"
  /\ step = "none" /\ failed = FALSE /\ ok = FALSE /\ fresh = TRUE
  /\ server = Down

-----------------------------------------------------------------------------
(* The doctor. *)

Begin ==
  /\ step \in {"none", "done"}
  /\ step' = "binary" /\ failed' = FALSE /\ fresh' = TRUE
  /\ UNCHANGED <<host, ok, server>>

(* result.add(..., True), and on to the next check. *)
Passes(next) == step' = next /\ UNCHANGED failed

(* result.add(..., False), and on to the next check, or "done": return. *)
Fails(next) == step' = next /\ failed' = TRUE

(* The checks before the audit file, each with what it demands of the      *)
(* host.  A database without tables fails its check but does not end it.   *)
CheckHost ==
  /\ \/ step = "binary" /\ IF stonx # "absent" THEN Passes("version") ELSE Fails("done")
     \/ step = "version" /\ IF stonx = "working" THEN Passes("url") ELSE Fails("done")
     \/ step = "url" /\ IF url THEN Passes("schema") ELSE Fails("done")
     \/ step = "schema" /\ IF db = "up" THEN Passes("sql")
                           ELSE Fails(IF db = "empty" THEN "sql" ELSE "done")
     \/ step = "sql" /\ IF db # "down" THEN Passes("dir") ELSE Fails("done")
  /\ UNCHANGED <<host, ok, fresh, server>>

(* audit_dir.is_dir() and os.access *)
CheckDir ==
  /\ step = "dir"
  /\ ok' = (dir = "writable" \/ dir = "full")
  /\ step' = "file"
  /\ UNCHANGED <<host, failed, fresh, server>>

(* Mutant of CheckFile: the directory is enough. *)
CheckNoFile ==
  /\ step = "file"
  /\ UNCHANGED ok
  /\ step' = IF ok' THEN "audit" ELSE "absent"
  /\ UNCHANGED <<host, failed, fresh, server>>

(* A file that is there must be writable too. *)
CheckFile ==
  /\ step = "file"
  /\ ok' = (ok /\ file # "closed")
  /\ step' = IF ok' THEN "audit" ELSE "absent"
  /\ UNCHANGED <<host, failed, fresh, server>>

(* Mutant of CheckAbsent: any path that is not ok is tried. *)
CheckNothing ==
  /\ step = "absent"
  /\ step' = "touch"
  /\ UNCHANGED <<host, failed, ok, fresh, server>>

(* Only a file that is not there is tried. *)
CheckAbsent ==
  /\ step = "absent"
  /\ step' = IF file = "missing" THEN "touch" ELSE "audit"
  /\ UNCHANGED <<host, failed, ok, fresh, server>>

(* touch() leaves what is there as it is, if it may.                       *)
Touch ==
  /\ step = "touch"
  /\ \/ file # "missing" /\ UNCHANGED file /\ step' = "unlink"
     \/ file = "missing" /\ dir = "writable" /\ file' = "writable" /\ step' = "unlink"
     \/ file = "missing" /\ dir # "writable" /\ UNCHANGED file /\ step' = "audit"
     \/ file = "closed" /\ UNCHANGED file /\ step' = "audit"
  /\ UNCHANGED <<stonx, url, db, name, dir, failed, ok, fresh, server>>

Unlink ==
  /\ step = "unlink"
  /\ IF file \in {"closed", "writable"} /\ dir \in {"writable", "full"}
     THEN file' = "missing" /\ ok' = TRUE
     ELSE UNCHANGED <<file, ok>>
  /\ step' = "audit"
  /\ UNCHANGED <<stonx, url, db, name, dir, failed, fresh, server>>

(* The tool definitions are as expected: they are compiled in.             *)
Conclude ==
  /\ step = "audit"
  /\ IF ok THEN Passes("done") ELSE Fails("done")
  /\ UNCHANGED <<host, ok, fresh, server>>

Doctor ==
  \/ Begin \/ CheckHost \/ CheckDir \/ CheckFile \/ CheckAbsent \/ Touch \/ Unlink \/ Conclude

-----------------------------------------------------------------------------
(* The server. *)

Appendable == file = "writable" \/ (file = "missing" /\ dir = "writable")

(* getpass.getuser() raises, open(audit_file, "a") does, or it creates the *)
(* file.                                                                   *)
Open ==
  /\ server.phase \in {"down", "crashed"}
  /\ LET opens == name /\ Appendable IN
     /\ server' = [phase |-> IF opens THEN "opened" ELSE "crashed", url |-> FALSE,
                   vouched |-> step = "done" /\ ~failed /\ fresh]
     /\ IF opens THEN file' = "writable" ELSE UNCHANGED file
  /\ UNCHANGED <<stonx, url, db, name, dir, doctor>>

(* stonx --version has ended, its outcome is only printed; the URL is      *)
(* resolved, or is None for the life of the server.                        *)
Serve ==
  /\ server.phase = "opened"
  /\ server' = [server EXCEPT !.phase = "serving", !.url = url]
  /\ UNCHANGED <<host, doctor>>

Stop ==
  /\ server.phase = "serving"
  /\ server' = Down
  /\ UNCHANGED <<host, doctor>>

-----------------------------------------------------------------------------
(* Somebody else installs, breaks or repairs something. *)
HostChanges ==
  /\ \/ /\ \/ stonx' \in {"absent", "broken", "working"} /\ UNCHANGED <<url, db, name>>
           \/ url' = ~url /\ UNCHANGED <<stonx, db, name>>
           \/ db' \in {"down", "empty", "up"} /\ UNCHANGED <<stonx, url, name>>
           \/ name' = ~name /\ UNCHANGED <<stonx, url, db>>
        /\ UNCHANGED <<dir, file>>
     \/ /\ dir' \in Dirs
        /\ file' \in IF dir' = "missing" THEN {"missing"} ELSE {file}
        /\ UNCHANGED <<stonx, url, db, name>>
     \/ /\ dir # "missing" /\ file' \in Files \ {file}
        /\ UNCHANGED <<stonx, url, db, name, dir>>
  /\ fresh' = FALSE
  /\ server' = [server EXCEPT !.vouched = FALSE]
  /\ UNCHANGED <<step, failed, ok>>

Next == Doctor \/ Open \/ Serve \/ Stop \/ HostChanges

Spec == Init /\ [][Next]_vars
-----------------------------------------------------------------------------
(* What the doctor passes on a host that nobody changes, starts, with the  *)
(* database URL resolved (the server keeps the one it has then, or none,   *)
(* for life), but for what the doctor does not check: that the operator    *)
(* has a name, that what is at the audit file's path is a file, and that   *)
(* one that is not there can be created.                                   *)
GreenLight ==
  server.vouched =>
    /\ server.phase = "crashed" =>
         ~name \/ file = "directory" \/ (file = "missing" /\ dir = "full")
    /\ server.phase = "serving" => server.url

(* All checks are read-only (doctor.py): on a host that nobody changes the *)
(* doctor changes nothing.  Its touch and unlink run only if the path was  *)
(* made writable under its eyes, and may then remove another's audit file. *)
ReadOnly == [][fresh /\ step' # step => UNCHANGED host]_vars

=============================================================================
