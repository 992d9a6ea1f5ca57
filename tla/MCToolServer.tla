---------------------------- MODULE MCToolServer ----------------------------
(* Small instances of ToolServer for TLC. *)
EXTENDS ToolServer, TLC

(* One request for every path through the handler. *)
Req(tool, args, tenant, shop) ==
  [tool |-> tool, args |-> args, tenant |-> tenant, shop |-> shop]

EveryPath ==
  { Req("ops_env_check", "valid", "absent", "absent"),
    Req("ops_db_schema", "valid", "absent", "absent"),
    Req("ops_sql_readonly", "valid", "absent", "absent"),
    Req("ops_sql_readonly", "invalid", "absent", "absent"),
    Req("ops_probe_connections", "valid", "absent", "unsafe"),
    Req("ops_probe_connections", "valid", "safe", "safe"),
    Req("ops_probe_connections", "valid", "unsafe", "absent"),
    Req("ops_notification_publish", "valid", "safe", "absent"),
    Req("ops_notification_publish", "valid", "unsafe", "absent") }

(* One tool of each kind of wait. *)
EveryWait ==
  { Req("ops_sql_readonly", "valid", "absent", "absent"),
    Req("ops_probe_connections", "valid", "safe", "absent"),
    Req("ops_notification_publish", "valid", "safe", "absent") }

CallSymmetry == Permutations(Calls)
=============================================================================
