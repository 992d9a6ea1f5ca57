--------------------------- MODULE BootstrapRole ---------------------------
(***************************************************************************)
(* bootstrap_readonly_role of db.py: create or repair the readonly role.   *)
(* Every statement commits by itself, so a run may break off between any   *)
(* two, be repeated, and race with another run and with the migrations of  *)
(* the application, which create and drop tables and schemas meanwhile.    *)
(*                                                                         *)
(* PostgreSQL (external) is modelled by the effect of each statement.  A   *)
(* run uses the application's own database URL, so the tables migrations   *)
(* create are the ones its default privileges are for.                     *)
(***************************************************************************)
EXTENDS Naturals, FiniteSets

CONSTANTS
  Runs,      \* executions of stonex-ops bootstrap-readonly-db
  Schemas,   \* user schemas
  Tables,
  Home       \* the schema of each table

ASSUME BootstrapAssumption == Home \in [Tables -> Schemas]

VARIABLES
  schemas, tables,              \* what exists
  role,                         \* "absent", "plain", "readonly"
  usage, select, defaults,      \* what the role was granted
  pc,                           \* the statement each run executes next
  listed,                       \* schemas: the result of USER_SCHEMA_SQL
  todo,                         \* the listed schemas not yet granted
  existed,                      \* was the role there when the run looked?
  known                         \* the tables at the time of the listing

vars == <<schemas, tables, role, usage, select, defaults, pc, listed, todo, existed, known>>
database == <<schemas, tables, role, usage, select, defaults>>
result == <<listed, existed, known>>

Statements == {"list", "check", "create", "alter", "connect", "usage", "select", "defaults", "verify"}

(* has_schema_privilege and has_table_privilege *)
Visible(t) == t \in select /\ Home[t] \in usage

Init ==
  /\ schemas \in SUBSET Schemas
  /\ tables \in SUBSET {t \in Tables : Home[t] \in schemas}
  /\ role = "absent"
  /\ usage = {} /\ select = {} /\ defaults = {}
  /\ pc = [r \in Runs |-> "list"]
  /\ listed = [r \in Runs |-> {}]
  /\ todo = [r \in Runs |-> {}]
  /\ existed = [r \in Runs |-> FALSE]
  /\ known = [r \in Runs |-> {}]

Goto(r, statement) == pc' = [pc EXCEPT ![r] = statement]

-----------------------------------------------------------------------------
(* The statements of a run. *)

ListSchemas(r) ==
  /\ pc[r] = "list"
  /\ listed' = [listed EXCEPT ![r] = schemas]
  /\ todo' = [todo EXCEPT ![r] = schemas]
  /\ known' = [known EXCEPT ![r] = tables]
  /\ Goto(r, "check")
  /\ UNCHANGED <<database, existed>>

(* Mutant of CheckRole: only a new role is configured. *)
CheckRoleOnly(r) ==
  /\ pc[r] = "check"
  /\ existed' = [existed EXCEPT ![r] = role # "absent"]
  /\ Goto(r, IF role = "absent" THEN "create" ELSE "connect")
  /\ UNCHANGED <<database, listed, todo, known>>

CheckRole(r) ==
  /\ pc[r] = "check"
  /\ existed' = [existed EXCEPT ![r] = role # "absent"]
  /\ Goto(r, IF role = "absent" THEN "create" ELSE "alter")
  /\ UNCHANGED <<database, listed, todo, known>>

(* Mutant of CreateRole: "if not exists", so that no race is an error. *)
CreateRoleQuietly(r) ==
  /\ pc[r] = "create"
  /\ role' = IF role = "absent" THEN "plain" ELSE role
  /\ Goto(r, "alter")
  /\ UNCHANGED <<schemas, tables, usage, select, defaults, result, todo>>

(* Raises if another run was faster: see Breaks. *)
CreateRole(r) ==
  /\ pc[r] = "create"
  /\ role = "absent"
  /\ role' = "plain"
  /\ Goto(r, "alter")
  /\ UNCHANGED <<schemas, tables, usage, select, defaults, result, todo>>

(* Mutant of AlterRole: the role is repaired from nothing. *)
AlterRoleAnew(r) ==
  /\ pc[r] = "alter"
  /\ role' = "readonly"
  /\ usage' = {} /\ select' = {} /\ defaults' = {}
  /\ Goto(r, "connect")
  /\ UNCHANGED <<schemas, tables, result, todo>>

AlterRole(r) ==
  /\ pc[r] = "alter"
  /\ role' = "readonly"
  /\ Goto(r, "connect")
  /\ UNCHANGED <<schemas, tables, usage, select, defaults, result, todo>>

(* The loop over the schemas, and its end. *)
NextSchema(r, left) ==
  /\ todo' = [todo EXCEPT ![r] = left]
  /\ Goto(r, IF left = {} THEN "verify" ELSE "usage")

GrantConnect(r) ==
  /\ pc[r] = "connect"
  /\ NextSchema(r, todo[r])
  /\ UNCHANGED <<database, result>>

(* The three statements for one schema, in the order of the listing (any   *)
(* order here).  A schema that is gone raises.                             *)
Current(r) == CHOOSE s \in todo[r] : TRUE

GrantUsage(r) ==
  /\ pc[r] = "usage"
  /\ Current(r) \in schemas
  /\ usage' = usage \cup {Current(r)}
  /\ Goto(r, "select")
  /\ UNCHANGED <<schemas, tables, role, select, defaults, result, todo>>

GrantSelect(r) ==
  /\ pc[r] = "select"
  /\ Current(r) \in schemas
  /\ select' = select \cup {t \in tables : Home[t] = Current(r)}
  /\ Goto(r, "defaults")
  /\ UNCHANGED <<schemas, tables, role, usage, defaults, result, todo>>

(* Mutants of AlterDefaults: the statement is left out; the loop ends      *)
(* after the first schema.                                                 *)
AlterNoDefaults(r) ==
  /\ pc[r] = "defaults"
  /\ NextSchema(r, todo[r] \ {Current(r)})
  /\ UNCHANGED <<database, result>>

AlterDefaultsOnce(r) ==
  /\ pc[r] = "defaults"
  /\ Current(r) \in schemas
  /\ defaults' = defaults \cup {Current(r)}
  /\ NextSchema(r, {})
  /\ UNCHANGED <<schemas, tables, role, usage, select, result>>

AlterDefaults(r) ==
  /\ pc[r] = "defaults"
  /\ Current(r) \in schemas
  /\ defaults' = defaults \cup {Current(r)}
  /\ NextSchema(r, todo[r] \ {Current(r)})
  /\ UNCHANGED <<schemas, tables, role, usage, select, result>>

(* As the role itself, on a connection of its own. *)
Verify(r) ==
  /\ pc[r] = "verify"
  /\ Goto(r, IF role = "readonly" /\ (\E t \in tables : Visible(t)) THEN "ok" ELSE "failed")
  /\ UNCHANGED <<database, result, todo>>

(* A statement raises, the connection is lost, or the run is killed. *)
Breaks(r) ==
  /\ pc[r] \in Statements
  /\ Goto(r, "failed")
  /\ UNCHANGED <<database, result, todo>>

-----------------------------------------------------------------------------
(* Migrations. *)

CreateSchema(s) ==
  /\ s \notin schemas
  /\ schemas' = schemas \cup {s}
  /\ UNCHANGED <<tables, role, usage, select, defaults, pc, listed, todo, existed, known>>

(* Once it is empty.  Every privilege in it goes with it, and it is no      *)
(* longer the schema that runs have listed.                                *)
DropSchema(s) ==
  /\ s \in schemas
  /\ \A t \in tables : Home[t] # s
  /\ schemas' = schemas \ {s}
  /\ usage' = usage \ {s} /\ defaults' = defaults \ {s}
  /\ listed' = [r \in Runs |-> listed[r] \ {s}]
  /\ UNCHANGED <<tables, role, select, pc, todo, existed, known>>

(* The new table has the default privileges of the moment. *)
CreateTable(t) ==
  /\ t \notin tables
  /\ Home[t] \in schemas
  /\ tables' = tables \cup {t}
  /\ select' = IF Home[t] \in defaults THEN select \cup {t} ELSE select
  /\ UNCHANGED <<schemas, role, usage, defaults, pc, listed, todo, existed, known>>

DropTable(t) ==
  /\ t \in tables
  /\ tables' = tables \ {t}
  /\ select' = select \ {t}
  /\ known' = [r \in Runs |-> known[r] \ {t}]
  /\ UNCHANGED <<schemas, role, usage, defaults, pc, listed, todo, existed>>

Migration ==
  \/ \E s \in Schemas : CreateSchema(s) \/ DropSchema(s)
  \/ \E t \in Tables : CreateTable(t) \/ DropTable(t)

Run(r) ==
  \/ ListSchemas(r) \/ CheckRole(r) \/ CreateRole(r) \/ AlterRole(r) \/ GrantConnect(r)
  \/ GrantUsage(r) \/ GrantSelect(r) \/ AlterDefaults(r) \/ Verify(r)
  \/ Breaks(r)

Next == Migration \/ \E r \in Runs : Run(r)

Spec == Init /\ [][Next]_vars
-----------------------------------------------------------------------------
(* Every variable holds a value the code can give it; privileges are only  *)
(* granted on what exists.                                                 *)
TypeOK ==
  /\ schemas \subseteq Schemas /\ tables \subseteq {t \in Tables : Home[t] \in schemas}
  /\ role \in {"absent", "plain", "readonly"}
  /\ usage \subseteq schemas /\ defaults \subseteq schemas /\ select \subseteq tables
  /\ pc \in [Runs -> Statements \cup {"ok", "failed"}]
  /\ listed \in [Runs -> SUBSET schemas]
  /\ todo \in [Runs -> SUBSET Schemas]
  /\ existed \in [Runs -> BOOLEAN]
  /\ known \in [Runs -> SUBSET tables]

(* The role sees nothing before its transactions are read-only, however    *)
(* many runs broke off or overlap (db.py: alter role before any grant).    *)
ReadOnlyFirst == usage # {} \/ select # {} \/ defaults # {} => role = "readonly"

(* A run that succeeds leaves every table visible that existed when it     *)
(* began and still does: a repeated run repairs what broken ones left.     *)
SuccessCoversKnown == \A r \in Runs : pc[r] = "ok" => \A t \in known[r] : Visible(t)

(* After a successful run a table is visible from its creation on, in      *)
(* every schema the run has listed.                                        *)
SuccessCoversFuture ==
  [][\A r \in Runs : pc[r] = "ok" =>
       \A t \in tables' \ tables : Home[t] \in listed[r] => Visible(t)']_vars

(* Of all the runs that succeed at most one says that it created the role. *)
OneCreator == \A q, r \in Runs : pc[q] = "ok" /\ pc[r] = "ok" /\ ~existed[q] /\ ~existed[r] => q = r

Role == INSTANCE ReadonlyRole WITH
  readonly <- role = "readonly",
  visible  <- {t \in tables : Visible(t)}

(* A run that repairs the role, and breaks off or is overtaken by others   *)
(* and by migrations, never takes from it a table it sees, nor makes it    *)
(* write: queries may go on meanwhile.                                     *)
ImplementsRole == Role!Spec
=============================================================================
