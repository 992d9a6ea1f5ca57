------------------------ MODULE BootstrapRoleProofs ------------------------
(***************************************************************************)
(* Theorems about BootstrapRole, for any number of runs, schemas and       *)
(* tables.  What a run promises at its end it has achieved statement by    *)
(* statement, while other runs and migrations interfere: Progress says     *)
(* what holds before each statement.                                       *)
(***************************************************************************)
EXTENDS BootstrapRole, TLAPS

Granting == {"usage", "select", "defaults"}
Configured == Granting \cup {"connect", "verify", "ok"}

Progress(r) ==
  /\ pc[r] \in Configured => role = "readonly"
  /\ pc[r] \in Granting => todo[r] # {}
  /\ pc[r] \in {"verify", "ok"} => todo[r] = {}
  /\ pc[r] # "failed" =>
       \A t \in known[r] :
         \/ Home[t] \in todo[r]
         \/ pc[r] \in Granting \cup {"verify", "ok"} /\ Visible(t)
  /\ pc[r] \in {"select", "defaults"} => \A t \in known[r] : Home[t] = Current(r) => Home[t] \in usage
  /\ pc[r] = "defaults" => \A t \in known[r] : Home[t] = Current(r) => t \in select

(* The run that created the role, once it has. *)
Created(r) == pc[r] \in Configured \cup {"alter"} /\ ~existed[r]

BootInd ==
  /\ TypeOK
  /\ ReadOnlyFirst
  /\ \A r \in Runs : Progress(r)
  /\ \A r \in Runs : Created(r) => role # "absent"
  /\ \A q, r \in Runs : Created(q) /\ Created(r) => q = r

-----------------------------------------------------------------------------
LEMMA InitBootInd == Init => BootInd
<1> SUFFICES ASSUME Init PROVE BootInd
  OBVIOUS
<1>1. TypeOK /\ ReadOnlyFirst
  BY DEF Init, TypeOK, ReadOnlyFirst, Statements
<1>2. \A r \in Runs : Progress(r) /\ ~Created(r)
  BY DEF Init, Progress, Created, Configured, Granting
<1>3. QED
  BY <1>1, <1>2 DEF BootInd

(* The loop always works on a schema that is still to be done. *)
LEMMA CurrentInTodo == \A r \in Runs : todo[r] # {} => Current(r) \in todo[r]
  BY DEF Current

(* Steps that leave a run where it is, and lose no privilege of a table it *)
(* knows, keep its progress.                                               *)
LEMMA Bystander ==
  ASSUME BootInd, NEW r \in Runs,
         pc'[r] = pc[r], todo'[r] = todo[r], known'[r] \subseteq known[r],
         \A t \in known'[r] : /\ Home[t] \in usage => Home[t] \in usage'
                              /\ t \in select => t \in select',
         role = "readonly" => role' = "readonly"
  PROVE  Progress(r)'
<1>1. Progress(r)
  BY DEF BootInd
<1>2. Current(r)' = Current(r)
  BY DEF Current
<1>3. \A t \in known'[r] : Visible(t) => Visible(t)'
  BY DEF Visible
<1>4. QED
  BY <1>1, <1>2, <1>3 DEF Progress

(* The statements of run q in turn. *)
LEMMA RunKeeps == ASSUME BootInd, NEW q \in Runs, Run(q) PROVE BootInd'
<1> USE DEF Granting, Configured
<1>t. /\ TypeOK /\ pc \in [Runs -> Statements \cup {"ok", "failed"}]
      /\ todo \in [Runs -> SUBSET Schemas] /\ known \in [Runs -> SUBSET tables]
      /\ listed \in [Runs -> SUBSET schemas] /\ existed \in [Runs -> BOOLEAN]
      /\ schemas \subseteq Schemas /\ tables \subseteq {t \in Tables : Home[t] \in schemas}
  BY DEF BootInd, TypeOK
<1>p. Progress(q)
  BY DEF BootInd
(* What is left to show of a step of q, the other runs being bystanders. *)
<1>s. ASSUME /\ \A r \in Runs \ {q} : pc'[r] = pc[r] /\ todo'[r] = todo[r]
                                      /\ known'[r] = known[r] /\ existed'[r] = existed[r],
             usage \subseteq usage', select \subseteq select', defaults \subseteq defaults',
             role = "readonly" => role' = "readonly",
             role # "absent" => role' # "absent",
             TypeOK', Progress(q)', ReadOnlyFirst',
             Created(q)' => \/ Created(q)
                            \/ role = "absent" /\ role' # "absent"
      PROVE  BootInd'
  <2>1. \A r \in Runs : Progress(r)'
    <3>1. ASSUME NEW r \in Runs, r # q PROVE Progress(r)'
      BY <1>s, <3>1, Bystander
    <3>2. QED
      BY <1>s, <3>1
  <2>2. \A r \in Runs \ {q} : Created(r)' <=> Created(r)
    BY <1>s DEF Created
  <2>3. \A r \in Runs : Created(r) => role # "absent"
    BY DEF BootInd
  <2>4. \A r \in Runs : Created(r)' => role' # "absent"
    BY <1>s, <2>2, <2>3
  <2>5. \A a, b \in Runs : Created(a) /\ Created(b) => a = b
    BY DEF BootInd
  <2>6. \A a, b \in Runs : Created(a)' /\ Created(b)' => a = b
    BY <1>s, <2>2, <2>3, <2>5
  <2>7. QED
    BY <1>s, <2>1, <2>4, <2>6 DEF BootInd
<1>1. CASE ListSchemas(q)
  <2>1. TypeOK'
    BY <1>1, <1>t DEF ListSchemas, Goto, database, TypeOK, Statements
  <2>2. Progress(q)'
    BY <1>1, <1>t DEF ListSchemas, Goto, database, Progress
  <2>3. ReadOnlyFirst' /\ ~Created(q)'
    BY <1>1, <1>t DEF ListSchemas, Goto, database, BootInd, ReadOnlyFirst, Created
  <2>4. QED
    BY <1>1, <1>t, <1>s, <2>1, <2>2, <2>3 DEF ListSchemas, Goto, database
<1>2. CASE CheckRole(q)
  <2>1. TypeOK'
    BY <1>2, <1>t DEF CheckRole, Goto, database, TypeOK, Statements
  <2>2. Progress(q)'
    BY <1>2, <1>t, <1>p DEF CheckRole, Goto, database, Progress
  <2>3. ReadOnlyFirst' /\ ~Created(q)'
    BY <1>2, <1>t DEF CheckRole, Goto, database, BootInd, ReadOnlyFirst, Created
  <2>4. QED
    BY <1>2, <1>t, <1>s, <2>1, <2>2, <2>3 DEF CheckRole, Goto, database
<1>3. CASE CreateRole(q)
  <2>1. TypeOK'
    BY <1>3, <1>t DEF CreateRole, Goto, result, TypeOK, Statements
  <2>2. Progress(q)'
    BY <1>3, <1>t, <1>p DEF CreateRole, Goto, result, Progress
  <2>3. ReadOnlyFirst' /\ role = "absent" /\ role' # "absent"
    BY <1>3, <1>t DEF CreateRole, BootInd, ReadOnlyFirst
  <2>4. QED
    BY <1>3, <1>t, <1>s, <2>1, <2>2, <2>3 DEF CreateRole, Goto, result
<1>4. CASE AlterRole(q)
  <2>1. TypeOK'
    BY <1>4, <1>t DEF AlterRole, Goto, result, TypeOK, Statements
  <2>2. Progress(q)'
    BY <1>4, <1>t, <1>p DEF AlterRole, Goto, result, Progress
  <2>3. ReadOnlyFirst' /\ (Created(q)' => Created(q))
    BY <1>4, <1>t DEF AlterRole, Goto, result, ReadOnlyFirst, Created
  <2>4. QED
    BY <1>4, <1>t, <1>s, <2>1, <2>2, <2>3 DEF AlterRole, Goto, result
<1>5. CASE GrantConnect(q)
  <2>1. TypeOK'
    BY <1>5, <1>t DEF GrantConnect, NextSchema, Goto, database, result, TypeOK, Statements
  <2>2. Progress(q)'
    BY <1>5, <1>t, <1>p DEF GrantConnect, NextSchema, Goto, database, result, Progress
  <2>3. ReadOnlyFirst' /\ (Created(q)' => Created(q))
    BY <1>5, <1>t DEF GrantConnect, NextSchema, Goto, database, result, BootInd, ReadOnlyFirst, Created
  <2>4. QED
    BY <1>5, <1>t, <1>s, <2>1, <2>2, <2>3 DEF GrantConnect, NextSchema, Goto, database, result
<1>6. CASE GrantUsage(q)
  <2>1. TypeOK'
    BY <1>6, <1>t DEF GrantUsage, Goto, result, TypeOK, Statements
  <2>2. Progress(q)'
    BY <1>6, <1>t, <1>p DEF GrantUsage, Goto, result, Progress, Current, Visible
  <2>3. ReadOnlyFirst' /\ (Created(q)' => Created(q))
    BY <1>6, <1>t, <1>p DEF GrantUsage, Goto, result, Progress, ReadOnlyFirst, Created
  <2>4. QED
    BY <1>6, <1>t, <1>s, <2>1, <2>2, <2>3 DEF GrantUsage, Goto, result
<1>7. CASE GrantSelect(q)
  <2>1. TypeOK'
    BY <1>7, <1>t DEF GrantSelect, Goto, result, TypeOK, Statements
  <2>2. Progress(q)'
    BY <1>7, <1>t, <1>p DEF GrantSelect, Goto, result, Progress, Current, Visible
  <2>3. ReadOnlyFirst' /\ (Created(q)' => Created(q))
    BY <1>7, <1>t, <1>p DEF GrantSelect, Goto, result, Progress, ReadOnlyFirst, Created
  <2>4. QED
    BY <1>7, <1>t, <1>s, <2>1, <2>2, <2>3 DEF GrantSelect, Goto, result
<1>8. CASE AlterDefaults(q)
  <2>1. TypeOK'
    BY <1>8, <1>t DEF AlterDefaults, NextSchema, Goto, result, TypeOK, Statements
  <2>2. Progress(q)'
    BY <1>8, <1>t, <1>p, CurrentInTodo
    DEF AlterDefaults, NextSchema, Goto, result, Progress, Visible
  <2>3. ReadOnlyFirst' /\ (Created(q)' => Created(q))
    BY <1>8, <1>t, <1>p
    DEF AlterDefaults, NextSchema, Goto, result, Progress, ReadOnlyFirst, Created
  <2>4. QED
    BY <1>8, <1>t, <1>s, <2>1, <2>2, <2>3 DEF AlterDefaults, NextSchema, Goto, result
<1>9. CASE Verify(q) \/ Breaks(q)
  <2>1. TypeOK'
    BY <1>9, <1>t DEF Verify, Breaks, Goto, database, result, TypeOK, Statements
  <2>2. Progress(q)'
    BY <1>9, <1>t, <1>p DEF Verify, Breaks, Goto, database, result, Progress, Visible
  <2>3. ReadOnlyFirst' /\ (Created(q)' => Created(q))
    BY <1>9, <1>t DEF Verify, Breaks, Goto, database, result, BootInd, ReadOnlyFirst, Created
  <2>4. QED
    BY <1>9, <1>t, <1>s, <2>1, <2>2, <2>3 DEF Verify, Breaks, Goto, database, result
<1>10. QED
  BY <1>1, <1>2, <1>3, <1>4, <1>5, <1>6, <1>7, <1>8, <1>9 DEF Run

(* Migrations take no privilege from a table that stays. *)
LEMMA MigrationKeeps == BootInd /\ Migration => BootInd'
<1> SUFFICES ASSUME BootInd, Migration PROVE BootInd'
  OBVIOUS
<1>1. TypeOK'
  <2>1. ASSUME NEW s \in Schemas, CreateSchema(s) PROVE TypeOK'
    BY <2>1 DEF CreateSchema, BootInd, TypeOK
  <2>2. ASSUME NEW s \in Schemas, DropSchema(s) PROVE TypeOK'
    BY <2>2 DEF DropSchema, BootInd, TypeOK
  <2>3. ASSUME NEW t \in Tables, CreateTable(t) PROVE TypeOK'
    BY <2>3 DEF CreateTable, BootInd, TypeOK
  <2>4. ASSUME NEW t \in Tables, DropTable(t) PROVE TypeOK'
    BY <2>4 DEF DropTable, BootInd, TypeOK
  <2>5. QED
    BY <2>1, <2>2, <2>3, <2>4 DEF Migration
<1>2. UNCHANGED <<role, pc, todo, existed>>
  BY DEF Migration, CreateSchema, DropSchema, CreateTable, DropTable
<1>3. ReadOnlyFirst'
  BY DEF Migration, CreateSchema, DropSchema, CreateTable, DropTable, BootInd, ReadOnlyFirst
<1>4. ASSUME NEW r \in Runs PROVE Progress(r)'
  <2>1. known \in [Runs -> SUBSET tables]
    BY DEF BootInd, TypeOK
  <2>2. /\ known'[r] \subseteq known[r]
        /\ \A t \in known'[r] : /\ Home[t] \in usage => Home[t] \in usage'
                                /\ t \in select => t \in select'
    BY <2>1 DEF Migration, CreateSchema, DropSchema, CreateTable, DropTable
  <2>3. QED
    BY <1>2, <2>2, Bystander
<1>5. \A r \in Runs : Created(r)' <=> Created(r)
  BY <1>2 DEF Created
<1>6. QED
  BY <1>1, <1>2, <1>3, <1>4, <1>5 DEF BootInd

LEMMA NextBootInd == BootInd /\ [Next]_vars => BootInd'
<1> SUFFICES ASSUME BootInd, [Next]_vars PROVE BootInd'
  OBVIOUS
<1>1. CASE UNCHANGED vars
  BY <1>1 DEF vars, BootInd, TypeOK, ReadOnlyFirst, Progress, Created, Visible, Current
<1>2. QED
  BY <1>1, RunKeeps, MigrationKeeps DEF Next

THEOREM BootInductive == Spec => []BootInd
  BY InitBootInd, NextBootInd, PTL DEF Spec

(* Every variable holds a value the bootstrap and the migrations can give it. *)
THEOREM TypeCorrect == Spec => []TypeOK
<1>1. BootInd => TypeOK
  BY DEF BootInd
<1>2. QED
  BY <1>1, BootInductive, PTL

(* The role is granted nothing before its transactions are read-only,      *)
(* however many runs break off or overlap.                                 *)
THEOREM ReadOnly == Spec => []ReadOnlyFirst
<1>1. BootInd => ReadOnlyFirst
  BY DEF BootInd
<1>2. QED
  BY <1>1, BootInductive, PTL

(* A successful run leaves what it found visible, whatever broken runs     *)
(* left behind and whatever migrations do meanwhile.                       *)
THEOREM Repairs == Spec => []SuccessCoversKnown
<1>1. BootInd => SuccessCoversKnown
  BY DEF BootInd, Progress, SuccessCoversKnown
<1>2. QED
  BY <1>1, BootInductive, PTL

(* At most one of the successful runs says it created the role. *)
THEOREM CreatedOnce == Spec => []OneCreator
<1>1. BootInd => OneCreator
  BY DEF BootInd, Created, Configured, OneCreator
<1>2. QED
  BY <1>1, BootInductive, PTL
-----------------------------------------------------------------------------
(* The future: of the schemas a run has listed and that are still there,   *)
(* those it is through with are usable and have the default privileges.    *)
Covers(r) ==
  pc[r] \notin {"list", "failed"} =>
    /\ \A s \in listed[r] : s \in todo[r] \/ (s \in usage /\ s \in defaults)
    /\ pc[r] \in {"select", "defaults"} /\ Current(r) \in listed[r] => Current(r) \in usage

FutureInd == BootInd /\ \A r \in Runs : Covers(r)

LEMMA InitFutureInd == Init => FutureInd
  BY InitBootInd DEF Init, FutureInd, Covers

(* A run keeps what the others have covered: it takes nothing away. *)
LEMMA OthersCovered ==
  ASSUME FutureInd, NEW q \in Runs, Run(q), NEW r \in Runs, r # q
  PROVE  Covers(r)'
<1>1. TypeOK /\ Covers(r)
  BY DEF FutureInd, BootInd
<1>2. /\ pc'[r] = pc[r] /\ todo'[r] = todo[r] /\ listed'[r] = listed[r]
      /\ usage \subseteq usage' /\ defaults \subseteq defaults'
  BY <1>1 DEF TypeOK, Run, ListSchemas, CheckRole, CreateRole, AlterRole, GrantConnect, GrantUsage,
     GrantSelect, AlterDefaults, Verify, Breaks, NextSchema, Goto, database, result
<1>3. Current(r)' = Current(r)
  BY <1>2 DEF Current
<1>4. QED
  BY <1>1, <1>2, <1>3 DEF Covers

LEMMA OwnCovered ==
  ASSUME FutureInd, NEW q \in Runs, Run(q)
  PROVE  Covers(q)'
<1>1. /\ pc \in [Runs -> Statements \cup {"ok", "failed"}]
      /\ todo \in [Runs -> SUBSET Schemas] /\ listed \in [Runs -> SUBSET schemas]
      /\ Covers(q)
  BY DEF FutureInd, BootInd, TypeOK
<1>2. pc[q] \in Granting => todo[q] # {}
  BY DEF FutureInd, BootInd, Progress
<1>3. CASE ListSchemas(q)
  BY <1>1, <1>3 DEF ListSchemas, Goto, database, Covers
<1>4. CASE CheckRole(q) \/ CreateRole(q) \/ AlterRole(q)
  BY <1>1, <1>4 DEF CheckRole, CreateRole, AlterRole, Goto, database, result, Covers
<1>5. CASE GrantConnect(q)
  BY <1>1, <1>5 DEF GrantConnect, NextSchema, Goto, database, result, Covers
<1>6. CASE GrantUsage(q)
  <2>1. Current(q)' = Current(q) /\ Current(q) \in usage'
    BY <1>6 DEF GrantUsage, Current
  <2>2. QED
    BY <1>1, <1>6, <2>1 DEF GrantUsage, Goto, result, Covers
<1>7. CASE GrantSelect(q)
  <2>1. Current(q)' = Current(q)
    BY <1>7 DEF GrantSelect, Current
  <2>2. QED
    BY <1>1, <1>7, <2>1 DEF GrantSelect, Goto, result, Covers
<1>8. CASE AlterDefaults(q)
  <2>1. /\ pc'[q] \in {"verify", "usage"} /\ todo'[q] = todo[q] \ {Current(q)}
        /\ listed' = listed /\ usage' = usage /\ defaults' = defaults \cup {Current(q)}
    BY <1>1, <1>8 DEF AlterDefaults, NextSchema, Goto, result
  <2>2. Current(q) \in listed[q] => Current(q) \in usage
    BY <1>1, <1>8 DEF AlterDefaults, Covers
  <2>3. pc[q] = "defaults"
    BY <1>8 DEF AlterDefaults
  <2>4. QED
    BY <1>1, <2>1, <2>2, <2>3 DEF Covers
<1>9. CASE Verify(q) \/ Breaks(q)
  BY <1>1, <1>9 DEF Verify, Breaks, Goto, database, result, Covers
<1>10. QED
  BY <1>3, <1>4, <1>5, <1>6, <1>7, <1>8, <1>9 DEF Run

(* A schema that is dropped is no longer one of those a run has listed. *)
LEMMA MigrationCovered ==
  ASSUME FutureInd, Migration, NEW r \in Runs
  PROVE  Covers(r)'
<1>1. Covers(r)
  BY DEF FutureInd
<1>2. UNCHANGED <<pc, todo>>
  BY DEF Migration, CreateSchema, DropSchema, CreateTable, DropTable
<1>3. listed'[r] \subseteq listed[r]
  BY DEF Migration, CreateSchema, DropSchema, CreateTable, DropTable
<1>4. \A s \in listed'[r] : (s \in usage => s \in usage') /\ (s \in defaults => s \in defaults')
  BY DEF Migration, CreateSchema, DropSchema, CreateTable, DropTable
<1>5. Current(r)' = Current(r)
  BY <1>2 DEF Current
<1>6. QED
  BY <1>1, <1>2, <1>3, <1>4, <1>5 DEF Covers

LEMMA NextFutureInd == FutureInd /\ [Next]_vars => FutureInd'
<1> SUFFICES ASSUME FutureInd, [Next]_vars PROVE FutureInd'
  OBVIOUS
<1>1. BootInd'
  BY NextBootInd DEF FutureInd
<1>2. CASE UNCHANGED vars
  BY <1>1, <1>2 DEF vars, FutureInd, Covers, Current
<1>3. CASE Migration
  BY <1>1, <1>3, MigrationCovered DEF FutureInd
<1>4. ASSUME NEW q \in Runs, Run(q) PROVE FutureInd'
  BY <1>1, <1>4, OthersCovered, OwnCovered DEF FutureInd
<1>5. QED
  BY <1>2, <1>3, <1>4 DEF Next

(* After a successful run a table of a schema it has listed is visible     *)
(* from its creation on, whatever was dropped and created meanwhile.       *)
THEOREM CoversFuture == Spec => SuccessCoversFuture
<1>1. FutureInd /\ [Next]_vars =>
        [\A r \in Runs : pc[r] = "ok" =>
           \A t \in tables' \ tables : Home[t] \in listed[r] => Visible(t)']_vars
  <2> SUFFICES ASSUME FutureInd, Next, NEW r \in Runs, pc[r] = "ok",
                      NEW t \in tables' \ tables, Home[t] \in listed[r]
               PROVE  Visible(t)'
    OBVIOUS
  <2>1. Home[t] \in usage /\ Home[t] \in defaults
    BY DEF FutureInd, BootInd, Progress, Covers
  <2>2. CreateTable(t)
    BY DEF Next, Migration, CreateSchema, DropSchema, CreateTable, DropTable, Run, ListSchemas,
       CheckRole, CreateRole, AlterRole, GrantConnect, GrantUsage, GrantSelect, AlterDefaults,
       Verify, Breaks, database, result
  <2>3. QED
    BY <2>1, <2>2 DEF CreateTable, Visible
<1>2. QED
  BY <1>1, InitFutureInd, NextFutureInd, PTL DEF Spec, SuccessCoversFuture

-----------------------------------------------------------------------------
(* What the role is to those who log in as it. *)

Seen == {t \in tables : Visible(t)}
IsReadonly == role = "readonly"

LEMMA InitRole == Init => Role!Init
  BY DEF Init, Role!Init, Visible

(* Statements grant, and only when the role has been made read-only. *)
LEMMA GrantsReveal ==
  ASSUME TypeOK, tables' = tables, usage \subseteq usage', select \subseteq select',
         role' = role, role = "readonly" \/ UNCHANGED <<usage, select>>
  PROVE  [Role!Next]_(Role!vars)
<1>1. Seen \subseteq Seen' /\ Seen' \subseteq tables
  BY DEF Seen, Visible
<1>2. CASE role = "readonly"
  <2>1. Role!Reveal
    BY <1>1, <1>2 DEF Role!Reveal, Seen
  <2>2. QED
    BY <2>1 DEF Role!Next
<1>3. CASE UNCHANGED <<usage, select>>
  BY <1>3 DEF Role!vars, Visible
<1>4. QED
  BY <1>2, <1>3

LEMMA RunShows == ASSUME BootInd, NEW r \in Runs, Run(r) PROVE [Role!Next]_(Role!vars)
<1>t. TypeOK /\ Progress(r)
  BY DEF BootInd
<1>1. CASE ListSchemas(r) \/ CheckRole(r) \/ GrantConnect(r) \/ Verify(r) \/ Breaks(r)
  BY <1>1, <1>t, GrantsReveal DEF ListSchemas, CheckRole, GrantConnect, Verify, Breaks, database
<1>2. CASE CreateRole(r)
  <2>1. IsReadonly' = IsReadonly
    BY <1>2 DEF CreateRole, IsReadonly
  <2>2. QED
    BY <1>2, <2>1 DEF CreateRole, Role!vars, IsReadonly, Visible
<1>3. CASE AlterRole(r)
  <2>1. IsReadonly' = TRUE
    BY <1>3 DEF AlterRole, IsReadonly
  <2>2. Role!Harden
    BY <1>3, <2>1 DEF AlterRole, Role!Harden, IsReadonly, Visible
  <2>3. QED
    BY <2>2 DEF Role!Next
<1>4. CASE GrantUsage(r) \/ GrantSelect(r) \/ AlterDefaults(r)
  <2>1. role = "readonly"
    BY <1>4, <1>t DEF GrantUsage, GrantSelect, AlterDefaults, Progress, Configured, Granting
  <2>2. /\ tables' = tables /\ role' = role
        /\ usage \subseteq usage' /\ select \subseteq select'
    BY <1>4 DEF GrantUsage, GrantSelect, AlterDefaults
  <2>3. QED
    BY <1>t, <2>1, <2>2, GrantsReveal
<1>5. QED
  BY <1>1, <1>2, <1>3, <1>4 DEF Run

LEMMA MigrationShows == ASSUME BootInd, Migration PROVE [Role!Next]_(Role!vars)
<1>t. TypeOK /\ ReadOnlyFirst
  BY DEF BootInd
<1>1. ASSUME NEW s \in Schemas, CreateSchema(s) \/ DropSchema(s) PROVE [Role!Next]_(Role!vars)
  <2>1. \A t \in tables : Visible(t)' <=> Visible(t)
    BY <1>1 DEF CreateSchema, DropSchema, Visible
  <2>2. Seen' = Seen /\ UNCHANGED <<tables, role>>
    BY <1>1, <2>1 DEF CreateSchema, DropSchema, Seen
  <2>3. QED
    BY <2>2 DEF Role!vars, Seen
<1>2. ASSUME NEW t \in Tables, CreateTable(t) PROVE [Role!Next]_(Role!vars)
  <2>1. tables' = tables \cup {t} /\ UNCHANGED <<role, usage>> /\ t \notin tables
    BY <1>2 DEF CreateTable
  <2>2. \A u \in tables : Visible(u)' <=> Visible(u)
    BY <1>2, <2>1 DEF CreateTable, Visible
  <2>3. Visible(t)' => role = "readonly"
    BY <1>2, <1>t, <2>1 DEF CreateTable, Visible, TypeOK, ReadOnlyFirst
  <2>4. Seen' = Seen \/ (role = "readonly" /\ Seen' = Seen \cup {t})
    BY <2>1, <2>2, <2>3 DEF Seen
  <2>5. Role!Create(t)
    BY <2>1, <2>4 DEF Role!Create, Seen
  <2>6. QED
    BY <2>5 DEF Role!Next
<1>3. ASSUME NEW t \in Tables, DropTable(t) PROVE [Role!Next]_(Role!vars)
  <2>1. tables' = tables \ {t} /\ UNCHANGED <<role, usage>> /\ select' = select \ {t}
    BY <1>3 DEF DropTable
  <2>2. Seen' = Seen \ {t}
    BY <2>1 DEF Seen, Visible
  <2>3. Role!Drop(t)
    BY <2>1, <2>2 DEF Role!Drop, Seen
  <2>4. QED
    BY <2>3 DEF Role!Next
<1>4. QED
  BY <1>1, <1>2, <1>3 DEF Migration

LEMMA StepRole == BootInd /\ [Next]_vars => [Role!Next]_(Role!vars)
<1> SUFFICES ASSUME BootInd, [Next]_vars PROVE [Role!Next]_(Role!vars)
  OBVIOUS
<1>1. CASE UNCHANGED vars
  BY <1>1 DEF vars, Role!vars, Visible
<1>2. QED
  BY <1>1, RunShows, MigrationShows DEF Next

(* For any number of runs, schemas and tables: queries may go on while the *)
(* role is repaired.                                                       *)
THEOREM RoleKept == Spec => ImplementsRole
  BY InitRole, StepRole, BootInductive, PTL DEF Spec, ImplementsRole, Role!Spec
=============================================================================
