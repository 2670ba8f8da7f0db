-------------------------- MODULE ModuleLifecycle --------------------------
(***************************************************************************)
(* The live module lifecycle of the Go backend: internal/module's Registry *)
(* (runtime.go), its module.json writer (manager.go), the module scanner   *)
(* (detector.go, internal/common/filemeta.go) and the two loaders (load.go *)
(* for WASM modules, go_module.go for Go modules).                         *)
(*                                                                         *)
(* A module.json on disk says whether a module is active.  Boot loads the  *)
(* modules, records in memory which of them are active and which module    *)
(* owns which table, and every generic request to a table is answered only *)
(* if the owner is active.  Administrators activate, deactivate and reload *)
(* modules while the server runs; requests run concurrently; the process   *)
(* may die at any point and boots again from the files.                    *)
(***************************************************************************)
EXTENDS Integers, FiniteSets, Sequences

CONSTANTS
  GoOrder,       \* the compiled-in Go modules, in registration (init) order
  WasmModules,   \* the modules loaded from a .wasm binary
  AppStore,      \* the module that manages the others
  Tables,        \* tables the modules contribute columns to
  Columns,       \* groups of columns
  Deps,          \* [Modules -> SUBSET Modules], module.json "depends"
  Contrib,       \* [Modules -> [some tables -> set of columns]]
  Requests       \* concurrent administrator requests

GoModules == {GoOrder[i] : i \in 1..Len(GoOrder)}
Modules == GoModules \cup WasmModules

ASSUME ModulesAssumption ==
  /\ GoOrder \in Seq(GoModules)
  /\ GoModules \cap WasmModules = {}
  /\ AppStore \in GoModules

\* The scanner walks one directory per module.
ASSUME WasmAssumption == IsFiniteSet(WasmModules)

ASSUME DepsAssumption == Deps \in [Modules -> SUBSET Modules]

ASSUME ContribAssumption ==
  \A m \in Modules :
    /\ DOMAIN Contrib[m] \subseteq Tables
    /\ Contrib[m] \in [DOMAIN Contrib[m] -> SUBSET Columns]

VARIABLES
  disk,        \* [Modules -> BOOLEAN]: "active" in each module.json
  phase,       \* "down", "wasm", "go" (booting), "up"
  active,      \* Registry.active: known modules -> BOOLEAN
  tableOwner,  \* Registry.tableOwner: owned tables -> owning module
  loadedWasm,  \* Registry.loadedWasm: WASM modules with a live instance
  schema,      \* the ORM registry: registered tables -> their columns
  todo,        \* boot: <<module, priority>> entries still to be loaded
  mid,         \* boot: entries loaded, result not yet recorded
  goNext,      \* boot: index in GoOrder of the next Go module
  pc,          \* where each request is
  call,        \* what each request works on
  raced        \* auxiliary: modules two flips of which overlapped since boot

vars == <<disk, phase, active, tableOwner, loadedWasm, schema, todo, mid,
          goNext, pc, call, raced>>
bootVars == <<todo, mid, goNext>>
reqVars == <<pc, call>>
memory == <<active, tableOwner, loadedWasm, schema>>

Idle == [op |-> "none", mod |-> AppStore, want |-> FALSE, previous |-> FALSE,
         tables |-> {}]
Empty == [t \in {} |-> t]

-----------------------------------------------------------------------------
(* What a load does to the schema registry and to table ownership.         *)

\* The tables a module registers; its entry REPLACES the table's columns.
Touched(m) == DOMAIN Contrib[m]

RegisterSchemas(m) ==
  schema' = [t \in DOMAIN schema \cup Touched(m) |->
               IF t \in Touched(m) THEN Contrib[m][t] ELSE schema[t]]

\* Record m as the owner of ts, whoever owned them before.
Claim(m, ts) ==
  tableOwner' = [t \in DOMAIN tableOwner \cup ts |->
                   IF t \in ts THEN m ELSE tableOwner[t]]

-----------------------------------------------------------------------------
(* Discovery: the dependency check and the load priorities.                *)

\* Every module, active or not, needs each dependency present and active.
CheckDependencies == \A m \in Modules : \A d \in Deps[m] : disk[d]

\* One visiting order of the scanned files: Go map iteration, so any order.
Orders == {o \in [1..Cardinality(Modules) -> Modules] :
             \A i, j \in DOMAIN o : o[i] = o[j] => i = j}

\* SetPriorities visits the modules once and then, pass after pass, those
\* still waiting; a module is placed once all its dependencies are.
Placed(o) ==
  LET n == Len(o)
      P[k \in 0..(n * n)] ==
        IF k = 0 THEN {}
        ELSE LET m == o[((k - 1) % n) + 1]
             IN IF Deps[m] \subseteq P[k - 1] THEN P[k - 1] \cup {m}
                ELSE P[k - 1]
  IN P

\* Mutant: the dependencies play no part in the priorities.
SetPrioritiesFlat(o) == {<<o[i], 0>> : i \in DOMAIN o}

\* The scanned entries and their priorities.  A module placed in a later pass
\* is stored under its directory name, so its first entry stays behind with
\* priority 0; a module on a dependency cycle only has that one.
SetPriorities(o) ==
  LET n == Len(o)
      P == Placed(o)
      PlacedAt(k) == P[k] \ P[k - 1]
  IN {<<m, 0>> : m \in Modules \ P[n]}
       \cup UNION {{<<m, Cardinality(P[k - 1])>> : m \in PlacedAt(k)} :
                     k \in 1..(n * n)}

-----------------------------------------------------------------------------
(* Boot.                                                                   *)

\* Mutant: Boot learns the active modules only.
BootScanActiveOnly ==
  /\ phase = "down"
  /\ phase' = "wasm"
  /\ active' = [m \in {n \in Modules : disk[n]} |-> TRUE]
  /\ \E o \in Orders : todo' = {e \in SetPriorities(o) : e[1] \in WasmModules}
  /\ UNCHANGED <<disk, tableOwner, loadedWasm, schema, mid, goNext, reqVars,
                 raced>>

\* The process starts: it scans the files and, unless the dependency check
\* fails, learns each module's active flag.  On a failed check Boot returns
\* the error, main.go logs it and serves with an empty registry.
BootScan ==
  /\ phase = "down"
  /\ IF CheckDependencies
       THEN /\ phase' = "wasm"
            /\ active' = disk
            /\ \E o \in Orders :
                 todo' = {e \in SetPriorities(o) : e[1] \in WasmModules}
       ELSE /\ phase' = "up"
            /\ active' = Empty
            /\ todo' = {}
  /\ UNCHANGED <<disk, tableOwner, loadedWasm, schema, mid, goNext, reqVars,
                 raced>>

\* The entries of the lowest priority not finished yet load concurrently.
CurrentTier(e) == \A f \in todo \cup mid : e[2] <= f[2]

\* A boot goroutine instantiates a binary, migrates and registers schemas.
BootWasmLoad(e) ==
  /\ phase = "wasm"
  /\ e \in todo
  /\ CurrentTier(e)
  /\ todo' = todo \ {e}
  /\ mid' = mid \cup {e}
  /\ RegisterSchemas(e[1])
  /\ UNCHANGED <<disk, phase, active, tableOwner, loadedWasm, goNext, reqVars,
                 raced>>

\* The binary or its migration is bad: the error is collected, boot goes on.
BootWasmFail(e) ==
  /\ phase = "wasm"
  /\ e \in todo
  /\ CurrentTier(e)
  /\ todo' = todo \ {e}
  /\ UNCHANGED <<disk, phase, memory, mid, goNext, reqVars, raced>>

\* The goroutine takes the lock and records the instance and its tables.
BootWasmRecord(e) ==
  /\ e \in mid
  /\ mid' = mid \ {e}
  /\ loadedWasm' = loadedWasm \cup {e[1]}
  /\ Claim(e[1], Touched(e[1]))
  /\ UNCHANGED <<disk, phase, active, schema, todo, goNext, reqVars, raced>>

BootWasmDone ==
  /\ phase = "wasm"
  /\ todo = {} /\ mid = {}
  /\ phase' = "go"
  /\ goNext' = 1
  /\ UNCHANGED <<disk, memory, todo, mid, reqVars, raced>>

\* Go modules load one by one; only tables nobody registered yet are claimed.
BootGo ==
  /\ phase = "go"
  /\ goNext <= Len(GoOrder)
  /\ LET m == GoOrder[goNext]
     IN /\ RegisterSchemas(m)
        /\ Claim(m, Touched(m) \ DOMAIN schema)
  /\ goNext' = goNext + 1
  /\ UNCHANGED <<disk, phase, active, loadedWasm, todo, mid, reqVars, raced>>

\* Register() succeeded and the table migration failed: the new tables that
\* were created are not attributed to anyone, the registrations stay.
BootGoMigrationFails ==
  /\ phase = "go"
  /\ goNext <= Len(GoOrder)
  /\ RegisterSchemas(GoOrder[goNext])
  /\ goNext' = goNext + 1
  /\ UNCHANGED <<disk, phase, active, tableOwner, loadedWasm, todo, mid,
                 reqVars, raced>>

\* Register() itself failed: the module contributes nothing.
BootGoRegisterFails ==
  /\ phase = "go"
  /\ goNext <= Len(GoOrder)
  /\ goNext' = goNext + 1
  /\ UNCHANGED <<disk, phase, memory, todo, mid, reqVars, raced>>

BootDone ==
  /\ phase = "go"
  /\ goNext > Len(GoOrder)
  /\ phase' = "up"
  /\ UNCHANGED <<disk, memory, bootVars, reqVars, raced>>

\* The process dies: memory is gone, requests are cut, the files stay (each
\* module.json write is a rename, so it either happened or it did not).
Crash ==
  /\ phase # "down"
  /\ phase' = "down"
  /\ active' = Empty
  /\ tableOwner' = Empty
  /\ loadedWasm' = {}
  /\ schema' = Empty
  /\ todo' = {} /\ mid' = {} /\ goNext' = 1
  /\ pc' = [r \in Requests |-> "idle"]
  /\ call' = [r \in Requests |-> Idle]
  /\ raced' = {}
  /\ UNCHANGED disk

-----------------------------------------------------------------------------
(* PUT /api/v1/modules/:id -- Registry.SetActive.                          *)

Flipping(r, m) == pc[r] = "patch" /\ call[r].mod = m

\* The gate takes the wanted value; previous is kept for a rollback.
Flip(r, m, want, previous) ==
  /\ active' = [active EXCEPT ![m] = want]
  /\ pc' = [pc EXCEPT ![r] = "patch"]
  /\ call' = [call EXCEPT ![r] = [op |-> "flip", mod |-> m, want |-> want,
                                  previous |-> previous, tables |-> {}]]
  /\ raced' = IF \E q \in Requests : Flipping(q, m) THEN raced \cup {m}
              ELSE raced
  /\ UNCHANGED <<disk, phase, tableOwner, loadedWasm, schema, bootVars>>

\* Mutants: SetGate without the App Store guard, and SetGate reading the value
\* to roll back to after the gate took the wanted one.
SetGateUnguarded(r, m, want) ==
  /\ phase = "up" /\ pc[r] = "idle" /\ m \in DOMAIN active
  /\ Flip(r, m, want, active[m])
SetGateLatePrevious(r, m, want) ==
  /\ phase = "up" /\ pc[r] = "idle" /\ m \in DOMAIN active
  /\ want \/ m # AppStore
  /\ Flip(r, m, want, want)

\* Under the lock, released before the disk write.
SetGate(r, m, want) ==
  /\ phase = "up"
  /\ pc[r] = "idle"
  /\ want \/ m # AppStore
  /\ m \in DOMAIN active
  /\ Flip(r, m, want, active[m])

\* Manager.Patch, serialised by its own mutex: module.json is rewritten.
PatchOk(r) ==
  /\ pc[r] = "patch"
  /\ call[r].want \/ call[r].mod # AppStore
  /\ disk' = [disk EXCEPT ![call[r].mod] = call[r].want]
  /\ pc' = [pc EXCEPT ![r] = "idle"]
  /\ call' = [call EXCEPT ![r] = Idle]
  /\ UNCHANGED <<phase, memory, bootVars, raced>>

\* Mutant: a failed write leaves the gate as the request set it.
PatchFailNoRollback(r) ==
  /\ pc[r] = "patch"
  /\ pc' = [pc EXCEPT ![r] = "idle"]
  /\ call' = [call EXCEPT ![r] = Idle]
  /\ UNCHANGED <<disk, phase, memory, bootVars, raced>>

\* The write failed (disk full, file gone, ...): the file is as it was, and
\* the gate is put back, under the lock, to the value this request replaced.
PatchFailRollback(r) ==
  /\ pc[r] = "patch"
  /\ active' = [active EXCEPT ![call[r].mod] = call[r].previous]
  /\ pc' = [pc EXCEPT ![r] = "idle"]
  /\ call' = [call EXCEPT ![r] = Idle]
  /\ UNCHANGED <<disk, phase, tableOwner, loadedWasm, schema, bootVars, raced>>

-----------------------------------------------------------------------------
(* POST /api/v1/modules/:id/reload -- Registry.Reload.                     *)

Begin(r, op, m, ts) ==
  call' = [call EXCEPT ![r] = [op |-> op, mod |-> m, want |-> FALSE,
                               previous |-> FALSE, tables |-> ts]]
Finish(r) ==
  /\ pc' = [pc EXCEPT ![r] = "idle"]
  /\ call' = [call EXCEPT ![r] = Idle]

\* WASM: the scanner runs again (and fails on an unmet dependency), then the
\* binary is instantiated, migrated and its schemas registered.
ReloadWasmLoad(r, m) ==
  /\ phase = "up"
  /\ pc[r] = "idle"
  /\ m \in WasmModules \cap DOMAIN active
  /\ CheckDependencies
  /\ RegisterSchemas(m)
  /\ pc' = [pc EXCEPT ![r] = "swap"]
  /\ Begin(r, "reload", m, Touched(m))
  /\ UNCHANGED <<disk, phase, active, tableOwner, loadedWasm, bootVars, raced>>

\* Under the lock: the old instance is dropped, every touched table claimed.
ReloadWasmSwap(r) ==
  /\ pc[r] = "swap"
  /\ loadedWasm' = loadedWasm \cup {call[r].mod}
  /\ Claim(call[r].mod, call[r].tables)
  /\ Finish(r)
  /\ UNCHANGED <<disk, phase, active, schema, bootVars, raced>>

\* Go: loadGoModule takes its column snapshot of the registered tables ...
ReloadGoSnapshot(r, m) ==
  /\ phase = "up"
  /\ pc[r] = "idle"
  /\ m \in GoModules \cap DOMAIN active
  /\ pc' = [pc EXCEPT ![r] = "register"]
  /\ Begin(r, "reload", m, DOMAIN schema)
  /\ UNCHANGED <<disk, phase, memory, bootVars, raced>>

\* ... calls the module's Register() ...
ReloadGoRegister(r) ==
  /\ pc[r] = "register"
  /\ RegisterSchemas(call[r].mod)
  /\ pc' = [pc EXCEPT ![r] = "migrate"]
  /\ UNCHANGED <<disk, phase, active, tableOwner, loadedWasm, bootVars, call,
                 raced>>

\* ... and claims, under the lock, every table registered meanwhile.
ReloadGoMigrate(r) ==
  /\ pc[r] = "migrate"
  /\ Claim(call[r].mod, DOMAIN schema \ call[r].tables)
  /\ Finish(r)
  /\ UNCHANGED <<disk, phase, active, loadedWasm, schema, bootVars, raced>>

\* Register() fails, or a migration does after the tables were registered: the
\* request ends there and nothing more is recorded.
ReloadGoFail(r) ==
  /\ pc[r] \in {"register", "migrate"}
  /\ Finish(r)
  /\ UNCHANGED <<disk, phase, memory, bootVars, raced>>

-----------------------------------------------------------------------------

Init ==
  /\ disk \in [Modules -> BOOLEAN]
  /\ disk[AppStore]
  /\ phase = "down"
  /\ active = Empty /\ tableOwner = Empty /\ loadedWasm = {}
  /\ schema = Empty
  /\ todo = {} /\ mid = {} /\ goNext = 1
  /\ pc = [r \in Requests |-> "idle"]
  /\ call = [r \in Requests |-> Idle]
  /\ raced = {}

Boot ==
  \/ BootScan
  \/ \E e \in todo : BootWasmLoad(e) \/ BootWasmFail(e)
  \/ \E e \in mid : BootWasmRecord(e)
  \/ BootWasmDone
  \/ BootGo
  \/ BootGoMigrationFails
  \/ BootGoRegisterFails
  \/ BootDone

Request(r) ==
  \/ \E m \in Modules, want \in BOOLEAN : SetGate(r, m, want)
  \/ PatchOk(r)
  \/ PatchFailRollback(r)
  \/ \E m \in Modules : ReloadWasmLoad(r, m) \/ ReloadGoSnapshot(r, m)
  \/ ReloadWasmSwap(r)
  \/ ReloadGoRegister(r)
  \/ ReloadGoMigrate(r)
  \/ ReloadGoFail(r)

Next == Boot \/ Crash \/ \E r \in Requests : Request(r)

Spec == Init /\ [][Next]_vars

-----------------------------------------------------------------------------
(* Properties.                                                             *)

Ops == {"none", "flip", "reload"}
Calls == [op : Ops, mod : Modules, want : BOOLEAN, previous : BOOLEAN,
          tables : SUBSET Tables]

\* Every variable has its type.
TypeOK ==
  /\ disk \in [Modules -> BOOLEAN]
  /\ phase \in {"down", "wasm", "go", "up"}
  /\ DOMAIN active \in {{}, Modules}
  /\ active \in [DOMAIN active -> BOOLEAN]
  /\ DOMAIN tableOwner \subseteq Tables
  /\ tableOwner \in [DOMAIN tableOwner -> Modules]
  /\ loadedWasm \subseteq WasmModules
  /\ DOMAIN schema \subseteq Tables
  /\ schema \in [DOMAIN schema -> SUBSET Columns]
  /\ \A e \in todo \cup mid : e[1] \in WasmModules
  /\ goNext \in Nat \ {0}
  /\ pc \in [Requests -> {"idle", "patch", "swap", "register", "migrate"}]
  /\ call \in [Requests -> Calls]
  /\ \A r \in Requests : pc[r] = "swap" => call[r].mod \in WasmModules
  /\ raced \subseteq Modules

InFlight(m) == \E r \in Requests : Flipping(r, m)

\* The in-memory gate and module.json agree for every module no flip of which
\* is in progress, unless two flips of that module overlapped since boot: the
\* rollback of a failed write restores agreement, through restarts too.
AgreementUnlessRaced ==
  \A m \in DOMAIN active :
    m \notin raced /\ ~InFlight(m) => active[m] = disk[m]

\* Why the two properties around this one hold: requests run only on a server
\* that is up; a flip in progress carries a legal value; and unless two flips
\* of a module overlapped, its only flip in progress wrote the gate and still
\* holds what the file says, so a rollback puts the file's value back.
FlipInv ==
  /\ \A r \in Requests : pc[r] # "idle" => phase = "up"
  /\ \A r \in Requests : pc[r] = "patch" =>
       /\ call[r].mod \in DOMAIN active
       /\ call[r].mod = AppStore => call[r].want /\ call[r].previous
  /\ \A m \in DOMAIN active \ raced :
       /\ \A q, r \in Requests : Flipping(q, m) /\ Flipping(r, m) => q = r
       /\ \A r \in Requests : Flipping(r, m) =>
            active[m] = call[r].want /\ call[r].previous = disk[m]

\* The App Store can never be switched off, in memory or on disk, by any
\* interleaving of flips, failed writes with their rollback, and restarts.
AppStoreStaysActive ==
  /\ disk[AppStore]
  /\ AppStore \in DOMAIN active => active[AppStore]

\* Registry.IsTableActive: an unowned table is never gated.
IsTableActive(t) ==
  t \in DOMAIN tableOwner =>
    /\ tableOwner[t] \in DOMAIN active
    /\ active[tableOwner[t]]

\* No table is refused for good: the owner of a table is a module the registry
\* knows, so whoever finds the table gated can open it with one PUT, even after
\* a boot that knows no module and through reloads, failed loads and restarts.
GatedTablesCanOpen ==
  \A t \in Tables : ~IsTableActive(t) =>
    /\ tableOwner[t] \in DOMAIN active
    /\ tableOwner[t] # AppStore

\* The dependencies have no cycle: some listing of the modules has each of
\* them after all it depends on.
Acyclic ==
  \E t \in Orders : \A i \in DOMAIN t :
    Deps[t[i]] \subseteq {t[j] : j \in 1..(i - 1)}

\* runtime.go, the priority groups: while a WASM dependency of a WASM module
\* is still to be loaded or is loading, that module's own load is still to
\* come, and whatever of it loads early is only the stray priority-0 entry
\* that SetPriorities left behind; for every scan order and failing load.
OwnLoadAfterDependencies ==
  phase = "wasm" =>
    \A m \in WasmModules : \A d \in Deps[m] \cap WasmModules :
      (\E e \in todo \cup mid : e[1] = d) =>
        /\ \E e \in todo : e[1] = m /\ e[2] > 0
        /\ \A e \in mid : e[1] = m => e[2] = 0

=============================================================================
