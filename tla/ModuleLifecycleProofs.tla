----------------------- MODULE ModuleLifecycleProofs -----------------------
(* Proofs about ModuleLifecycle, for every set of modules, dependencies,    *)
(* contributed tables and concurrent requests: type correctness, and the    *)
(* two promises of SetActive, its rollback and its App Store guard.         *)
EXTENDS ModuleLifecycle, TLAPS, FiniteSetTheorems, WellFoundedInduction

\* A contributed table is one of Tables and its columns are Columns.
LEMMA ContribTyped ==
  ASSUME NEW m \in Modules
  PROVE  /\ Touched(m) \subseteq Tables
         /\ \A t \in Touched(m) : Contrib[m][t] \in SUBSET Columns
  BY ContribAssumption DEF Touched

\* Registering a module's schemas keeps the schema registry well typed.
LEMMA RegisterTyped ==
  ASSUME TypeOK, NEW m \in Modules, RegisterSchemas(m)
  PROVE  /\ DOMAIN schema' \subseteq Tables
         /\ schema' \in [DOMAIN schema' -> SUBSET Columns]
  BY ContribTyped DEF TypeOK, RegisterSchemas

\* Claiming tables for a module keeps the ownership map well typed.
LEMMA ClaimTyped ==
  ASSUME TypeOK, NEW m \in Modules, NEW ts \in SUBSET Tables, Claim(m, ts)
  PROVE  /\ DOMAIN tableOwner' \subseteq Tables
         /\ tableOwner' \in [DOMAIN tableOwner' -> Modules]
  BY DEF TypeOK, Claim

LEMMA InitTyped == Init => TypeOK
  <1> SUFFICES ASSUME Init PROVE TypeOK
    OBVIOUS
  <1>1. AppStore \in Modules
    BY ModulesAssumption DEF Modules
  <1>2. Idle \in Calls
    BY <1>1 DEF Idle, Calls, Ops
  <1>3. \A S : Empty \in [{} -> S]
    BY DEF Empty
  <1> QED
    BY <1>2, <1>3 DEF Init, TypeOK, Empty

-----------------------------------------------------------------------------
(* Type correctness.                                                       *)

\* Every step of the boot sequence keeps the variables well typed.
LEMMA BootTyped == TypeOK /\ Boot => TypeOK'
  <1> SUFFICES ASSUME TypeOK, Boot PROVE TypeOK'
    OBVIOUS
  <1>1. CASE BootScan
    BY <1>1 DEF BootScan, TypeOK, Empty, reqVars
  <1>2. ASSUME NEW e \in todo, BootWasmLoad(e) PROVE TypeOK'
    <2>1. e[1] \in Modules
      BY DEF TypeOK, Modules
    <2> QED
      BY <1>2, <2>1, RegisterTyped DEF BootWasmLoad, TypeOK, reqVars
  <1>3. ASSUME NEW e \in todo, BootWasmFail(e) PROVE TypeOK'
    BY <1>3 DEF BootWasmFail, TypeOK, memory, reqVars
  <1>4. ASSUME NEW e \in mid, BootWasmRecord(e) PROVE TypeOK'
    <2>1. e[1] \in Modules /\ e[1] \in WasmModules
      BY DEF TypeOK, Modules
    <2>2. Touched(e[1]) \in SUBSET Tables
      BY <2>1, ContribTyped
    <2> QED
      BY <1>4, <2>1, <2>2, ClaimTyped DEF BootWasmRecord, TypeOK, reqVars
  <1>5. CASE BootWasmDone
    BY <1>5 DEF BootWasmDone, TypeOK, memory, reqVars
  <1>6. CASE BootGo
    <2>1. GoOrder[goNext] \in Modules
      BY <1>6, ModulesAssumption DEF BootGo, TypeOK, Modules, GoModules
    <2>2. Touched(GoOrder[goNext]) \ DOMAIN schema \in SUBSET Tables
      BY <2>1, ContribTyped
    <2> QED
      BY <1>6, <2>1, <2>2, RegisterTyped, ClaimTyped
      DEF BootGo, TypeOK, reqVars
  <1>7. CASE BootGoMigrationFails
    <2>1. GoOrder[goNext] \in Modules
      BY <1>7, ModulesAssumption
    DEF BootGoMigrationFails, TypeOK, Modules, GoModules
    <2> QED
      BY <1>7, <2>1, RegisterTyped DEF BootGoMigrationFails, TypeOK, reqVars
  <1>8. CASE BootDone
    BY <1>8 DEF BootDone, TypeOK, memory, reqVars, bootVars
  <1>9. CASE BootGoRegisterFails
    BY <1>9 DEF BootGoRegisterFails, TypeOK, memory, reqVars
  <1> QED
    BY <1>1, <1>2, <1>3, <1>4, <1>5, <1>6, <1>7, <1>8, <1>9 DEF Boot

\* A call a request may hold, and its reset, are well typed.
LEMMA CallsTyped ==
  /\ AppStore \in Modules
  /\ Idle \in Calls
  /\ \A m \in Modules, ts \in SUBSET Tables :
       [op |-> "reload", mod |-> m, want |-> FALSE, previous |-> FALSE,
        tables |-> ts] \in Calls
  <1>1. AppStore \in Modules
    BY ModulesAssumption DEF Modules
  <1> QED
    BY <1>1 DEF Idle, Calls, Ops

\* Every step of an administrator request keeps the variables well typed.
LEMMA RequestTyped ==
  ASSUME TypeOK, NEW r \in Requests, Request(r)
  PROVE  TypeOK'
  <1>1. ASSUME NEW m \in Modules, NEW want \in BOOLEAN, SetGate(r, m, want)
        PROVE  TypeOK'
    BY <1>1, CallsTyped DEF SetGate, Flip, TypeOK, Calls, Ops, bootVars
  <1>2. CASE PatchOk(r)
    BY <1>2, CallsTyped DEF PatchOk, TypeOK, Calls, memory, bootVars
  <1>3. CASE PatchFailRollback(r)
    BY <1>3, CallsTyped DEF PatchFailRollback, TypeOK, Calls, bootVars
  <1>4. ASSUME NEW m \in Modules, ReloadWasmLoad(r, m) PROVE TypeOK'
    <2>1. call' \in [Requests -> Calls]
      BY <1>4, CallsTyped, ContribTyped
      DEF ReloadWasmLoad, Begin, TypeOK, Ops
    <2>2. /\ pc' \in [Requests ->
                       {"idle", "patch", "swap", "register", "migrate"}]
          /\ \A q \in Requests : pc'[q] = "swap" => call'[q].mod \in WasmModules
      BY <1>4 DEF ReloadWasmLoad, Begin, TypeOK
    <2>3. /\ DOMAIN schema' \subseteq Tables
          /\ schema' \in [DOMAIN schema' -> SUBSET Columns]
      BY <1>4, RegisterTyped DEF ReloadWasmLoad
    <2> QED
      BY <1>4, <2>1, <2>2, <2>3 DEF ReloadWasmLoad, TypeOK, bootVars
  <1>5. ASSUME NEW m \in Modules, ReloadGoSnapshot(r, m) PROVE TypeOK'
    <2>1. call' \in [Requests -> Calls]
      BY <1>5, CallsTyped DEF ReloadGoSnapshot, Begin, TypeOK, Ops
    <2>2. /\ pc' \in [Requests ->
                       {"idle", "patch", "swap", "register", "migrate"}]
          /\ \A q \in Requests : pc'[q] = "swap" => call'[q].mod \in WasmModules
      BY <1>5 DEF ReloadGoSnapshot, Begin, TypeOK
    <2> QED
      BY <1>5, <2>1, <2>2 DEF ReloadGoSnapshot, TypeOK, memory, bootVars
  <1>6. CASE ReloadWasmSwap(r)
    <2>1. call[r].mod \in Modules /\ call[r].tables \in SUBSET Tables
      BY DEF TypeOK, Calls
    <2>2. /\ DOMAIN tableOwner' \subseteq Tables
          /\ tableOwner' \in [DOMAIN tableOwner' -> Modules]
      BY <1>6, <2>1, ClaimTyped DEF ReloadWasmSwap
    <2>3. call[r].mod \in WasmModules
      BY <1>6 DEF ReloadWasmSwap, TypeOK
    <2> QED
      BY <1>6, <2>2, <2>3, CallsTyped
      DEF ReloadWasmSwap, Finish, TypeOK, bootVars
  <1>7. CASE ReloadGoRegister(r)
    <2>1. call[r].mod \in Modules
      BY DEF TypeOK, Calls
    <2> QED
      BY <1>7, <2>1, RegisterTyped DEF ReloadGoRegister, TypeOK, bootVars
  <1>8. CASE ReloadGoMigrate(r)
    <2>1. call[r].mod \in Modules
      BY DEF TypeOK, Calls
    <2>2. DOMAIN schema \ call[r].tables \in SUBSET Tables
      BY DEF TypeOK
    <2> QED
      BY <1>8, <2>1, <2>2, CallsTyped, ClaimTyped
      DEF ReloadGoMigrate, Finish, TypeOK, bootVars
  <1>9. CASE ReloadGoFail(r)
    BY <1>9, CallsTyped DEF ReloadGoFail, Finish, TypeOK, memory, bootVars
  <1> QED
    BY <1>1, <1>2, <1>3, <1>4, <1>5, <1>6, <1>7, <1>8, <1>9 DEF Request

LEMMA NextTyped == TypeOK /\ [Next]_vars => TypeOK'
  <1> SUFFICES ASSUME TypeOK, [Next]_vars PROVE TypeOK'
    OBVIOUS
  <1>1. CASE Crash
    BY <1>1, CallsTyped DEF Crash, TypeOK, Empty
  <1>2. CASE UNCHANGED vars
    BY <1>2 DEF vars, TypeOK
  <1> QED
    BY <1>1, <1>2, BootTyped, RequestTyped DEF Next

\* Type correctness: every reachable state of the registry, of the module
\* files and of the requests in progress is well typed.
THEOREM TypeCorrect == Spec => []TypeOK
  BY InitTyped, NextTyped, PTL DEF Spec

-----------------------------------------------------------------------------
(* SetActive: the gate, the file and the rollback.                         *)

\* What is proved inductive: types, the bookkeeping of the flips in progress,
\* and the two properties themselves.
Inductive ==
  TypeOK /\ FlipInv /\ AgreementUnlessRaced /\ AppStoreStaysActive

LEMMA InitFlips == Init => Inductive
  BY InitTyped
  DEF Init, Inductive, FlipInv, AgreementUnlessRaced, AppStoreStaysActive, Empty

\* A step that leaves the gate, the files and the flips in progress alone
\* keeps all three facts.
LEMMA FlipsUntouched ==
  ASSUME Inductive,
         UNCHANGED <<disk, active, raced>>,
         \A r \in Requests : pc'[r] # "idle" => phase' = "up",
         \A r \in Requests :
           /\ pc'[r] = "patch" <=> pc[r] = "patch"
           /\ pc[r] = "patch" => call'[r] = call[r]
  PROVE  FlipInv' /\ AgreementUnlessRaced' /\ AppStoreStaysActive'
  BY DEF Inductive, FlipInv, AgreementUnlessRaced, AppStoreStaysActive,
         InFlight, Flipping

\* The first half of SetActive: the gate moves, the old value is kept.
LEMMA SetGateKeeps ==
  ASSUME Inductive, NEW r \in Requests, NEW m \in Modules,
         NEW want \in BOOLEAN, SetGate(r, m, want)
  PROVE  FlipInv' /\ AgreementUnlessRaced' /\ AppStoreStaysActive'
  <1> USE DEF Inductive, TypeOK
  <1>1. /\ call'[r].mod = m /\ call'[r].want = want
        /\ call'[r].previous = active[m]
        /\ pc'[r] = "patch" /\ pc[r] = "idle"
        /\ \A q \in Requests \ {r} : pc'[q] = pc[q] /\ call'[q] = call[q]
    BY DEF SetGate, Flip
  <1>2. /\ active'[m] = want /\ DOMAIN active' = DOMAIN active
        /\ \A n \in DOMAIN active \ {m} : active'[n] = active[n]
        /\ disk' = disk /\ phase' = phase /\ phase = "up"
        /\ m \in DOMAIN active
        /\ m = AppStore => want
    BY DEF SetGate, Flip
  <1>3. /\ raced \subseteq raced'
        /\ InFlight(m) => m \in raced'
    BY DEF SetGate, Flip, InFlight
  <1>4. FlipInv'
    <2>1. \A q \in Requests : pc'[q] # "idle" => phase' = "up"
      BY <1>2
    <2>2. \A q \in Requests : pc'[q] = "patch" =>
            /\ call'[q].mod \in DOMAIN active'
            /\ call'[q].mod = AppStore => call'[q].want /\ call'[q].previous
      BY <1>1, <1>2 DEF FlipInv, AppStoreStaysActive
    <2>3. ASSUME NEW n \in DOMAIN active' \ raced'
          PROVE  /\ \A p, q \in Requests : (Flipping(p, n) /\ Flipping(q, n))'
                                             => p = q
                 /\ \A q \in Requests : Flipping(q, n)' =>
                      active'[n] = call'[q].want /\ call'[q].previous = disk'[n]
      <3>1. CASE n = m
        BY <1>1, <1>2, <1>3, <3>1
        DEF FlipInv, Flipping, InFlight, AgreementUnlessRaced
      <3>2. CASE n # m
        BY <1>1, <1>2, <1>3, <3>2 DEF FlipInv, Flipping
      <3> QED
        BY <3>1, <3>2
    <2> QED
      BY <2>1, <2>2, <2>3 DEF FlipInv, Flipping
  <1>5. AgreementUnlessRaced'
    BY <1>1, <1>2, <1>3 DEF AgreementUnlessRaced, InFlight, Flipping
  <1>6. AppStoreStaysActive'
    BY <1>2 DEF AppStoreStaysActive
  <1> QED
    BY <1>4, <1>5, <1>6

\* The second half, when the write succeeds or fails: in both cases the gate
\* and the file end up equal, if this was the module's only flip in progress.
LEMMA PatchKeeps ==
  ASSUME Inductive, NEW r \in Requests, NEW m \in Modules, m = call[r].mod,
         PatchOk(r) \/ PatchFailRollback(r)
  PROVE  FlipInv' /\ AgreementUnlessRaced' /\ AppStoreStaysActive'
  <1> USE DEF Inductive, TypeOK
  <1>1. /\ pc'[r] = "idle" /\ pc[r] = "patch" /\ phase' = phase
        /\ \A q \in Requests \ {r} : pc'[q] = pc[q] /\ call'[q] = call[q]
        /\ raced' = raced
    BY DEF PatchOk, PatchFailRollback, memory
  <1>2. /\ m \in DOMAIN active
        /\ m = AppStore => call[r].want /\ call[r].previous
        /\ DOMAIN active' = DOMAIN active
        /\ \A n \in DOMAIN active \ {m} :
              active'[n] = active[n] /\ disk'[n] = disk[n]
    BY <1>1 DEF PatchOk, PatchFailRollback, FlipInv, Calls, memory
  <1>3. \/ disk'[m] = call[r].want /\ active' = active
        \/ active'[m] = call[r].previous /\ disk' = disk
    BY <1>2 DEF PatchOk, PatchFailRollback, memory
  <1>4. m \notin raced => active'[m] = disk'[m]
    BY <1>1, <1>2, <1>3 DEF FlipInv, Flipping
  <1>5. m \notin raced => \A q \in Requests : ~Flipping(q, m)'
    BY <1>1, <1>2 DEF FlipInv, Flipping
  <1>6. AppStoreStaysActive'
    <2>1. AppStore \in Modules
      BY CallsTyped
    <2>2. CASE m = AppStore
      BY <1>2, <1>3, <2>1, <2>2 DEF AppStoreStaysActive
    <2>3. CASE m # AppStore
      BY <1>2, <2>1, <2>3 DEF AppStoreStaysActive, PatchOk, PatchFailRollback
    <2> QED
      BY <2>2, <2>3
  <1>7. AgreementUnlessRaced'
    BY <1>1, <1>2, <1>4 DEF AgreementUnlessRaced, InFlight, Flipping
  <1>8. FlipInv'
    BY <1>1, <1>2, <1>5 DEF FlipInv, Flipping
  <1> QED
    BY <1>6, <1>7, <1>8

LEMMA RequestKeeps ==
  ASSUME Inductive, NEW r \in Requests, Request(r)
  PROVE  FlipInv' /\ AgreementUnlessRaced' /\ AppStoreStaysActive'
  <1>1. CASE \E m \in Modules, want \in BOOLEAN : SetGate(r, m, want)
    BY <1>1, SetGateKeeps
  <1>2. CASE PatchOk(r) \/ PatchFailRollback(r)
    <2>1. call[r].mod \in Modules
      BY DEF Inductive, TypeOK, Calls
    <2> QED
      BY <1>2, <2>1, PatchKeeps
  <1>3. CASE \E m \in Modules : ReloadWasmLoad(r, m) \/ ReloadGoSnapshot(r, m)
    BY <1>3, FlipsUntouched
    DEF ReloadWasmLoad, ReloadGoSnapshot, Begin, Inductive, TypeOK, FlipInv,
        memory
  <1>4. CASE ReloadWasmSwap(r) \/ ReloadGoMigrate(r) \/ ReloadGoFail(r)
    BY <1>4, FlipsUntouched
    DEF ReloadWasmSwap, ReloadGoMigrate, ReloadGoFail, Finish, Inductive,
        TypeOK, FlipInv, memory
  <1>5. CASE ReloadGoRegister(r)
    BY <1>5, FlipsUntouched DEF ReloadGoRegister, Inductive, TypeOK, FlipInv
  <1> QED
    BY <1>1, <1>2, <1>3, <1>4, <1>5 DEF Request

\* While the server boots no request is in progress; the scan takes the gate
\* from the files.
LEMMA BootKeeps ==
  ASSUME Inductive, Boot
  PROVE  FlipInv' /\ AgreementUnlessRaced' /\ AppStoreStaysActive'
  <1>1. CASE BootScan
    <2>1. \A r \in Requests : pc'[r] = "idle"
      BY <1>1 DEF BootScan, reqVars, Inductive, FlipInv
    <2>2. disk' = disk /\ (active' = disk \/ active' = Empty)
      BY <1>1 DEF BootScan
    <2> QED
      BY <2>1, <2>2
      DEF Inductive, FlipInv, AgreementUnlessRaced, AppStoreStaysActive,
          Flipping, Empty
  <1>2. CASE \/ \E e \in todo : BootWasmLoad(e) \/ BootWasmFail(e)
             \/ \E e \in mid : BootWasmRecord(e)
    BY <1>2, FlipsUntouched
    DEF BootWasmLoad, BootWasmFail, BootWasmRecord, memory, reqVars,
        Inductive, FlipInv
  <1>3. CASE BootWasmDone \/ BootDone
    BY <1>3, FlipsUntouched
    DEF BootWasmDone, BootDone, memory, reqVars, Inductive, FlipInv
  <1>4. CASE BootGo \/ BootGoMigrationFails \/ BootGoRegisterFails
    BY <1>4, FlipsUntouched
    DEF BootGo, BootGoMigrationFails, BootGoRegisterFails, memory, reqVars,
        Inductive, FlipInv
  <1> QED
    BY <1>1, <1>2, <1>3, <1>4 DEF Boot

LEMMA NextKeeps == Inductive /\ [Next]_vars => Inductive'
  <1> SUFFICES ASSUME Inductive, [Next]_vars PROVE Inductive'
    OBVIOUS
  <1>1. TypeOK'
    BY NextTyped DEF Inductive
  <1>2. CASE Crash
    BY <1>1, <1>2
    DEF Crash, Inductive, FlipInv, AgreementUnlessRaced, AppStoreStaysActive,
        Empty
  <1>3. CASE UNCHANGED vars
    BY <1>1, <1>3
    DEF vars, Inductive, FlipInv, AgreementUnlessRaced, AppStoreStaysActive,
        InFlight, Flipping
  <1> QED
    BY <1>1, <1>2, <1>3, RequestKeeps, BootKeeps DEF Next, Inductive

LEMMA InductiveHolds == Spec => []Inductive
  BY InitFlips, NextKeeps, PTL DEF Spec

\* SetActive's rollback works: with any number of concurrent administrators,
\* failed writes, reloads and restarts, the gate of a module no two flips of
\* which overlapped equals its module.json whenever no flip is in progress.
THEOREM GateAgreesWithDisk == Spec => []AgreementUnlessRaced
  BY InductiveHolds, PTL DEF Inductive

\* The App Store guard is enough: no interleaving of flips, failed writes,
\* rollbacks and restarts switches the App Store off.
THEOREM AppStoreCannotBeLost == Spec => []AppStoreStaysActive
  BY InductiveHolds, PTL DEF Inductive

\* The bookkeeping of the flips in progress, which both rest on.
THEOREM FlipsCarryTheFileValue == Spec => []FlipInv
  BY InductiveHolds, PTL DEF Inductive

-----------------------------------------------------------------------------
(* The owners of the tables are known modules.                             *)

\* A registry that booted knows every module or none; with none it owns no
\* table, and whatever still claims tables works for a module it knows.
KnownInv ==
  /\ phase \in {"wasm", "go"} => DOMAIN active = Modules
  /\ phase = "down" => DOMAIN tableOwner = {}
  /\ mid # {} => phase = "wasm"
  /\ \A r \in Requests : pc[r] # "idle" =>
       phase = "up" /\ call[r].mod \in DOMAIN active
  /\ \A t \in DOMAIN tableOwner : tableOwner[t] \in DOMAIN active

LEMMA InitKnown == Init => KnownInv
  BY DEF Init, KnownInv, Empty

\* A step that leaves ownership alone keeps the owners known, if it moves
\* neither the set of known modules nor the phase out of range.
LEMMA KnownUntouched ==
  ASSUME KnownInv, UNCHANGED <<phase, tableOwner>>,
         DOMAIN active' = DOMAIN active,
         mid' \subseteq mid \/ phase = "wasm",
         \A r \in Requests : pc'[r] # "idle" =>
           phase = "up" /\ call'[r].mod \in DOMAIN active
  PROVE  KnownInv'
  BY DEF KnownInv

LEMMA BootKnown ==
  ASSUME TypeOK, KnownInv, Boot
  PROVE  KnownInv'
  <1>0. AppStore \in Modules
    BY CallsTyped
  <1>1. CASE BootScan
    BY <1>1 DEF BootScan, KnownInv, TypeOK, Empty, reqVars
  <1>2. CASE \E e \in todo : BootWasmLoad(e) \/ BootWasmFail(e)
    BY <1>2, KnownUntouched
    DEF BootWasmLoad, BootWasmFail, memory, reqVars, KnownInv
  <1>3. ASSUME NEW e \in mid, BootWasmRecord(e) PROVE KnownInv'
    <2>1. e[1] \in Modules /\ DOMAIN active = Modules /\ phase = "wasm"
      BY <1>3 DEF KnownInv, TypeOK, Modules
    <2>2. \A t \in DOMAIN tableOwner' : tableOwner'[t] \in Modules
      BY <1>3, <2>1 DEF BootWasmRecord, Claim, TypeOK
    <2> QED
      BY <1>3, <2>1, <2>2 DEF BootWasmRecord, KnownInv, reqVars
  <1>4. CASE BootGo
    <2>1. GoOrder[goNext] \in Modules
      BY <1>4, ModulesAssumption DEF BootGo, TypeOK, Modules, GoModules
    <2>2. \A t \in DOMAIN tableOwner' : tableOwner'[t] \in Modules
      BY <1>4, <2>1 DEF BootGo, Claim, TypeOK
    <2> QED
      BY <1>4, <2>2 DEF BootGo, KnownInv, reqVars
  <1>5. CASE BootWasmDone \/ BootDone
    BY <1>5 DEF BootWasmDone, BootDone, memory, bootVars, reqVars, KnownInv
  <1>6. CASE BootGoMigrationFails \/ BootGoRegisterFails
    BY <1>6, KnownUntouched
    DEF BootGoMigrationFails, BootGoRegisterFails, memory, reqVars, KnownInv
  <1> QED
    BY <1>1, <1>2, <1>3, <1>4, <1>5, <1>6 DEF Boot

LEMMA RequestKnown ==
  ASSUME TypeOK, KnownInv, NEW r \in Requests, Request(r)
  PROVE  KnownInv'
  <1>1. CASE \E m \in Modules, want \in BOOLEAN : SetGate(r, m, want)
    BY <1>1, KnownUntouched DEF SetGate, Flip, TypeOK, KnownInv, bootVars
  <1>2. CASE PatchOk(r) \/ PatchFailRollback(r)
    BY <1>2, KnownUntouched
    DEF PatchOk, PatchFailRollback, TypeOK, KnownInv, memory, bootVars
  <1>3. CASE \E m \in Modules : ReloadWasmLoad(r, m) \/ ReloadGoSnapshot(r, m)
    BY <1>3, KnownUntouched
    DEF ReloadWasmLoad, ReloadGoSnapshot, Begin, TypeOK, KnownInv, memory,
        bootVars
  <1>4. CASE ReloadGoRegister(r) \/ ReloadGoFail(r)
    BY <1>4, KnownUntouched
    DEF ReloadGoRegister, ReloadGoFail, Finish, TypeOK, KnownInv, memory,
        bootVars
  <1>5. CASE ReloadWasmSwap(r) \/ ReloadGoMigrate(r)
    <2>1. /\ phase = "up" /\ call[r].mod \in DOMAIN active
          /\ UNCHANGED <<phase, active, mid>> /\ Finish(r)
          /\ \E ts : Claim(call[r].mod, ts)
      BY <1>5 DEF ReloadWasmSwap, ReloadGoMigrate, KnownInv, bootVars
    <2>2. \A t \in DOMAIN tableOwner' : tableOwner'[t] \in DOMAIN active
      BY <2>1 DEF Claim, KnownInv
    <2> QED
      BY <2>1, <2>2 DEF KnownInv, Finish, TypeOK
  <1> QED
    BY <1>1, <1>2, <1>3, <1>4, <1>5 DEF Request

LEMMA KnownHolds == Spec => []KnownInv
  <1>1. TypeOK /\ KnownInv /\ [Next]_vars => KnownInv'
    <2> SUFFICES ASSUME TypeOK, KnownInv, [Next]_vars PROVE KnownInv'
      OBVIOUS
    <2>1. CASE Crash
      BY <2>1 DEF Crash, KnownInv, Empty
    <2>2. CASE UNCHANGED vars
      BY <2>2 DEF vars, KnownInv
    <2> QED
      BY <2>1, <2>2, BootKnown, RequestKnown DEF Next
  <1> QED
    BY <1>1, InitKnown, TypeCorrect, PTL DEF Spec

\* No table is refused for good: a gated table's owner is a module the registry
\* knows and that may be activated again, and it is never the App Store.
THEOREM GatesCanBeOpened == Spec => []GatedTablesCanOpen
  <1>1. KnownInv /\ AppStoreStaysActive => GatedTablesCanOpen
    BY DEF KnownInv, AppStoreStaysActive, GatedTablesCanOpen, IsTableActive
  <1> QED
    BY <1>1, KnownHolds, AppStoreCannotBeLost, PTL

-----------------------------------------------------------------------------
(* Induction over data, from the least element of a set of naturals.       *)

\* A set of naturals that has 0 and every successor has all of them.
LEMMA Everything ==
  ASSUME NEW T, 0 \in T, \A n \in Nat : n \in T => n + 1 \in T
  PROVE  Nat \subseteq T
  <1> DEFINE Out == Nat \ T
             R == OpToRel(<, Nat)
  <1> SUFFICES ASSUME Out # {} PROVE FALSE
    OBVIOUS
  <1>1. IsWellFoundedOn(OpToRel(<, Nat), Nat)
    BY NatLessThanWellFounded
  <1>2. R = {ss \in Nat \X Nat : ss[1] < ss[2]}
    BY DEF OpToRel
  <1>3. PICK x \in Out : \A y \in Out : ~(<<y, x>> \in R)
    <2>1. Out \subseteq Nat
      OBVIOUS
    <2> HIDE DEF Out, R
    <2> QED
      BY <1>1, <2>1, WFMin DEF R
  <1>4. x # 0 /\ x - 1 \in Nat /\ x = (x - 1) + 1
    OBVIOUS
  <1>5. x - 1 \in Out
    BY <1>4
  <1>6. <<x - 1, x>> \in R
    <2>1. <<x - 1, x>> \in Nat \X Nat /\ x - 1 < x
      BY <1>4
    <2> HIDE DEF R
    <2> QED
      BY <1>2, <2>1
  <1> QED
    BY <1>3, <1>5, <1>6

\* The n first values got from v by applying G again and again.
Iterations(V, v, G, n) ==
  {f \in [0..n -> V] : f[0] = v /\ \A k \in 1..n : f[k] = G[<<k, f[k - 1]>>]}

LEMMA Iterates ==
  ASSUME NEW V, NEW v \in V, NEW G \in [Nat \X V -> V], NEW n0 \in Nat
  PROVE  Iterations(V, v, G, n0) # {}
  <1> DEFINE Runs(n) == {f \in [0..n -> V] :
                           f[0] = v /\ \A k \in 1..n : f[k] = G[<<k, f[k - 1]>>]}
             T == {n \in Nat : Runs(n) # {}}
  <1>1. 0 \in T
    <2>1. [k \in 0..0 |-> v] \in Runs(0)
      OBVIOUS
    <2> QED
      BY <2>1
  <1>2. ASSUME NEW n \in Nat, n \in T PROVE n + 1 \in T
    <2>1. PICK f \in Runs(n) : TRUE
      BY <1>2
    <2> DEFINE g == [k \in 0..(n + 1) |-> IF k \in 0..n THEN f[k]
                                          ELSE G[<<n + 1, f[n]>>]]
    <2>2. f \in [0..n -> V] /\ f[0] = v
          /\ \A k \in 1..n : f[k] = G[<<k, f[k - 1]>>]
      BY <2>1
    <2>3. \A k \in 0..n : f[k] \in V
      BY <2>2
    <2>4. G[<<n + 1, f[n]>>] \in V
      BY <2>3
    <2>5. g \in [0..(n + 1) -> V] /\ g[0] = v
      BY <2>2, <2>3, <2>4
    <2>6. g[n + 1] = G[<<n + 1, f[n]>>] /\ \A k \in 0..n : g[k] = f[k]
      BY n + 1 \notin 0..n, n + 1 \in 0..(n + 1), 0..n \subseteq 0..(n + 1)
    <2>7. ASSUME NEW k \in 1..(n + 1) PROVE g[k] = G[<<k, g[k - 1]>>]
      <3>1. k - 1 \in 0..n /\ g[k - 1] = f[k - 1]
        BY <2>6
      <3>2. CASE k \in 1..n
        BY <2>2, <2>6, <3>1, <3>2
      <3>3. CASE k = n + 1
        <4>1. k - 1 = n
          BY <3>3
        <4> HIDE DEF g
        <4> QED
          BY <2>6, <3>1, <3>3, <4>1
      <3> QED
        BY <3>2, <3>3
    <2>8. g \in Runs(n + 1)
      <3> HIDE DEF g
      <3> QED
        BY <2>5, <2>7
    <2> HIDE DEF Runs, g
    <2>9. n + 1 \in Nat /\ Runs(n + 1) # {}
      BY <2>8
    <2> QED
      BY <2>9
  <1>3. Nat \subseteq T
    <2> HIDE DEF T
    <2> QED
      BY <1>1, <1>2, Everything
  <1>4. Runs(n0) # {}
    <2> HIDE DEF Runs
    <2> QED
      BY <1>3
  <1> QED
    BY <1>4 DEF Iterations

LEMMA Wrap == \A n, j, r \in Nat : r < n => (j * n + r) % n = r
  OBVIOUS

-----------------------------------------------------------------------------
(* What SetPriorities computes: the passes, and the order they give.       *)

LEMMA ModulesFinite ==
  /\ IsFiniteSet(Modules)
  /\ Cardinality(Modules) \in Nat
  <1>1. IsFiniteSet(GoModules)
    <2>1. GoOrder \in Seq(GoModules) /\ Len(GoOrder) \in Nat
      BY ModulesAssumption
    <2>2. IsFiniteSet(1..Len(GoOrder))
      BY <2>1, FS_Interval
    <2>3. GoOrder \in Surjection(1..Len(GoOrder), GoModules)
      BY <2>1 DEF Surjection, GoModules
    <2> QED
      BY <2>2, <2>3, FS_Surjection
  <1>2. IsFiniteSet(Modules)
    BY <1>1, WasmAssumption, FS_Union DEF Modules
  <1> QED
    BY <1>2, FS_CardinalityType

\* An order lists every module once.
LEMMA OrdersListAll ==
  ASSUME NEW o \in Orders
  PROVE  /\ DOMAIN o = 1..Cardinality(Modules)
         /\ Len(o) = Cardinality(Modules)
         /\ \A i \in DOMAIN o : o[i] \in Modules
         /\ \A m \in Modules : \E i \in DOMAIN o : o[i] = m
  <1> DEFINE n == Cardinality(Modules)
  <1>1. n \in Nat /\ IsFiniteSet(Modules)
    BY ModulesFinite
  <1>2. o \in [1..n -> Modules] /\ \A i, j \in 1..n : o[i] = o[j] => i = j
    BY DEF Orders
  <1>3. o \in Injection(1..n, Modules)
    BY <1>2 DEF Injection, IsInjective
  <1>4. Cardinality(1..n) = n
    BY <1>1, FS_Interval
  <1>5. o \in Surjection(1..n, Modules)
    <2> HIDE DEF n
    <2> QED
      BY <1>1, <1>3, <1>4, FS_Injection DEF n
  <1>6. Len(o) = n
    <2>1. o \in Seq(Modules)
      BY <1>1, <1>2
    <2> HIDE DEF n
    <2> QED
      BY <1>1, <1>2, <2>1
  <1> QED
    BY <1>2, <1>5, <1>6 DEF Surjection

\* The passes of SetPriorities, one visit at a time.
LEMMA PlacedSteps ==
  ASSUME NEW o \in Orders
  PROVE  LET n == Len(o) IN
         /\ Placed(o) \in [0..(n * n) -> SUBSET Modules]
         /\ Placed(o)[0] = {}
         /\ \A k \in 1..(n * n) :
              Placed(o)[k] = IF Deps[o[((k - 1) % n) + 1]] \subseteq Placed(o)[k - 1]
                             THEN Placed(o)[k - 1] \cup {o[((k - 1) % n) + 1]}
                             ELSE Placed(o)[k - 1]
  <1> DEFINE n == Len(o)
             N == n * n
             V == SUBSET Modules
             m(k) == o[((k - 1) % n) + 1]
             Visit(k, S) == IF Deps[m(k)] \subseteq S THEN S \cup {m(k)} ELSE S
             G == [x \in Nat \X V |-> IF x[1] \in 1..N THEN Visit(x[1], x[2]) ELSE {}]
             Goes(f) == f = [k \in 0..N |-> IF k = 0 THEN {} ELSE Visit(k, f[k - 1])]
  <1>1. n \in Nat /\ N \in Nat
    BY OrdersListAll, ModulesFinite
  <1>2. \A k \in 1..N : m(k) \in Modules
    <2> SUFFICES ASSUME NEW k \in 1..N PROVE m(k) \in Modules
      OBVIOUS
    <2>1. n # 0
      BY <1>1
    <2>2. ((k - 1) % n) + 1 \in 1..n
      BY <1>1, <2>1
    <2> QED
      BY <2>2, OrdersListAll
  <1>3. G \in [Nat \X V -> V]
    <2>1. ASSUME NEW x \in Nat \X V PROVE G[x] \in V
      <3> HIDE DEF m, N
      <3> QED
        BY <1>2, <2>1
    <2> HIDE DEF V
    <2> QED
      BY <2>1
  <1>4. \E f \in [0..N -> V] : Goes(f)
    <2>1. PICK f \in [0..N -> V] :
            f[0] = {} /\ \A k \in 1..N : f[k] = G[<<k, f[k - 1]>>]
      <3>1. {} \in V
        OBVIOUS
      <3> HIDE DEF G, V, N
      <3>2. Iterations(V, {}, G, N) # {}
        BY <1>1, <1>3, <3>1, Iterates
      <3> QED
        BY <3>2 DEF Iterations
    <2>2. ASSUME NEW k \in 1..N PROVE f[k] = Visit(k, f[k - 1])
      <3>1. f[k - 1] \in V
        BY <1>1
      <3>2. G[<<k, f[k - 1]>>] = Visit(k, f[k - 1])
        <4> HIDE DEF Visit, V, N
        <4> QED
          BY <1>1, <3>1
      <3> QED
        BY <2>1, <3>2
    <2>3. Goes(f)
      <3> HIDE DEF Visit, V, N, G
      <3> QED
        BY <1>1, <2>1, <2>2
    <2> QED
      BY <2>3
  <1>5. Placed(o) = CHOOSE f : Goes(f)
    BY DEF Placed
  <1>6. Goes(Placed(o))
    <2> HIDE DEF Goes
    <2> QED
      BY <1>4, <1>5
  <1>7. ASSUME NEW f, Goes(f)
        PROVE  f[0] = {} /\ \A k \in 1..N : f[k] = Visit(k, f[k - 1])
    <2>1. 0 \in 0..N /\ 1..N \subseteq 0..N /\ \A k \in 1..N : k # 0
      BY <1>1
    <2> HIDE DEF Visit, N
    <2> QED
      BY <1>7, <2>1
  <1>8. ASSUME NEW f, Goes(f) PROVE f \in [0..N -> V]
    <2> DEFINE T == {k \in Nat : k \in 0..N => f[k] \in V}
    <2>1. 0 \in T
      BY <1>7, <1>8
    <2>2. ASSUME NEW k \in Nat, k \in T PROVE k + 1 \in T
      <3> SUFFICES ASSUME k + 1 \in 0..N PROVE f[k + 1] \in V
        OBVIOUS
      <3>1. k + 1 \in 1..N /\ k \in 0..N /\ (k + 1) - 1 = k
        BY <1>1
      <3>2. f[k + 1] = Visit(k + 1, f[k])
        <4> HIDE DEF Goes, Visit, N
        <4> QED
          BY <1>7, <1>8, <3>1
      <3>3. f[k] \in V /\ m(k + 1) \in Modules
        BY <1>2, <2>2, <3>1
      <3> HIDE DEF m, N
      <3> QED
        BY <3>2, <3>3
    <2>3. Nat \subseteq T
      <3> HIDE DEF T
      <3> QED
        BY <2>1, <2>2, Everything
    <2>4. \A k \in 0..N : f[k] \in V
      <3> HIDE DEF V, N, Goes
      <3> QED
        BY <1>1, <2>3
    <2>5. DOMAIN f = 0..N /\ f = [k \in 0..N |-> f[k]]
      <3>1. \E F : f = [k \in 0..N |-> F[k]]
        <4> WITNESS [k \in 0..N |-> IF k = 0 THEN {} ELSE Visit(k, f[k - 1])]
        <4> HIDE DEF Visit, N
        <4> QED
          BY <1>8
      <3> HIDE DEF Goes, N
      <3> QED
        BY <3>1
    <2> HIDE DEF Goes, N, V
    <2> QED
      BY <2>4, <2>5
  <1> QED
    <2> HIDE DEF Goes
    <2> QED
      BY <1>6, <1>7, <1>8

\* A module once placed stays placed.
LEMMA PlacedGrows ==
  ASSUME NEW o \in Orders, NEW i \in Nat, NEW j \in Nat, i <= j,
         j <= Len(o) * Len(o)
  PROVE  Placed(o)[i] \subseteq Placed(o)[j]
  <1> DEFINE N == Len(o) * Len(o)
             P == Placed(o)
             T == {k \in Nat : i + k <= N => P[i] \subseteq P[i + k]}
  <1>1. N \in Nat
    BY OrdersListAll, ModulesFinite
  <1>2. \A k \in 1..N : P[k - 1] \subseteq P[k]
    BY PlacedSteps
  <1> HIDE DEF P, N
  <1>3. 0 \in T
    BY i + 0 = i
  <1>4. ASSUME NEW k \in Nat, k \in T PROVE k + 1 \in T
    <2> SUFFICES ASSUME i + (k + 1) <= N PROVE P[i] \subseteq P[i + (k + 1)]
      OBVIOUS
    <2>1. i + k <= N /\ i + (k + 1) \in 1..N /\ (i + (k + 1)) - 1 = i + k
      BY <1>1
    <2>2. P[i] \subseteq P[i + k]
      BY <1>4, <2>1
    <2>3. P[(i + (k + 1)) - 1] \subseteq P[i + (k + 1)]
      BY <1>2, <2>1
    <2> QED
      BY <2>1, <2>2, <2>3
  <1>5. Nat \subseteq T
    <2> HIDE DEF T
    <2> QED
      BY <1>3, <1>4, Everything
  <1>6. j - i \in Nat /\ i + (j - i) = j
    OBVIOUS
  <1>7. i + (j - i) <= N => P[i] \subseteq P[i + (j - i)]
    BY <1>5, <1>6
  <1> QED
    BY <1>6, <1>7 DEF P, N

\* Without a cycle each pass places one more module of the listing at least,
\* so after as many passes as there are modules all of them are placed.
LEMMA AllPlaced ==
  ASSUME Acyclic, NEW o \in Orders
  PROVE  Placed(o)[Len(o) * Len(o)] = Modules
  <1> DEFINE n == Len(o)
             P == Placed(o)
  <1>0. n = Cardinality(Modules) /\ n \in Nat /\ n * n \in Nat
    BY OrdersListAll, ModulesFinite
  <1>1. PICK t \in Orders : \A i \in DOMAIN t :
          Deps[t[i]] \subseteq {t[j] : j \in 1..(i - 1)}
    BY DEF Acyclic
  <1>2. DOMAIN t = 1..n /\ \A m \in Modules : \E i \in 1..n : t[i] = m
    BY <1>0, <1>1, OrdersListAll
  <1> DEFINE T == {j \in Nat : j <= n => \A i \in 1..j : t[i] \in P[j * n]}
  <1>3. 0 \in T
    OBVIOUS
  <1>4. ASSUME NEW j \in Nat, j \in T PROVE j + 1 \in T
    <2> SUFFICES ASSUME j + 1 <= n
                 PROVE  \A i \in 1..(j + 1) : t[i] \in P[(j + 1) * n]
      OBVIOUS
    <2> DEFINE q == j * n
    <2>1. q \in Nat /\ (j + 1) * n = q + n /\ q + n <= n * n
      <3>1. (j + 1) * n <= n * n
        BY <1>0
      <3> QED
        BY <1>0, <3>1
    <2>2. \A i \in 1..j : t[i] \in P[q]
      BY <1>0, <1>4
    <2>3. t[j + 1] \in Modules
      BY <1>0, <1>1, <1>2, OrdersListAll
    <2>4. PICK r \in 1..n : o[r] = t[j + 1]
      BY <1>0, <2>3, OrdersListAll
    <2>5. ((q + r) - 1) % n = r - 1
      <3>1. (j * n + (r - 1)) % n = r - 1
        <4>1. r - 1 \in Nat /\ r - 1 < n
          OBVIOUS
        <4> HIDE DEF n
        <4> QED
          BY <1>0, <4>1, Wrap
      <3>2. (q + r) - 1 = q + (r - 1)
        BY <2>1
      <3> QED
        BY <3>1, <3>2
    <2> HIDE DEF q, n, P
    <2>6. /\ q + r \in 1..(n * n) /\ (r - 1) + 1 = r
          /\ q <= (q + r) - 1 /\ (q + r) - 1 \in Nat /\ (q + r) - 1 <= n * n
          /\ q + r \in Nat /\ q + r <= q + n /\ q + n \in Nat
      BY <1>0, <2>1
    <2>7. P[q] \subseteq P[(q + r) - 1]
      BY <2>1, <2>6, PlacedGrows DEF P, n
    <2>8. Deps[t[j + 1]] \subseteq P[(q + r) - 1]
      <3>1. Deps[t[j + 1]] \subseteq {t[i] : i \in 1..((j + 1) - 1)}
        <4>1. j + 1 \in DOMAIN t
          BY <1>2
        <4> QED
          BY <1>1, <4>1
      <3>2. (j + 1) - 1 = j
        OBVIOUS
      <3> QED
        BY <2>2, <2>7, <3>1, <3>2
    <2>9. t[j + 1] \in P[q + r]
      <3>1. P[q + r] = IF Deps[o[(((q + r) - 1) % n) + 1]] \subseteq P[(q + r) - 1]
                       THEN P[(q + r) - 1] \cup {o[(((q + r) - 1) % n) + 1]}
                       ELSE P[(q + r) - 1]
        BY <2>6, PlacedSteps DEF P, n
      <3>2. o[(((q + r) - 1) % n) + 1] = t[j + 1]
        BY <2>4, <2>5, <2>6
      <3> QED
        BY <2>8, <3>1, <3>2
    <2>10. P[q] \subseteq P[q + n] /\ P[q + r] \subseteq P[q + n]
      <3>1. q <= q + n /\ q + n <= n * n
        BY <2>1, <2>6, <1>0
      <3> QED
        BY <2>1, <2>6, <3>1, PlacedGrows DEF P, n
    <2>11. \A i \in 1..(j + 1) : i \in 1..j \/ i = j + 1
      OBVIOUS
    <2> QED
      BY <2>1, <2>2, <2>9, <2>10, <2>11
  <1>5. Nat \subseteq T
    <2> HIDE DEF T
    <2> QED
      BY <1>3, <1>4, Everything
  <1>6. \A i \in 1..n : t[i] \in P[n * n]
    <2>1. n \in T
      BY <1>0, <1>5
    <2> QED
      BY <1>0, <2>1
  <1>7. Modules \subseteq P[n * n]
    <2> HIDE DEF n, P
    <2> QED
      BY <1>2, <1>6
  <1>8. P[n * n] \subseteq Modules
    <2>1. P \in [0..(n * n) -> SUBSET Modules]
      BY PlacedSteps
    <2>2. n * n \in 0..(n * n)
      BY <1>0
    <2> HIDE DEF P, n
    <2> QED
      BY <2>1, <2>2
  <1> QED
    BY <1>7, <1>8

\* A module is placed by one visit, which finds its dependencies placed.
LEMMA PlacedOnce ==
  ASSUME Acyclic, NEW o \in Orders, NEW m \in Modules
  PROVE  \E k \in 1..(Len(o) * Len(o)) :
           /\ m \in Placed(o)[k] \ Placed(o)[k - 1]
           /\ Deps[m] \subseteq Placed(o)[k - 1]
  <1> DEFINE N == Len(o) * Len(o)
             P == Placed(o)
             T == {k \in Nat : k <= N => m \notin P[k]}
  <1>0. N \in Nat
    BY OrdersListAll, ModulesFinite
  <1>1. P[0] = {} /\ m \in P[N]
    BY PlacedSteps, AllPlaced
  <1>2. 0 \in T /\ N \notin T
    <2> HIDE DEF P, N
    <2> QED
      BY <1>0, <1>1
  <1>3. PICK k \in Nat : k \in T /\ k + 1 \notin T
    <2> HIDE DEF T, N
    <2>1. ~(Nat \subseteq T)
      BY <1>0, <1>2
    <2> QED
      BY <1>2, <2>1, Everything
  <1> HIDE DEF P, N
  <1>4. k + 1 \in 1..N /\ m \in P[k + 1] /\ m \notin P[k] /\ (k + 1) - 1 = k
    BY <1>0, <1>3
  <1>5. Deps[m] \subseteq P[k]
    <2> DEFINE x == o[(((k + 1) - 1) % Len(o)) + 1]
    <2>1. P[k + 1] = IF Deps[x] \subseteq P[(k + 1) - 1]
                     THEN P[(k + 1) - 1] \cup {x} ELSE P[(k + 1) - 1]
      BY <1>4, PlacedSteps DEF P, N
    <2> HIDE DEF x
    <2> QED
      BY <1>4, <2>1
  <1> QED
    BY <1>4, <1>5 DEF P, N

\* A priority other than 0 is above each entry of each dependency, and every
\* module has an entry whose priority is above those.
LEMMA PrioritiesFollowDependencies ==
  ASSUME Acyclic, NEW o \in Orders, NEW m \in Modules
  PROVE  /\ \A e \in SetPriorities(o) : e[2] \in Nat
         /\ \A e \in SetPriorities(o) : e[2] # 0 =>
              \A f \in SetPriorities(o) : f[1] \in Deps[e[1]] => f[2] < e[2]
         /\ \E e \in SetPriorities(o) :
              /\ e[1] = m
              /\ \A f \in SetPriorities(o) : f[1] \in Deps[m] => f[2] < e[2]
  <1> DEFINE n == Len(o)
             N == n * n
             P == Placed(o)
  <1>0. n \in Nat /\ N \in Nat /\ P \in [0..N -> SUBSET Modules]
    BY OrdersListAll, ModulesFinite, PlacedSteps
  <1>1. SetPriorities(o) =
          {<<x, 0>> : x \in Modules \ P[n]}
            \cup UNION {{<<x, Cardinality(P[k - 1])>> : x \in P[k] \ P[k - 1]} :
                          k \in 1..N}
    BY DEF SetPriorities
  <1> HIDE DEF P, N
  <1>2. \A k \in 1..N : k - 1 \in 0..N /\ k \in 0..N /\ k \in Nat /\ k - 1 \in Nat
    BY <1>0
  <1>3. \A k \in 0..N : P[k] \subseteq Modules /\ IsFiniteSet(P[k])
                        /\ Cardinality(P[k]) \in Nat
    BY <1>0, ModulesFinite, FS_Subset, FS_CardinalityType
  <1>4. \A e \in SetPriorities(o) :
          \/ e[2] = 0
          \/ \E k \in 1..N : /\ e[1] \in P[k] \ P[k - 1]
                             /\ e[2] = Cardinality(P[k - 1])
    BY <1>1
  <1>5. ASSUME NEW k \in 1..N, NEW x \in P[k] \ P[k - 1]
        PROVE  Deps[x] \subseteq P[k - 1]
    <2> DEFINE y == o[((k - 1) % Len(o)) + 1]
    <2>1. P[k] = IF Deps[y] \subseteq P[k - 1] THEN P[k - 1] \cup {y} ELSE P[k - 1]
      BY PlacedSteps DEF P, N
    <2> HIDE DEF y
    <2> QED
      BY <2>1
  <1>6. ASSUME NEW k \in 1..N, NEW x \in P[k] \ P[k - 1],
               NEW f \in SetPriorities(o), f[1] \in Deps[x]
        PROVE  f[2] < Cardinality(P[k - 1])
    <2>1. f[1] \in P[k - 1]
      BY <1>5, <1>6
    <2>2. Cardinality(P[k - 1]) \in Nat \ {0}
      BY <1>2, <1>3, <2>1, FS_EmptySet
    <2>3. CASE f[2] = 0
      BY <2>2, <2>3
    <2>4. ASSUME NEW h \in 1..N, f[1] \in P[h] \ P[h - 1],
                 f[2] = Cardinality(P[h - 1])
          PROVE  f[2] < Cardinality(P[k - 1])
      <3>1. h - 1 < k - 1
        <4>1. SUFFICES ASSUME k - 1 <= h - 1 PROVE FALSE
          BY <1>2
        <4>2. h - 1 <= N
          BY <1>0
        <4>3. P[k - 1] \subseteq P[h - 1]
          BY <1>2, <4>1, <4>2, PlacedGrows DEF P, N
        <4> QED
          BY <2>1, <2>4, <4>3
      <3>2. P[h - 1] \subseteq P[k - 1]
        <4>1. h - 1 <= k - 1 /\ k - 1 <= N
          BY <1>0, <3>1
        <4> QED
          BY <1>2, <4>1, PlacedGrows DEF P, N
      <3>3. P[h - 1] # P[k - 1]
        BY <2>1, <2>4
      <3>4. /\ Cardinality(P[h - 1]) <= Cardinality(P[k - 1])
            /\ Cardinality(P[h - 1]) # Cardinality(P[k - 1])
        <4>1. IsFiniteSet(P[k - 1])
          BY <1>2, <1>3
        <4> QED
          BY <3>2, <3>3, <4>1, FS_Subset
      <3>5. Cardinality(P[h - 1]) \in Nat
        BY <1>2, <1>3
      <3> QED
        BY <2>2, <2>4, <3>4, <3>5
    <2> QED
      BY <1>4, <2>3, <2>4
  <1>7. \A x \in SetPriorities(o) : x[2] \in Nat
    BY <1>2, <1>3, <1>4
  <1>8. ASSUME NEW e \in SetPriorities(o), e[2] # 0,
               NEW f \in SetPriorities(o), f[1] \in Deps[e[1]]
        PROVE  f[2] < e[2]
    BY <1>4, <1>6, <1>8
  <1>9. PICK k \in 1..N : m \in P[k] \ P[k - 1]
    BY PlacedOnce DEF P, N
  <1> DEFINE own == <<m, Cardinality(P[k - 1])>>
  <1>10. own \in SetPriorities(o)
    BY <1>1, <1>9
  <1>11. \A f \in SetPriorities(o) : f[1] \in Deps[m] => f[2] < own[2]
    BY <1>6, <1>9
  <1> QED
    BY <1>7, <1>8, <1>10, <1>11

-----------------------------------------------------------------------------
(* The tiers: an entry is not loaded while a lower one is unfinished.      *)

\* All the entries of one visiting order that are no longer waiting or
\* loading, and those loading, have priorities at most those that are.
TierInv ==
  phase = "wasm" =>
    /\ \E o \in Orders :
         /\ todo \cup mid \subseteq SetPriorities(o)
         /\ \A e \in SetPriorities(o) :
              e[1] \in WasmModules /\ e \notin todo \cup mid =>
                \A f \in todo \cup mid : e[2] <= f[2]
    /\ \A e \in mid : \A f \in todo \cup mid : e[2] <= f[2]

LEMMA TierStep == KnownInv /\ TierInv /\ [Next]_vars => TierInv'
  <1> SUFFICES ASSUME KnownInv, TierInv, [Next]_vars PROVE TierInv'
    OBVIOUS
  <1>1. CASE UNCHANGED <<phase, todo, mid>>
    BY <1>1 DEF TierInv
  <1>2. CASE BootScan
    <2>1. mid = {} /\ mid' = {}
      BY <1>2 DEF BootScan, KnownInv
    <2>2. SUFFICES ASSUME phase' = "wasm" PROVE TierInv'
      BY DEF TierInv
    <2>3. PICK o \in Orders :
            todo' = {e \in SetPriorities(o) : e[1] \in WasmModules}
      BY <1>2, <2>2 DEF BootScan
    <2> QED
      BY <2>1, <2>3 DEF TierInv
  <1>3. ASSUME NEW e \in todo, BootWasmLoad(e) PROVE TierInv'
    <2>1. /\ phase = "wasm" /\ \A f \in todo \cup mid : e[2] <= f[2]
          /\ todo' \cup mid' = todo \cup mid
          /\ mid' = mid \cup {e}
      BY <1>3 DEF BootWasmLoad, CurrentTier
    <2> QED
      BY <2>1 DEF TierInv
  <1>4. ASSUME NEW e \in todo, BootWasmFail(e) PROVE TierInv'
    <2>1. /\ phase = "wasm" /\ \A f \in todo \cup mid : e[2] <= f[2]
          /\ todo' = todo \ {e} /\ mid' = mid
      BY <1>4 DEF BootWasmFail, CurrentTier
    <2> QED
      BY <2>1 DEF TierInv
  <1>5. ASSUME NEW e \in mid, BootWasmRecord(e) PROVE TierInv'
    <2>1. /\ phase = "wasm" /\ todo' = todo /\ mid' = mid \ {e}
      BY <1>5 DEF BootWasmRecord, KnownInv
    <2>2. \A f \in todo \cup mid : e[2] <= f[2]
      BY <2>1 DEF TierInv
    <2> QED
      BY <2>1, <2>2 DEF TierInv
  <1>6. CASE phase' # "wasm"
    BY <1>6 DEF TierInv
  <1>7. CASE Boot
    BY <1>1, <1>2, <1>3, <1>4, <1>5, <1>6, <1>7
    DEF Boot, BootWasmDone, BootGo, BootGoMigrationFails, BootGoRegisterFails,
        BootDone, bootVars
  <1>8. ASSUME NEW r \in Requests, Request(r) PROVE TierInv'
    BY <1>1, <1>8
    DEF Request, SetGate, Flip, PatchOk, PatchFailRollback, ReloadWasmLoad,
        ReloadGoSnapshot, ReloadWasmSwap, ReloadGoRegister, ReloadGoMigrate,
        ReloadGoFail, bootVars
  <1> QED
    BY <1>1, <1>6, <1>7, <1>8 DEF Next, Crash, vars

\* The tiers of a boot work: unless dependencies have a cycle, a WASM module
\* is not loaded at its own priority while a WASM dependency of it waits or
\* loads, whatever order the files were scanned in and whichever loads fail or
\* overlap; what loads earlier is at most its stray entry of priority 0, and
\* its own load then follows.
THEOREM OwnLoadsFollowDependencies ==
  ASSUME Acyclic
  PROVE  Spec => []OwnLoadAfterDependencies
  <1>1. TierInv => OwnLoadAfterDependencies
    <2> SUFFICES ASSUME TierInv, phase = "wasm", NEW m \in WasmModules,
                        NEW d \in Deps[m] \cap WasmModules,
                        NEW f \in todo \cup mid, f[1] = d
                 PROVE  /\ \E e \in todo : e[1] = m /\ e[2] > 0
                        /\ \A e \in mid : e[1] = m => e[2] = 0
      BY DEF OwnLoadAfterDependencies
    <2>1. PICK o \in Orders :
            /\ todo \cup mid \subseteq SetPriorities(o)
            /\ \A e \in SetPriorities(o) :
                 e[1] \in WasmModules /\ e \notin todo \cup mid =>
                   \A g \in todo \cup mid : e[2] <= g[2]
      BY DEF TierInv
    <2>2. m \in Modules
      BY DEF Modules
    <2>3. /\ \A x \in SetPriorities(o) : x[2] \in Nat
          /\ \A e \in SetPriorities(o) : e[2] # 0 =>
               \A g \in SetPriorities(o) : g[1] \in Deps[e[1]] => g[2] < e[2]
          /\ \E e \in SetPriorities(o) :
               e[1] = m /\ \A g \in SetPriorities(o) : g[1] \in Deps[m] => g[2] < e[2]
      BY <2>2, PrioritiesFollowDependencies
    <2>4. PICK e \in SetPriorities(o) :
            e[1] = m /\ \A g \in SetPriorities(o) : g[1] \in Deps[m] => g[2] < e[2]
      BY <2>3
    <2>5. f \in SetPriorities(o) /\ f[2] < e[2] /\ f[2] \in Nat /\ e[2] \in Nat
      BY <2>1, <2>3, <2>4
    <2>6. \A g \in mid : g[2] <= f[2]
      BY DEF TierInv
    <2>7. e \in todo /\ e[2] > 0
      BY <2>1, <2>4, <2>5, <2>6
    <2>8. ASSUME NEW g \in mid, g[1] = m PROVE g[2] = 0
      <3>1. g \in SetPriorities(o) /\ g[2] \in Nat /\ g[2] <= f[2]
        BY <2>1, <2>3, <2>6
      <3>2. g[2] # 0 => f[2] < g[2]
        BY <2>3, <2>5, <2>8, <3>1
      <3> QED
        BY <2>5, <3>1, <3>2
    <2> QED
      BY <2>4, <2>7, <2>8
  <1>2. Init => TierInv
    BY DEF Init, TierInv
  <1> QED
    BY <1>1, <1>2, TierStep, KnownHolds, PTL DEF Spec

=============================================================================
