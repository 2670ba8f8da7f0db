------------------------- MODULE MCModuleLifecycle -------------------------
(* One small module set for TLC: the App Store and a Go module, a WASM base *)
(* module that registers the Go module's table, and a WASM module that      *)
(* depends on it and registers that table once more with another column.    *)
EXTENDS ModuleLifecycle, TLC

CONSTANTS appstore, crm, wbase, wext, twasm, base, extra, r1, r2

Table(t, cols) == [x \in {t} |-> cols]
NoTables == [x \in {} |-> {}]

DepsOf(m) == IF m = wext THEN {wbase} ELSE {}
ContribOf(m) == CASE m = appstore -> NoTables
                  [] m = crm -> Table(twasm, {base})
                  [] m = wbase -> Table(twasm, {base})
                  [] m = wext -> Table(twasm, {base, extra})

\* Two Go modules, one of which registers the table of the WASM base module.
MCOrder == <<appstore, crm>>
MCDeps == [m \in {appstore, crm, wbase, wext} |-> DepsOf(m)]
MCContrib == [m \in {appstore, crm, wbase, wext} |-> ContribOf(m)]

\* The theorem on the load order is about dependencies like these.
ASSUME DepsAcyclic == Acyclic
=============================================================================
