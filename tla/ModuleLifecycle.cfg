CONSTANTS
  appstore = appstore
  crm = crm
  wbase = wbase
  wext = wext
  twasm = twasm
  base = base
  extra = extra
  r1 = r1
  r2 = r2
  AppStore = appstore
  Columns = {base, extra}
  Requests = {r1, r2}
  GoOrder <- MCOrder
  WasmModules = {wbase, wext}
  Tables = {twasm}
  Deps <- MCDeps
  Contrib <- MCContrib
SPECIFICATION Spec
INVARIANT AgreementUnlessRaced
INVARIANT AppStoreStaysActive
INVARIANT GatedTablesCanOpen
INVARIANT OwnLoadAfterDependencies
