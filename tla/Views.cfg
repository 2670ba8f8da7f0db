CONSTANTS
  Functions <- MCFunctions
  Result <- MCResult
  Handlers <- MCHandlers
  Patch <- MCPatch
  MenuActions <- MCMenuActions
  HeaderButtons <- MCHeaderButtons
  Discoveries <- MCDiscoveries
  Catalog <- MCCatalog
  Slug <- MCSlug
  Texts = {"", "B"}
  Typed = {"", "7.5", "x"}
  Number <- MCNumber
  Round <- MCRound
  PageIds = {"p1", "p2"}
  MaxEdits = 4
  TileIds = {"t3"}
  Stored <- MCStored
  RecordLists <- MCRecordLists
  Bucket <- MCBucket
  MaxPieSlices = 3
  NoTotal = NoTotal
  MaxClicks = 5
  v1 = v1
  v2 = v2
  Visits = {v1, v2}
  Tenants <- MCTenants
  Lines <- MCLines
  MaxMonth = 2
  MaxPresses = 2
  MaxTroubles = 1
  Requested <- MCRequested
  Printed <- MCPrinted
  Documents <- MCDocuments
  RowLists <- MCRowLists
  Companies <- MCCompanies
  RowsPerPrint = 2
  Subtotal <- MCSubtotal
  MaxRows = 4
  Deactivated = {{}, {"crm"}}
  RowsOf <- MCRows
SPECIFICATION Spec
INVARIANT WholeViews
INVARIANT LinksLand
INVARIANT ComputedAgree
INVARIANT ActiveTabExists
INVARIANT BoardShowsStored
INVARIANT TilesCountOnce
INVARIANT ReceiptsOnce
INVARIANT PrintedAgrees
SYMMETRY Symmetry
CHECK_DEADLOCK FALSE
