SPECIFICATION Spec
CONSTANTS
    p1 = p1  p2 = p2  own = own  catalog = catalog  alice = alice  bob = bob
    linux = linux  windows = windows  None = None
    r1 = r1  r2 = r2
    Plugins = {p1, p2}
    Instances = {i1}
    Sources = {own, catalog}
    Catalogs <- MCCatalogs
    Offers <- MCOffers
    Assets <- MCAssets
    Preferred <- MCPreferred
    Manifest <- MCManifest
    Core <- MCCore
    Platform = linux
    Requested = {"driver-windows"}
    Reviewed <- MCReviewed
    Index <- MCIndex
    Commands = {r1, r2}
    MaxVersion <- MCMaxVersion
    MaxUploads = 1
    MaxCommands = 3
INVARIANTS EntryIsAuthentic PermissionsWereConfirmed
PROPERTIES TrustKeptUnlessOvertaken
SYMMETRY Twins
CONSTRAINT Budget
CHECK_DEADLOCK FALSE
