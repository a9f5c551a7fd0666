SPECIFICATION Spec
CONSTANTS
    Empty = ""
    DotDot = ".."
    Budget = 9
    Overhead = 2
    NoSize = NoSize
    Patterns <- MCPatterns
    EntryIds <- MCIds
    Collections <- MCCollections
    Urls <- MCUrls
    Documents <- MCDocuments
    Drafts <- MCDrafts
    ProtectedSets <- MCProtected
    Bodies <- MCBodies
    ItemSizes <- MCItems
    PageSizes <- MCSizes
    MaxPages = 3
    Records <- MCRecords
    ModuleSets <- MCModules
    RequiredFiles <- MCRequired
    Port = "80"
    NoProject = NoProject
    LifecycleBytes = 2
    EditBytes = 4
    ResponseBytes = 3
    Pins = "pins"
    MaxManifestBytes = 2
    Targets <- MCTargets
    HostValues <- MCHosts
    RawHeaders <- MCRawHeaders
    CorrectRequests <- MCCorrect
    Requests <- MCRequests
    Authorities <- MCAuthorities
    Outcomes <- MCOutcomes
    Bundles <- MCBundles
    RunningPins <- MCRunning
INVARIANTS OneReadingPerRequest AdmissionIsSound BundleIsExact RoutesInvert SavesMerge WalksAreExact JoinsItsOwn
