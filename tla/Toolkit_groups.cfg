CONSTANTS
    Tools = {"digest"}
    K8sOptions <- MCK8sOptions
    ApiGroups <- MCGroups
    NamespaceSeq <- MCNamespaces
    PodsOf <- MCPods
    Labels <- MCLabels
    MaxFaults = 2
    Databases = {"a", "b"}
    Asked = {}
    MaxWork = 3
    CollectOptions <- MCCollect
    Commands <- MCCommands
    Included <- MCIncluded
    Leftover <- MCLeftover
    MaxSlips = 2
    DigestClusters <- MCDigestClusters
    DocumentLists <- MCDocumentLists
    OrderBys <- MCOrderBys
    Limits = {0, 2}
    SkippedSuffixes = {"system.profile"}
    DollarKeys = {"$gt", "$match"}
    KeyFilters = {"shardVersion"}
    SummaryPlaces <- MCSummaryPlaces
    Samples = 2
    OpNames = {"insert", "query"}
    Catalogues <- MCCatalogues
    Changelogs <- MCChangelogs
    MaxOps = 3
    MaxErrors = 1
    Contents <- MCContents
    IndexChecks <- MCChecks
    SystemDBs = {"local"}
    MaxRefused = 1
    Docs = 0
    Wanted = {}
    Ticks = 0
    Reads = 1
    Stoppers = {}
SPECIFICATION Spec
INVARIANT GroupedByFingerprint
CHECK_DEADLOCK FALSE
