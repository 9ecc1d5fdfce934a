SPECIFICATION Spec
CONSTANTS
    Hosts = {h1}
    Pages = {list, job}
    Requests = {r1}
    Loads = {l1, l2}
    Limit = 1
    MaxVersion = 1
    NoEntry = NoEntry
    NoLoad = NoLoad
    NoValue = NoValue
INVARIANTS TypeOK LabelHonest OneRefresh EntriesBounded PendingHasEntry
PROPERTIES NeverGoesBack RefreshEnds
