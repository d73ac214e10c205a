SPECIFICATION FairSpec
CONSTANTS
    None = None
    Empty = ""
    Star = "*"
    Labels <- MCLabels
    Lower <- MCLower
    Clean <- MCClean
    Alphabetic <- MCAlphabetic
    Long = {"long"}
    f1 = f1
    f2 = f2
    f3 = f3
    ads = ads
    tracking = tracking
    Feeds = {f1, f2, f3}
    FeedFormats <- MCFeedFormats
    Bodies <- MCBodies
    Categories = {ads, tracking}
    FeedCategories <- MCFeedCategories
    Interval = 1
    MaxClock = 2
INVARIANTS
    MergedIsUnion
    ListedIsMerged
    ServedIsStored
PROPERTIES
    StoredBeforeServed
    IngestionEnds
