SPECIFICATION Spec
CONSTANTS
    ValidNames = {"a", "u"}
    OtherNames = {"", "a b"}
    Urls <- MCUrls
    Targets <- MCTargets
    Uid = "u"
    NoJob = NoJob
INVARIANTS
    TransportsAgree
    StoredIsDeliverable
    ListRoundTrip
    NothingOutOfReach
    
