CONSTANTS
    Accounts = {a1}
    Dates = {1, 2, 3}
    Undated = Undated
    SiteDates <- AnyDated
    MaxItems = 3
    MaxFaults = 1
    NoEtag = NoEtag
SPECIFICATION FairSpec
INVARIANTS TypeOK NoDuplicateStatus ChronologicalStatuses ValidatorsCoverItems
PROPERTIES EveryItemTooted
