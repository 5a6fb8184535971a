SPECIFICATION CrmSpec
CONSTANTS
    rm1 = rm1
    rm2 = rm2
    c1 = c1
    c2 = c2
    l1 = l1
    l2 = l2
    RMs = {rm1, rm2}
    Records <- MCRecords
    Entity <- MCEntity
    Listing <- MCListing
    Held <- MCHeld
    CrmOrder <- MCOrder
    WriteBacks = {w1}
    Logins = {rm2}
    Changes <- MCChanges
    Synced = {"clients", "leads"}
    PageSize = 1
    Faults = {"crm", "mongo", "crash"}
    MaxEdits = 1
    MaxSyncs = 1
INVARIANTS NeverAhead CleanSyncIsFresh ConfirmedStaysUnlessRaced
PROPERTIES FullSyncEnds
CHECK_DEADLOCK FALSE
