SPECIFICATION FairSpec
CONSTANTS
    Accounts = {a1, a2}
    None = None
    MaxEdits = 1
    MaxRevision = 1
INVARIANTS AccountsApart SignedOutLeavesNothing SyncedMeansSent SwitchStands
PROPERTIES NothingLostUnasked UnsentEditsGo
