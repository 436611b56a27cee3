\* Cron and API sync, a failure or a restart, an import, a changing account.
CONSTANTS
    Accounts <- MCAccounts
    SNSOnly = {"sns"}
    AccountID <- MCAccountID
    Resources <- MCResources
    Sees <- MCSees
    IdOf <- MCIdOf
    TableOf <- MCTableOf
    SourceOf <- MCSourceOf
    CallOrder <- MCCallOrder
    Changing = {"sp1", "i1"}
    MaxVersion = 2
    MaxFaults = 1
    MaxImports = 1
SPECIFICATION FairSpec
INVARIANT
    SyncTypeOK
PROPERTIES
    RowsDropOnlyWhenGone
    RegressOnlyByOverlap
    Converges
    ApiSyncEnds
