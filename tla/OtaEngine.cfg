SPECIFICATION FairSpec
CONSTANTS
    Adapters <- AllAdapters
    Blocks = 2
    Limit = 2
    MaxBoots = 3
    MaxCrashes = 1
INVARIANTS TypeOK WorkFollowsJournal RolledBackRunsOld
PROPERTIES NoReinstall WholeInstalled SuccessOnlyOnTarget ImplementsTransaction EventuallyDecided
