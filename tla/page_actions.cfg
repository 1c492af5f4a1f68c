SPECIFICATION FairSpec
CONSTANTS
    MaxActions = 2
    Operations <- SomeOperations
    Configs <- SomeConfigs
INVARIANTS
    
    StormIsBounded
    
    ProposalIsEarned
    
PROPERTY
    CallsSettle
CHECK_DEADLOCK FALSE
