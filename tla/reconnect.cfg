SPECIFICATION FairSpec
CONSTANTS
    MaxSocks = 3
    MaxCalls = 2
    MaxFaults = 2
INVARIANTS
    TypeOK
    OwnReply
    InvisibleRenewal
    OneSocket
PROPERTIES
    
    AgentEnds
