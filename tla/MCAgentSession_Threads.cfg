SPECIFICATION FairSpec
CONSTANTS
    Sessions = {a}
    Nobody = nobody
    Fds = {1}
    MaxOutput = 2
    MaxSends = 2
INVARIANTS TypeOK  NoDescriptorLeak
PROPERTIES EndsClean
CHECK_DEADLOCK FALSE
