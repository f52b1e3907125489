SPECIFICATION FairSpec
CONSTANTS
    Thread = {t1, t2, t3}
    CounterMax = 4
INVARIANTS
    LeaseExclusive
    PublicationExcludesReaders
    EveryTicketOwned
    NoLostWakeup
PROPERTIES
    GrantsInTicketOrder
    
