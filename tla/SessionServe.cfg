SPECIFICATION FairSpec
CONSTANTS
    d1 = d1
    d2 = d2
    o1 = o1
    o2 = o2
    l1 = l1
    l2 = l2
    peer = peer
    None = None
    Dials = {d1}
    Number = {1}
    Offers <- MCOffers
    Listeners <- MCListeners
    Ids <- MCIds
    IdOf <- MCIdOf
    To <- MCTo
    Capacity = 1
    MaxInbox = 2
INVARIANTS
    TypeOK
    RefusalNeedsCancel
    LossNeedsCancel
PROPERTIES
    NoOfferUnclaimedWhileServing
    OfferSettles
    ReplyWakesCall
    InstallCompletes
CHECK_DEADLOCK FALSE
