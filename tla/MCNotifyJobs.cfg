SPECIFICATION NotifySpec
CONSTANTS
    docEvents = docEvents
    userLogin = userLogin
    id1 = id1
    id2 = id2
    alice = alice
    bob = bob
    guest = guest
    event1 = event1
    event2 = event2
    request1 = request1
    call1 = call1
    ping1 = ping1
    NoKey = NoKey
    Null = Null
    Guest = guest
    DocEvents = docEvents
    Subscriptions = {docEvents, userLogin}
    CompletingFields = {userLogin}
    Users = {alice, bob}
    Transactions = {request1}
    Ids = {id1}
    Events = {event1, event2}
    Requests = {ping1}
    Completers = {event1, event2}
    Threshold = 0
    UserOf <- MCUserOf1
    Filters <- MCFilters1
    DocTypes <- MCDocTypes
    TypeName <- MCTypeName
    SdlDocTypes <- MCDocTypes
INVARIANTS
    NotifyInv
    OnlyCommittedIsHeard
PROPERTY HeardOnce
