SPECIFICATION NotifySpec
CONSTANTS
    docEvents = docEvents
    userLogin = userLogin
    id1 = id1
    id2 = id2
    alice = alice
    bob = bob
    guest = guest
    event1 = event1
    event2 = event2
    request1 = request1
    call1 = call1
    ping1 = ping1
    NoKey = NoKey
    Null = Null
    Guest = guest
    DocEvents = docEvents
    Subscriptions = {docEvents, userLogin}
    CompletingFields = {userLogin}
    Users = {alice, bob}
    Transactions = {request1}
    Ids = {id1, id2}
    Events = {event1}
    Requests = {}
    Completers = {event1}
    Threshold = 0
    UserOf <- MCUserOf
    Filters <- MCFilters
    DocTypes <- MCDocTypes
    TypeName <- MCTypeName
    SdlDocTypes <- MCDocTypes
PROPERTY TypedChangeIsHeard
