SPECIFICATION FairSpec
CONSTANTS
    fieldA = fieldA
    fieldB = fieldB
    id1 = id1
    id2 = id2
    ping1 = ping1
    ping2 = ping2
    call1 = call1
    NoKey = NoKey
    Subscriptions = {fieldA, fieldB}
    Ids = {id1, id2}
    Requests = {ping1, ping2}
    Completers = {call1}
    Threshold = 0
INVARIANTS
    TypeOK
    RegistryInv
PROPERTIES
    SweepComplete
    RetiredIsForever
    AbandonedIsRemoved
