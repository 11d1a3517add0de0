SPECIFICATION TimelySpec
CONSTANTS
    fieldA = fieldA
    id1 = id1
    id2 = id2
    ping1 = ping1
    ping2 = ping2
    call1 = call1
    NoKey = NoKey
    Subscriptions = {fieldA}
    Ids = {id1, id2}
    Requests = {ping1, ping2}
    Completers = {call1}
    Threshold = 4
    Period = 1
    Delay = 1
SYMMETRY Symmetry
INVARIANTS
    TimelyInv
    ActiveStaysRegistered
    ActiveIsFresh
PROPERTY LeaseSpec
