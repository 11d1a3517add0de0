SPECIFICATION Spec
CONSTANTS
    fieldA = fieldA
    fieldB = fieldB
    id1 = id1
    id2 = id2
    ping1 = ping1
    ping2 = ping2
    call1 = call1
    NoKey = NoKey
    Subscriptions = {fieldA}
    Ids = {id1}
    Requests = {ping1}
    Completers = {}
    Threshold = 1
PROPERTY OnlyInactiveRemoved
