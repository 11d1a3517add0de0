SPECIFICATION Spec
CONSTANTS
    ask1 = ask1
    ask2 = ask2
    user1 = user1
    user2 = user2
    note1 = note1
    role1 = role1
    Anonymous = Anonymous
    Absent = Absent
    None = None
    Names <- MCNames
    MetaNames = {"__typename"}
    Ignored = {}
    AnonymousKey = "anonymous"
    MaxDepth = 2
    NameField = "name"
    ParentField = "parent"
    FieldOf <- MCFieldOf
    DocTypes = {"User", "Note", "Has Role"}
    ChildTables = {"Has Role"}
    Level <- MCLevel
    Granted <- MCGranted
    DefaultFields = {"name"}
    Docs = {user1, user2, note1, role1}
    TypeOf <- MCTypeOf
    ParentOf <- MCParentOf
    Listed = {user1, user2, note1}
    Paths <- MCPaths
    TypesAt <- MCTypesAt
    TableOf <- MCTableOf
    Asks = {ask1, ask2}
    MaxVersion = 1
    Documents <- Queries
    InitialRows <- MCInitialRows
    Changing = {user1, role1}
    Codes = {417}
CHECK_DEADLOCK FALSE
INVARIANT FieldsFound
