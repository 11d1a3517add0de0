SPECIFICATION Spec
CONSTANTS
    Names <- MCNames
    Core <- MCCore
    Plural <- MCPlural
    Space = " "
    Hyphen = "-"
    Underscore = "_"
    S = "s"
    Specials = {"&"}
    Vowelled = {"Equipment"}
    Singles <- MCSingles
    Tables <- MCTables
    Predefined <- MCPredefined
    Broken <- MCPredefined
    Ignored = {}
    Module <- MCModule
    Calls <- MCCalls
    worker = worker
    save = save
    Processes = {worker, save}
    Builder = worker
    None = None
    FieldLists <- MCFieldLists
INVARIANTS
    MapsAreRecent
    ClashHasCause
    ResolverFits
    EnumsAreOwn
    SchemaInv
