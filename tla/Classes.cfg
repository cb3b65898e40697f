SPECIFICATION Spec
CONSTANTS
    None = None
    Garbage = Garbage
    VariantTypes <- MCVariantTypes
    Classes = {"Node", "Resource", "Object"}
    Nodes = {"Node"}
    Resources = {"Resource"}
    Numbers <- MCNumbers
    Core = TRUE
    Numerals = {1}
    Required <- MCRequired
    Scripts <- MCScripts
    Names = {"x", "y", "z", "v", "s", "m", "M", "K", "other", "Engine"}
    Values <- MCValues
    Returned <- MCReturned
    Big <- MCBig
    Arguments <- MCArguments
    Pascal <- MCPascal
    EngineProperties = {"Engine"}
    EngineMethods = {"GetName"}
    EngineSignals = {"Ready"}
    Scratch <- MCScratch
    CustomLists <- MCCustomLists
INVARIANTS
    TypeOK
    AsWritten
    AcceptedIsReadable
    KeptAsSet
    CallArguments
    ReportsAgree
