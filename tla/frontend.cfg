CONSTANTS
    StructFields <- MCStructs
    Declarations <- MCDeclarations
    TemplateSets <- MCTemplateSets
    Calls <- MCCalls
    MaxFunctions = 2
    TemplateArgs = {a1, a2}
    MaxTemplateOps = 5
    Names = {"x", "y"}
    GlobalTypes <- MCGlobalTypes
    Inits = {"i1"}
    MaxScopes = 3
    MaxSymbols = 2
    FieldNames <- MCFieldNames
    Is32Bit = FALSE
    Width = 2
    Undef = Undef
    Gap = Gap
    Symbols <- MCSymbols
    Depth = 1
    Forms <- MCForms
    Memory <- MCMemory
    Masks <- MCMasks
    DeclaredTypes <- MCDeclaredTypes
    InitExprs <- MCInitExprs
    DeclMemory <- MCMemory
    DeclMasks <- MCDeclMasks
SPECIFICATION Spec
INVARIANTS
    TypesOK
    NamesTellTypesApart
    CallsConvert
    CallsRunTheirCode
    NamesConsistent
PROPERTIES
    CodeMeansSource
    SafeWhenAllOff
CONSTRAINT Worthwhile
CHECK_DEADLOCK FALSE
