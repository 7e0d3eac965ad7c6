\* Questions about a graph of six nodes, one after another, during an ingestion.
SPECIFICATION Spec
CONSTANTS
    clientA = clientA
    clientB = clientB
    product = product
    project = project
    employee = employee
    department = department
    NoNode = NoNode
    NoText = NoText
    NodeIds <- MCNodeIds
    TypeOf <- MCTypeOf
    Links <- MCLinks
    Loaded <- MCLoaded
    Questions <- MCQuestions
    Asked <- MCAsked
    Passing <- MCPassing
    NameOf <- Names
    Texts <- MCTexts
    IsId <- MCIsId
    NamedBy <- MCNamedBy
    Sim <- MCSim
    Contained <- MCContained
    NameLimit = 1
    Terms <- MCTerms
    Owner <- MCOwner
    Inside <- MCInside
INVARIANT TypeOK
INVARIANT DecisiveHasKeyword
INVARIANT IdentifierKeepsGraphAhead
INVARIANT ReplacementIsTold
INVARIANT RanksWhatIsAsked
PROPERTY NothingMissed
