\* One question after another, two chunks of two types.
SPECIFICATION Spec
CONSTANTS
    MaxRows = 2
    Texts = {vetted, unguarded, irrelevant}
    Guarded = {vetted, irrelevant}
    Relevant = {vetted, unguarded}
    NoText = NoText
    MaxRetry = 1
    memo = memo
    note = note
    Chunks <- MCChunks
    DocTypes <- MCDocTypes
    TypeOf <- MCTypeOf
    IdOrder <- MCIdOrder
    NoType = NoType
    TopK = 1
    Limit = 20
INVARIANTS
    TypeOK
    AsksAnew
    AgreementWins
PROPERTIES
    ReleaseIsTold
    EmptyMeansNothing
    FailureHidesNothing
    EveryQuestionAnswered
