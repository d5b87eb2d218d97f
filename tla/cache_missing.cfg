SPECIFICATION Spec
CONSTANTS
    Key <- Keys
    Hash <- HashKeys
    NoKey = NoKey
    Thrown = Thrown
    Size <- OneEach
    Lines = 3
    Ways = 1
    Limit = 3
    Unloadable <- Missing
INVARIANTS
    AnswersTheKey
