SPECIFICATION Spec
CONSTANTS
    Key <- Keys
    Hash <- HashKeys
    NoKey = NoKey
    Thrown = Thrown
    Size <- SmallAndLarge
    Lines = 2
    Ways = 2
    Limit = 4
    Unloadable <- Missing
INVARIANTS
    ExistingKeysAnswered
    Stage0WithinStage1
    MemoryAccounted
