CONSTANTS
    c1 = c1
    c2 = c2
    none = none
    Contexts <- MCContexts
    NoContext <- none
    StackSize = 40
    Programs <- MCPrograms
SPECIFICATION FairSpec
INVARIANT TypeOK
INVARIANT MainAgrees
INVARIANT CallsAgree
PROPERTY Ends
CHECK_DEADLOCK FALSE
