SPECIFICATION FairSpec
CONSTANTS
    Callers = {c1, c2}
    MaxRequest = 2
    MaxSession = 2
INVARIANT TypeOK
INVARIANT NoFlagIsLeft
INVARIANT AnswersLeftAreLate
INVARIANT OneHolderPerFlag
PROPERTY EmptyHandedIsCancelled
PROPERTY AnsweredReturns
