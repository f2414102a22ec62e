CONSTANTS
    Callers <- ThreeCallers
    Keys <- TwoKeys
    Tasks <- ThreeTasks
SPECIFICATION CoSpec
INVARIANTS
    GroupHasOneTask
    AnswerIsFresh
PROPERTIES
    EveryCallerAnswered
