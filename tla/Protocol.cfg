SPECIFICATION Spec
CONSTANTS
    Signatures <- MCSignatures
    ParamLists <- MCParamLists
INVARIANTS
    TypeOK
    AnsweredOnce
    AnswerTellsWhatRan
    ListsBindByPosition
CHECK_DEADLOCK FALSE
