CONSTANTS
    Senders = {s1, s2}
    MaxCalls = 2
    MaxBreaks = 1
SPECIFICATION Spec
INVARIANTS
    AnswersConserved
    DeviceStateIsFresh
    NonceAdvances
CHECK_DEADLOCK FALSE
