SPECIFICATION Spec
CONSTANTS
    a = a
    b = b
    d = d
    e = e
    k = k
    s = s
    NoCommand = NoCommand
    Commands = {a, b, d, e, k, s}
    KindOf <- EachKind
    LinesOf <- EachLines
    RunOf <- EachRun
    MaxFrames = 4
    MaxRefusals = 2
    MaxCrashes = 2
INVARIANTS DoneOnce AnswersAgree
CHECK_DEADLOCK FALSE
