SPECIFICATION FairSpec
CONSTANTS
    Items <- ThreeAndTwo
    Active <- SomeActive
    MaxNumber = 1
    MaxFlight = 2
INVARIANTS ListenerHasThread AnswersMatch SizesTrue
PROPERTY EachAnswered
CHECK_DEADLOCK FALSE
