SPECIFICATION FairSpec
CONSTANTS
    Requests = {r1, r2, r3}
    Payloads = {p1, p2}
    Queries = {q1}
    Parts = 2
    None = None
INVARIANTS
    TypeOK
    AnswersAreTrue
PROPERTIES
    CallsOutAlone
    PromiseKept
    EveryoneIsAnswered
CHECK_DEADLOCK FALSE
