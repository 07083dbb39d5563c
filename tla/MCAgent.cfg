CONSTANTS
    Agents = {a1, a2}
    Contexts = {c1, c2}
    NoAgent = NoAgent
    MaxRequests = 4
    SendMayFail = {TRUE, FALSE}
SPECIFICATION Spec
INVARIANTS
    AnsweredOnce
PROPERTIES
    EveryRequestAnswered
