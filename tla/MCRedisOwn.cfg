CONSTANTS
    Clients <- MCClients
    Writers <- MCWriters
    FailFast = {}
    Faulty = {}
SPECIFICATION OwnSpec
INVARIANT AnswersItself
CHECK_DEADLOCK FALSE
