SPECIFICATION FairSpec
CONSTANTS
    MaxClients = 2
    MaxRequests = 2
    MaxFds = 3
    Room = 1
INVARIANTS TypeOK EventsValid OwnConnection RequestsAccounted
PROPERTIES EventuallyAnswered HangupCloses RunReturns
CHECK_DEADLOCK FALSE
