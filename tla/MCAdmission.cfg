SPECIFICATION AdmissionFairSpec
CHECK_DEADLOCK FALSE
CONSTANTS
    Nil = Nil
    Servers <- MCServers
    Requests <- MCRequests
    Inputs <- MCInputs
INVARIANTS
    AdmissionTypeOK
    NoRequestAbandoned
    AnswersAreCounted
    GracefulMeansHandled
PROPERTIES
    SignalEndsProcess
