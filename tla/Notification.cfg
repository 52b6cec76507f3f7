SPECIFICATION Spec
CONSTANTS
    Jobs <- MCJobs
    JobLists <- MCJobLists
    Forced <- MCForced
    OptedOut <- MCOptedOut
    MaxAttempts = 3
    MaxDeaths = 1
CHECK_DEADLOCK FALSE
INVARIANTS
    NotificationInv
    SentOnceIfKnown
PROPERTIES
    LettersWereTried
