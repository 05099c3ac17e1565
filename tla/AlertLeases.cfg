\* Two workers whose leases run out and who may crash; an occurrence and two rows.
SPECIFICATION FairSpec

CONSTANTS
    w1 = w1
    w2 = w2
    operators = operators
    Workers <- TwoWorkers
    Policies <- OnePolicy
    Repeating <- OnePolicy
    TellResolved <- OnePolicy
    Occurrences = {1}
    Ends = {1}
    MaxEvents = 2
    MaxMessages = 2
    MaxAttempts = 2
    MaxCrashes = 1

INVARIANT
    AttemptsTellState

PROPERTY
    QueuedIsSettled

CHECK_DEADLOCK FALSE
