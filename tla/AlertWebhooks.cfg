\* Two occurrences with two ends each, four events, three rows, a worker that may crash.
SPECIFICATION Spec

CONSTANTS
    w1 = w1
    w2 = w2
    operators = operators
    Workers <- OneWorker
    Policies <- OnePolicy
    Repeating <- OnePolicy
    TellResolved <- OnePolicy
    Occurrences = {1, 2}
    Ends = {1, 2}
    MaxEvents = 4
    MaxMessages = 3
    MaxAttempts = 1
    MaxCrashes = 1

INVARIANTS
    OneReminderOutstanding
    OneRecovery

PROPERTY
    ImplementsContract

CHECK_DEADLOCK FALSE
