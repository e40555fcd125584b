SPECIFICATION FairSpec
CONSTANTS
    heartbeat = heartbeat
    clock = clock
    Senders = {heartbeat}
    MaxSockets = 3
    MaxTickets = 2
    MaxFailures = 1
INVARIANTS SleepsWhileDetached RestoredOverAttachedSocket
PROPERTIES OneRecovery ConnectedOrStopped
CHECK_DEADLOCK FALSE
