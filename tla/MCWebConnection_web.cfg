SPECIFICATION Spec
CONSTANTS
    MaxAttempt = 5
INVARIANTS OfflineRetries ConnectedIsCurrent NoStrayTransport
CHECK_DEADLOCK FALSE
