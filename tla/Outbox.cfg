\* Four rows, one of which the sink rejects, in batches of two; two publishers.
CONSTANTS
    Messages = {1, 2, 3, 4}
    Rejected = {2}
    Publishers = {p1, p2}
    Limit = 2
    MaxFaults = 2
SPECIFICATION FairSpec
INVARIANTS
    PublishedWasDelivered
    RepeatedForCause
PROPERTY MessagesPublished
CHECK_DEADLOCK FALSE
