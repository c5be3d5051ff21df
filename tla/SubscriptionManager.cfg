CONSTANTS
    n1 = n1
    n2 = n2
    Subscriber = {s1, s2}
    Notifier = {n1, n2}
    Nop = Nop
    EventBufferSize = 1
    MaxEvents <- MCMaxEvents
    MaxSubscriptions = 2
SPECIFICATION Spec
INVARIANTS TypeOK InOrderExactlyOnce NilMeansProcessed
PROPERTIES SilentAfterUnsubscribe NotifierReleased EventuallyDistributed
CHECK_DEADLOCK FALSE
