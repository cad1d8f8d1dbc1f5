SPECIFICATION MCSpec
CONSTANTS
    Event = {e1, e2, e3, e4}
    QueueCapacity = 2
    BatchSize = 2
INVARIANTS TypeOK CleanClose
PROPERTIES NoWriteAfterClose ImplementsAuditTrail EveryEventSettles
           GatewayImplementsAuditTrail EveryEventLeaves
