SPECIFICATION FairSpec
CONSTANTS
    t1 = t1  t2 = t2  r1 = r1  r2 = r2
    None = None
    Orders = {o1, o2}
    Replicas = {r1, r2}
    Ticks = {t1, t2}
    ReplicaOf <- MCTwoReplicas
    BatchSize = 2
    GroupHasOffset = TRUE
    MaxFaults = 1
CHECK_DEADLOCK FALSE
INVARIANTS
    OutboxInv
PROPERTIES
    ImplementsAtLeastOnce
    EveryOrderIsHandled
