CONSTANTS
    Lifecycle = {l1}
    OrderId = {o1, o2}
    Worker = {w1, w2}
    NoLifecycle = NoLifecycle
    NoOrder = NoOrder
    MaxGeneration = 1
    Size = 2
    LocatorExact = TRUE
    TransportWraps = TRUE
SYMMETRY Interchangeable
SPECIFICATION Spec
PROPERTY FilledStaysClosed
CHECK_DEADLOCK FALSE
