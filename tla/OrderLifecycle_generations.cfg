CONSTANTS
    Lifecycle = {l1}
    OrderId = {o1, o2}
    Worker = {w1, w2, w3}
    NoLifecycle = NoLifecycle
    NoOrder = NoOrder
    MaxGeneration = 2
    Size = 2
    LocatorExact = TRUE
    TransportWraps = TRUE
SYMMETRY Interchangeable
SPECIFICATION Spec
INVARIANTS
    OneHandoff
    SingleExposure
    ExposureAccountable
    ExposureOwned
    TerminalIsTrue
    ExactAffinity
PROPERTIES
    StaleGenerationFrozen
    FillKept
CHECK_DEADLOCK FALSE
