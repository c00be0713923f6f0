SPECIFICATION Spec
CONSTANTS
    Hours <- FourHours
    Notes = {0, 1}
    Whole = 1
    Unlimited = 50
    SecondaryObjective = TRUE
    Micro = 5
    Tol = 5
    Scenarios <- FineRequests
    ReadingsOf <- FineReadings
INVARIANTS
    PhysicsAlwaysObeyed
PROPERTIES
    ImplementsPipeline
CHECK_DEADLOCK FALSE
