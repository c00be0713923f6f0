SPECIFICATION Spec
CONSTANTS
    Hours <- TwoHours
    Notes = {0, 1}
    Whole = 2
    Unlimited = 20
    SecondaryObjective = TRUE
    Micro = 1
    Tol = 0
    Scenarios <- Requests
    ReadingsOf <- MCReadings
INVARIANTS
    ElasticPasses
    ValidForEveryReading
    PlanIsCheapest
    BendsLeast
    ConflictsAreReal
    DirectivesNeverDropped
PROPERTIES
    ImplementsPipeline
CHECK_DEADLOCK FALSE
