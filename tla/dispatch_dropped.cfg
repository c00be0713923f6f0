SPECIFICATION Spec
CONSTANTS
    Hours <- FourHours
    Notes = {0}
    Whole = 1
    Unlimited = 50
    SecondaryObjective = TRUE
    Micro = 5
    Tol = 5
    Scenarios <- ForcedRequests
    ReadingsOf <- FineReadings
INVARIANTS
    DirectivesNeverDropped
CHECK_DEADLOCK FALSE
