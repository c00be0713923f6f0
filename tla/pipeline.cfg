SPECIFICATION FairSpec
CONSTANTS
    Notes = {0, 1}
INVARIANTS
    TypeOK
    PlanIsForReportedNotes
    GivesUpOnlyWithoutHedges
    DegradationAnnounced
PROPERTIES
    AlwaysAnswers
CHECK_DEADLOCK FALSE
