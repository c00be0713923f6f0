SPECIFICATION Spec
CONSTANTS
    DayLength = 4
    Hours <- FourHours
    Notes = {0, 1}
    Whole = 2
    Unlimited = 20
    Thousand = 2
    NModels = 1
    MaxRepairs = 1
    Hedging = TRUE
    RuleFallback = TRUE
    Batteries <- MCBatteries
    Texts <- MCTexts
    Replies <- MCReplies
INVARIANTS
    AppliedInRange
    HoursMeantAreCovered
    HedgesOnlyTighten
PROPERTIES
    RightReplyAccepted
CHECK_DEADLOCK FALSE
