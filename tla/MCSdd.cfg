SPECIFICATION FairSpec
CONSTANTS
    l1 = l1
    l2 = l2
    Lineages <- MCLineages
    Roots <- MCLineages
    Trees = {t1, t2}
    Base = t1
    Binders = {b1, b2}
    Settings <- MCSettings
    MaxDisturbances = 1
    Verdicts = {"approved", "escalated"}
CHECK_DEADLOCK FALSE
INVARIANTS
    ArchiveIsEarned
    VerifyIsEarned
PROPERTIES
    ImplementsRegister
    StandingReviewArchives
