\* One month, one document, two editors, two requests in hand. Four writes: a review or a
\* confirmation, the preparation, the close and the reopening.
SPECIFICATION FairSpec
CONSTANTS
    Editors = {e1, e2}
    Requests = {r1, r2}
    Documents = {d1}
    Reconcilers = {w1}
    Nobody = Nobody
    Keys = {k1}
    Fresh = Fresh
    MaxVersion = 4
    MaxFaults = 1
INVARIANTS
    TypeOK
    ClosedIsTheCut
    OneEffectPerKey
    WritesAreCurrent
PROPERTIES
    ImplementsMonthlyLedger
    EveryDocumentArrives
CHECK_DEADLOCK FALSE
