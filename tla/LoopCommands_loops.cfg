SPECIFICATION Spec
CONSTANTS
    Loops = {a, b}
    Keys = {k1, k2}
    e1 = e1
    Evidence = {e1}
    EvidenceLists <- MCEvidenceLists
    Boundaries = {1}
    Lead = 0
    MaxRefs = 2
    MaxVersion = 5
    MaxTransitions = 2
    MaxTime = 1
    NoKey = NoKey
    NoEntry = NoEntry
    Unaddressed = Unaddressed
    NoDate = NoDate
    Undated = Undated
    Soft = Soft
CONSTRAINT FewTransitions
SYMMETRY Symmetric
INVARIANTS
    TypeOK
    AppliedOnce
    TwoLoopStepsAreWhole
    RefusedOnlyWhenAging
PROPERTIES
    DecisionsStand
