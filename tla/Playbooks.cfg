SPECIFICATION Spec
CONSTANTS
    u1 = u1
    u2 = u2
    r1 = r1
    r2 = r2
    a1 = a1
    a2 = a2
    a3 = a3
    a4 = a4
    q1 = q1
    q2 = q2
    q3 = q3
    Nobody = Nobody
    User <- TwoUsers
    Run <- OneRun
    Approval <- FourApprovals
    Request <- ThreeRequests
    NumSteps = 3
    Destructive <- LastTwo
SYMMETRY Symmetry
INVARIANTS
    TypeOK
    DualControl
    StepsInOrder
    NoStrandedRun
    ResumesNotReplaysAlone
PROPERTIES
    DecisionsAreFinalAlone
CHECK_DEADLOCK FALSE
