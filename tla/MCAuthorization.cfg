SPECIFICATION Spec
CONSTANTS
    s1 = s1 s2 = s2 u1 = u1 g1 = g1
    NoSpace = NoSpace
    Spaces = {s1, s2}
    Labels <- MCLabels
    Users = {u1}
    Agents = {g1}
    Principals <- MCPrincipals
INVARIANTS
    LabelsOnlyNarrow OutsiderLearnsNothing
SYMMETRY SpaceSymmetry
