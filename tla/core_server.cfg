SPECIFICATION Spec
CONSTANTS
    Clients = {c1, c2, c3}
    Boxes = {b1, b2, b3}
    Procs = {p1, p2}
    None = None
    Dud = Dud
SYMMETRY Symmetry
INVARIANTS
    InstanceInv
    StopFindsInstance
    ExtraGoesWithBox
PROPERTIES
    KeepsContract
