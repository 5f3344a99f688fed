SPECIFICATION SquadsSpec
CONSTANTS
    ann = ann
    bob = bob
    cem = cem
    r1 = r1
    r2 = r2
    teacher = teacher
    Classmates = {ann, bob, cem}
    Teacher = teacher
    Sizes = {0, 2, 3}
    MaxSquads = 2
    MaxUploads = 2
    Slots = {r1, r2}
    MaxChanges = 1
SYMMETRY Symmetry
INVARIANTS
    LockedIsSettled
    SharedIsLocked
PROPERTIES
    JoinsWithinSize
CHECK_DEADLOCK FALSE
