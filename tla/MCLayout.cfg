CONSTANTS
    w1 = w1
    w2 = w2
    w3 = w3
    w4 = w4
    s1 = s1
    s2 = s2
    s3 = s3
    win = win
    popped = popped
    o1 = o1
    o2 = o2
    left1 = left1
    right1 = right1
    None = None
    Windows = {s1, s2, s3}
    Focusing = TRUE
    MaxChanges = 2
    MaxQueue = 3
SPECIFICATION Spec
INVARIANTS
    TypeOK
    
    RestoreIsInverse
    KeyboardFollows
    TabsCatchUp
PROPERTIES
    KeysGoWhereTheyMay
\* The model stops where the program would panic, and a stack may die.
CHECK_DEADLOCK FALSE
SYMMETRY Perms
