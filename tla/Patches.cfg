\* Two applies of up to two previews, somebody else's write, failures of file
\* operations and crashes.
SPECIFICATION Spec
CONSTANTS
    f = f
    g = g
    absent = absent
    a = a
    b = b
    c = c
    x = x
    y = y
    r1 = r1
    r2 = r2
    Paths = {f, g, absent}
    Lines = {a, b, c, x, y, foreign}
    Patches <- MCPatches
    Previews = {v1, v2}
    Requests = {r1, r2}
    InitialDisk <- MCDisk
    Foreign = foreign
    MaxEdits = 1
    MaxFailures = 2
    Absent = Absent
    None = None
SYMMETRY MCSymmetry
INVARIANTS
    TypeOK
    
    RolledBackIsRestored
CHECK_DEADLOCK FALSE
