\* One apply of a patch of two hunks, the first of which adds a line.
SPECIFICATION Spec
CONSTANTS
    f = f
    g = g
    absent = absent
    a = a
    b = b
    c = c
    x = x
    y = y
    r1 = r1
    r2 = r2
    Paths = {f, g, absent}
    Lines = {a, b, c, x, y, foreign}
    Patches <- DriftPatches
    Previews = {v1}
    Requests = {r1}
    InitialDisk <- MCDisk
    Foreign = foreign
    MaxEdits = 0
    MaxFailures = 0
    Absent = Absent
    None = None
INVARIANTS
    AppliedAsPreviewed
CHECK_DEADLOCK FALSE
