SPECIFICATION Spec
CONSTANTS
    Proc = {p1, p2, p3}
    Inode = {i1, i2, i3, i4}
    Overlapping = TRUE
    None = None
SYMMETRY Symmetry
INVARIANT AtMostOneDaemon
