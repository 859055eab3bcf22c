\* Three request threads on one handle, two flag values, seal_size on.
CONSTANTS
    Threads = {t1, t2, t3}
    Flags = {fa, fb}
    SealSize = TRUE
SYMMETRY Symm
SPECIFICATION Spec
INVARIANTS TypeOK DropExactlyWhenUnreferenced
