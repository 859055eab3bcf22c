\* check_fd_flags of two requests with different flags, interleaved.
CONSTANTS
    Threads = {t1, t2, t3}
    Flags = {fa, fb}
    SealSize = TRUE
SYMMETRY Symm
SPECIFICATION Spec
INVARIANTS CacheCoherent
