\* An early return of read or write while another request uses the fd.
CONSTANTS
    Threads = {t1, t2, t3}
    Flags = {fa, fb}
    SealSize = TRUE
SYMMETRY Symm
SPECIFICATION Spec
INVARIANTS NoIOOnClosedFd
