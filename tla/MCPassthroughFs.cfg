CONSTANTS
    n1 = n1  n2 = n2
    o1 = o1  o2 = o2
    w1 = w1  w2 = w2
    Names <- MCNames
    Objects <- MCObjects
    Workers <- MCWorkers
    MaxInode = 2
    MaxHandle = 2
    MaxRef = 2
    SinkResults = {"ok", "full", "err"}
    NoObject = NoObject
    NoName = NoName
    NoInode = NoInode
SYMMETRY MCSymmetry
SPECIFICATION Spec
INVARIANTS
    TypeOK
    RefcountSound
    UniqueInode
    OpenHandlesValid
