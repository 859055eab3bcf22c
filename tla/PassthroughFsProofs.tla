------------------------- MODULE PassthroughFsProofs -------------------------
(***************************************************************************)
(* Proofs about PassthroughFs for every value of the constants: type       *)
(* correctness, and that the lookup refcount always covers the references  *)
(* in use (RefcountSound), so neither the client nor a handler ever uses   *)
(* an inode whose record forget_one has removed.                           *)
(***************************************************************************)
EXTENDS PassthroughFs, FiniteSetTheorems, TLAPS

USE DEF Inodes, HandleIds, Files, Kinds, NoKind, PCs,
        fsVars, tableVars, clientVars, workerVars

(***************************************************************************)
(* Strengthening of TypeOK: a handler that holds a reference holds a real  *)
(* inode id, and create resolves a real name.  TypeOK alone is not         *)
(* inductive because create_lookup indexes dentry with wname and           *)
(* create_reply files the handle under wino.                               *)
(***************************************************************************)
WorkersConsistent ==
    \A w \in Workers :
        /\ Holds(w) => wino[w] \in Inodes
        /\ wpc[w] = "cr_lookup" => wname[w] \in Names

TypeInv == TypeOK /\ WorkersConsistent

(***************************************************************************)
(* Inode ids the allocator has not reached yet are unused: not in the map, *)
(* not counted, not known to the client or to any handler.  do_lookup's    *)
(* insertion at nextInode relies on it.                                    *)
(***************************************************************************)
FC(i) ==
    i >= nextInode =>
        /\ obj[i] = NoObject /\ refcount[i] = 0 /\ kref[i] = 0 /\ Held(i) = 0

FreshInodesClean == \A i \in Inodes : FC(i)

\* RefcountSound, for one inode.
RS(i) ==
    /\ refcount[i] >= kref[i] + Held(i)
    /\ Present(i) <=> refcount[i] > 0

IInv == TypeInv /\ FreshInodesClean /\ RefcountSound
-----------------------------------------------------------------------------
(***************************************************************************)
(* The two table helpers keep the tables well typed.                       *)
(***************************************************************************)
LEMMA DoLookupType ==
    ASSUME TypeOK, NEW o \in Objects, NEW i \in Inodes, do_lookup(o, i)
    PROVE  /\ obj' \in [Inodes -> Objects \cup {NoObject}]
           /\ refcount' \in [Inodes -> Nat]
           /\ nextInode' \in 1 .. MaxInode + 1
<1>1. CASE /\ obj[i] = o
           /\ refcount' = [refcount EXCEPT ![i] = @ + 1]
           /\ UNCHANGED <<obj, nextInode>>
  BY <1>1 DEF TypeOK
<1>2. CASE /\ i = nextInode
           /\ obj' = [obj EXCEPT ![i] = o]
           /\ refcount' = [refcount EXCEPT ![i] = 1]
           /\ nextInode' = nextInode + 1
  BY <1>2, BoundsAssumption DEF TypeOK
<1>. QED
  BY <1>1, <1>2 DEF do_lookup

LEMMA ForgetOneType ==
    ASSUME TypeOK, NEW i \in Inodes, NEW c \in Nat, forget_one(i, c)
    PROVE  /\ obj' \in [Inodes -> Objects \cup {NoObject}]
           /\ refcount' \in [Inodes -> Nat]
           /\ nextInode' = nextInode
BY DEF forget_one, TypeOK

\* Returning from a handler leaves well-typed, empty locals.
LEMMA GoIdleType ==
    ASSUME TypeInv, NEW w \in Workers, GoIdle(w)
    PROVE  /\ wpc' \in [Workers -> PCs]
           /\ wname' \in [Workers -> Names \cup {NoName}]
           /\ wino' \in [Workers -> Inodes \cup {NoInode}]
           /\ wnew' \in [Workers -> BOOLEAN]
           /\ \A v \in Workers : v # w => /\ wpc'[v] = wpc[v] /\ wino'[v] = wino[v]
                                           /\ wname'[v] = wname[v]
           /\ wpc'[w] = "idle"
BY DEF GoIdle, TypeInv, TypeOK, PCs

-----------------------------------------------------------------------------
(***************************************************************************)
(* How many handler threads hold a reference on an inode (Held) as one     *)
(* thread starts to hold one, gives it up, or neither.                     *)
(***************************************************************************)
HoldPCs == {"rd_forget", "rdp_sink", "cr_open", "cr_reply"}

\* Any set of threads is finite, so Held is a natural number.
LEMMA WorkerSetFinite ==
    ASSUME NEW S \in SUBSET Workers
    PROVE  IsFiniteSet(S) /\ Cardinality(S) \in Nat
<1>1. IsFiniteSet(S)
  BY WorkersAssumption, FS_Subset
<1>. QED
  BY <1>1, FS_CardinalityType

\* A step that keeps every thread's hold, and the inode of every hold,
\* keeps the holders of every inode.
LEMMA HoldersKept ==
    ASSUME \A v \in Workers : /\ Holds(v)' <=> Holds(v)
                              /\ Holds(v) => wino'[v] = wino[v]
    PROVE  \A i : HoldersOf(i)' = HoldersOf(i)
BY DEF HoldersOf

\* Thread w, holding nothing, takes a reference on inode j.
LEMMA HeldEnter ==
    ASSUME TypeOK, NEW w \in Workers, ~Holds(w), NEW j \in Inodes,
           NEW p \in HoldPCs,
           wpc' = [wpc EXCEPT ![w] = p], wino' = [wino EXCEPT ![w] = j]
    PROVE  \A i \in Inodes : Held(i)' = IF i = j THEN Held(i) + 1 ELSE Held(i)
<1> SUFFICES ASSUME NEW i \in Inodes
             PROVE  Held(i)' = IF i = j THEN Held(i) + 1 ELSE Held(i)
  OBVIOUS
<1>1. HoldersOf(i)' = IF i = j THEN HoldersOf(i) \cup {w} ELSE HoldersOf(i)
  BY DEF HoldersOf, Holds, HoldPCs, TypeOK
<1>2. w \notin HoldersOf(i)
  BY DEF HoldersOf
<1>3. IsFiniteSet(HoldersOf(i))
  BY WorkerSetFinite DEF HoldersOf
<1>. QED
  BY <1>1, <1>2, <1>3, FS_AddElement DEF Held

\* Thread w gives up the reference it holds (and forgets its locals).
LEMMA HeldLeave ==
    ASSUME TypeOK, NEW w \in Workers, Holds(w), GoIdle(w)
    PROVE  /\ Held(wino[w]) >= 1
           /\ \A i \in Inodes :
                 Held(i)' = IF i = wino[w] THEN Held(i) - 1 ELSE Held(i)
<1>1. \A i \in Inodes :
         HoldersOf(i)' = IF i = wino[w] THEN HoldersOf(i) \ {w} ELSE HoldersOf(i)
  BY DEF HoldersOf, Holds, GoIdle, TypeOK
<1>2. w \in HoldersOf(wino[w])
  BY DEF HoldersOf
<1>3. \A i \in Inodes : IsFiniteSet(HoldersOf(i))
  BY WorkerSetFinite DEF HoldersOf
<1>4. Held(wino[w]) >= 1
  <2>1. IsFiniteSet(HoldersOf(wino[w]))
    BY WorkerSetFinite DEF HoldersOf
  <2>2. HoldersOf(wino[w]) # {}
    BY <1>2
  <2>3. Cardinality(HoldersOf(wino[w])) \in Nat
    BY <2>1, FS_CardinalityType
  <2>. QED
    BY <2>1, <2>2, <2>3, FS_EmptySet DEF Held
<1>. QED
  BY <1>1, <1>2, <1>3, <1>4, FS_RemoveElement DEF Held

-----------------------------------------------------------------------------
(***************************************************************************)
(* The three ways a step can act on the inode table, each shown to keep    *)
(* FC and RS on every inode.  The references in use on an inode are        *)
(* kref + Held: a step that leaves the table alone may only move or drop   *)
(* them; do_lookup adds one reference and one use; forget_one(j, c) drops  *)
(* c of each.                                                              *)
(***************************************************************************)
LEMMA TableKept ==
    ASSUME TypeOK, FreshInodesClean, RefcountSound,
           obj' = obj, refcount' = refcount, nextInode' = nextInode,
           \A i \in Inodes : /\ kref'[i] \in Nat /\ Held(i)' \in Nat
                             /\ kref'[i] + Held(i)' <= kref[i] + Held(i)
    PROVE  \A i \in Inodes : FC(i)' /\ RS(i)'
<1> SUFFICES ASSUME NEW i \in Inodes PROVE FC(i)' /\ RS(i)'
  OBVIOUS
<1>1. Held(i) \in Nat
  BY WorkerSetFinite DEF Held, HoldersOf
<1>2. /\ kref'[i] \in Nat /\ Held(i)' \in Nat
      /\ kref'[i] + Held(i)' <= kref[i] + Held(i)
  OBVIOUS
<1>3. FC(i)'
  <2>1. SUFFICES ASSUME i >= nextInode'
                 PROVE  obj'[i] = NoObject /\ refcount'[i] = 0
                        /\ kref'[i] = 0 /\ Held(i)' = 0
    BY DEF FC
  <2>2. obj[i] = NoObject /\ refcount[i] = 0 /\ kref[i] = 0 /\ Held(i) = 0
    BY <2>1 DEF FreshInodesClean, FC
  <2>3. kref'[i] = 0 /\ Held(i)' = 0
    BY <1>2, <2>2
  <2>. QED
    BY <2>2, <2>3
<1>4. RS(i)'
  <2>1. RS(i)
    BY DEF RefcountSound, RS
  <2>2. refcount[i] \in Nat /\ kref[i] \in Nat
    BY DEF TypeOK
  <2>3. refcount'[i] >= kref'[i] + Held(i)'
    <3>1. refcount[i] >= kref[i] + Held(i)
      BY <2>1 DEF RS
    <3>. QED
      BY <1>1, <1>2, <2>2, <3>1
  <2>4. Present(i)' <=> refcount'[i] > 0
    BY <2>1 DEF RS, Present
  <2>. QED
    BY <2>3, <2>4 DEF RS
<1>. QED
  BY <1>3, <1>4

LEMMA LookupStep ==
    ASSUME TypeOK, FreshInodesClean, RefcountSound,
           NEW o \in Objects, NEW j \in Inodes, do_lookup(o, j),
           \A i \in Inodes : kref'[i] \in Nat /\ Held(i)' \in Nat,
           kref'[j] + Held(j)' = kref[j] + Held(j) + 1,
           \A i \in Inodes \ {j} : kref'[i] = kref[i] /\ Held(i)' = Held(i)
    PROVE  \A i \in Inodes : FC(i)' /\ RS(i)'
<1> SUFFICES ASSUME NEW i \in Inodes PROVE FC(i)' /\ RS(i)'
  OBVIOUS
<1>1. Held(i) \in Nat /\ Held(j) \in Nat
  BY WorkerSetFinite DEF Held, HoldersOf
<1>2. /\ kref'[i] \in Nat /\ Held(i)' \in Nat
      /\ kref'[j] \in Nat /\ Held(j)' \in Nat
      /\ kref'[j] + Held(j)' = kref[j] + Held(j) + 1
      /\ i # j => kref'[i] = kref[i] /\ Held(i)' = Held(i)
  OBVIOUS
<1>3. FC(i) /\ RS(i) /\ FC(j) /\ RS(j)
  BY DEF FreshInodesClean, RefcountSound, RS
<1>4. o # NoObject
  BY SentinelAssumption
<1>5. CASE /\ obj[j] = o
           /\ refcount[j] < MaxRef
           /\ refcount' = [refcount EXCEPT ![j] = @ + 1]
           /\ UNCHANGED <<obj, nextInode>>
  <2>1. j < nextInode
    BY <1>3, <1>4, <1>5 DEF FC, TypeOK
  <2>2. CASE i = j
    BY <1>1, <1>2, <1>3, <1>4, <1>5, <2>1, <2>2 DEF FC, RS, Present, TypeOK
  <2>3. CASE i # j
    BY <1>1, <1>2, <1>3, <1>5, <2>3 DEF FC, RS, Present, TypeOK
  <2>. QED
    BY <2>2, <2>3
<1>6. CASE /\ \A k \in Inodes : obj[k] # o
           /\ j = nextInode
           /\ obj' = [obj EXCEPT ![j] = o]
           /\ refcount' = [refcount EXCEPT ![j] = 1]
           /\ nextInode' = nextInode + 1
  <2>1. obj[j] = NoObject /\ refcount[j] = 0 /\ kref[j] = 0 /\ Held(j) = 0
    BY <1>3, <1>6 DEF FC, TypeOK
  <2>2. CASE i = j
    BY <1>1, <1>2, <1>4, <1>6, <2>1, <2>2 DEF FC, RS, Present, TypeOK
  <2>3. CASE i # j
    BY <1>1, <1>2, <1>3, <1>6, <2>3 DEF FC, RS, Present, TypeOK
  <2>. QED
    BY <2>2, <2>3
<1>. QED
  BY <1>5, <1>6 DEF do_lookup

\* Held is a natural number, before and after any step.
LEMMA HeldNat == \A i : Held(i) \in Nat /\ Held(i)' \in Nat
<1> TAKE i
<1>1. HoldersOf(i) \in SUBSET Workers /\ HoldersOf(i)' \in SUBSET Workers
  BY DEF HoldersOf
<1>. QED
  BY <1>1, WorkerSetFinite DEF Held

\* A step that keeps every thread's hold keeps Held.
LEMMA HeldFrame ==
    ASSUME \A v \in Workers : /\ Holds(v)' <=> Holds(v)
                              /\ Holds(v) => wino'[v] = wino[v]
    PROVE  \A i : Held(i)' = Held(i)
BY HoldersKept DEF Held

\* A step that changes neither the table nor any reference in use.
LEMMA KeptStep ==
    ASSUME TypeOK, FreshInodesClean, RefcountSound,
           UNCHANGED <<obj, refcount, nextInode, kref>>,
           \A i \in Inodes : Held(i)' = Held(i)
    PROVE  \A i \in Inodes : FC(i)' /\ RS(i)'
<1>1. \A i \in Inodes : /\ kref'[i] \in Nat /\ Held(i)' \in Nat
                        /\ kref'[i] + Held(i)' <= kref[i] + Held(i)
  <2> TAKE i \in Inodes
  <2>1. Held(i) \in Nat /\ Held(i)' = Held(i) /\ kref'[i] = kref[i] /\ kref[i] \in Nat
    BY HeldNat DEF TypeOK
  <2>. QED
    BY <2>1
<1>. QED
  BY <1>1, TableKept

\* forget_one(j, c), read at one inode.
LEMMA ForgetOnePoint ==
    ASSUME TypeOK, NEW j \in Inodes, NEW c \in Nat, forget_one(j, c),
           NEW i \in Inodes
    PROVE  /\ refcount'[j] = IF refcount[j] > c THEN refcount[j] - c ELSE 0
           /\ obj'[j] = IF refcount[j] > c THEN obj[j] ELSE NoObject
           /\ i # j => refcount'[i] = refcount[i] /\ obj'[i] = obj[i]
           /\ nextInode' = nextInode
BY DEF forget_one, TypeOK

\* forget_one(j, c) on an inode in use c times fewer afterwards.
LEMMA ForgetAt ==
    ASSUME TypeOK, NEW j \in Inodes, FC(j), RS(j), NEW c \in Nat \ {0},
           refcount'[j] = IF refcount[j] > c THEN refcount[j] - c ELSE 0,
           obj'[j] = IF refcount[j] > c THEN obj[j] ELSE NoObject,
           nextInode' = nextInode,
           kref'[j] \in Nat, Held(j)' \in Nat,
           kref'[j] + Held(j)' + c = kref[j] + Held(j)
    PROVE  FC(j)' /\ RS(j)'
<1>1. Held(j) \in Nat /\ refcount[j] \in Nat /\ kref[j] \in Nat
  BY HeldNat DEF TypeOK
<1>2. j < nextInode
  <2>1. SUFFICES ASSUME j >= nextInode PROVE FALSE
    BY DEF TypeOK
  <2>2. kref[j] = 0 /\ Held(j) = 0
    BY <2>1 DEF FC
  <2>. QED
    BY <1>1, <2>2
<1>3. FC(j)'
  BY <1>2 DEF FC, TypeOK
<1>4. refcount[j] >= kref[j] + Held(j) /\ (obj[j] # NoObject <=> refcount[j] > 0)
  BY DEF RS, Present
<1>5. CASE refcount[j] > c
  <2>1. refcount'[j] = refcount[j] - c /\ obj'[j] = obj[j]
    BY <1>5
  <2>2. refcount'[j] >= kref'[j] + Held(j)'
    BY <1>1, <1>4, <2>1
  <2>3. obj'[j] # NoObject /\ refcount'[j] > 0
    BY <1>1, <1>4, <1>5, <2>1
  <2>. QED
    BY <1>3, <2>2, <2>3, Zenon DEF RS, Present
<1>6. CASE ~(refcount[j] > c)
  <2>1. refcount'[j] = 0 /\ obj'[j] = NoObject
    BY <1>6
  <2>2. kref'[j] + Held(j)' = 0
    BY <1>1, <1>4, <1>6
  <2>3. refcount'[j] >= kref'[j] + Held(j)'
    BY <2>1, <2>2
  <2>4. ~(obj'[j] # NoObject) /\ ~(refcount'[j] > 0)
    BY <2>1
  <2>. QED
    BY <1>3, <2>3, <2>4, Zenon DEF RS, Present
<1>. QED
  BY <1>3, <1>5, <1>6

\* Nothing about inode i changes.
LEMMA KeptAt ==
    ASSUME NEW i, FC(i), RS(i),
           refcount'[i] = refcount[i], obj'[i] = obj[i], nextInode' = nextInode,
           kref'[i] = kref[i], Held(i)' = Held(i)
    PROVE  FC(i)' /\ RS(i)'
BY DEF FC, RS, Present

LEMMA ForgetStep ==
    ASSUME TypeOK, FreshInodesClean, RefcountSound,
           NEW j \in Inodes, NEW c \in Nat \ {0}, forget_one(j, c),
           \A i \in Inodes : kref'[i] \in Nat /\ Held(i)' \in Nat,
           kref'[j] + Held(j)' + c = kref[j] + Held(j),
           \A i \in Inodes \ {j} : kref'[i] = kref[i] /\ Held(i)' = Held(i)
    PROVE  \A i \in Inodes : FC(i)' /\ RS(i)'
<1> SUFFICES ASSUME NEW i \in Inodes PROVE FC(i)' /\ RS(i)'
  OBVIOUS
<1>1. /\ kref'[j] \in Nat /\ Held(j)' \in Nat
      /\ kref'[j] + Held(j)' + c = kref[j] + Held(j)
      /\ i # j => kref'[i] = kref[i] /\ Held(i)' = Held(i)
  OBVIOUS
<1>2. FC(i) /\ RS(i) /\ FC(j) /\ RS(j)
  BY DEF FreshInodesClean, RefcountSound, RS
<1>3. /\ refcount'[j] = IF refcount[j] > c THEN refcount[j] - c ELSE 0
      /\ obj'[j] = IF refcount[j] > c THEN obj[j] ELSE NoObject
      /\ i # j => refcount'[i] = refcount[i] /\ obj'[i] = obj[i]
      /\ nextInode' = nextInode
  BY ForgetOnePoint
<1>4. CASE i = j
  BY <1>1, <1>2, <1>3, <1>4, ForgetAt
<1>5. CASE i # j
  BY <1>1, <1>2, <1>3, <1>5, KeptAt
<1>. QED
  BY <1>4, <1>5

\* A step that moves no thread keeps Held.
LEMMA HeldUnchanged ==
    ASSUME UNCHANGED <<wpc, wino>>
    PROVE  \A i : Held(i)' = Held(i)
BY DEF Held, HoldersOf, Holds

-----------------------------------------------------------------------------
(***************************************************************************)
(* The four shapes of step on the table that the handlers are made of.     *)
(***************************************************************************)
\* lookup, mkdir, mknod, symlink, link: do_lookup, and the reply carries it.
LEMMA ReplyLookup ==
    ASSUME TypeOK, FreshInodesClean, RefcountSound,
           NEW o \in Objects, NEW j \in Inodes, do_lookup(o, j), Reply(j),
           UNCHANGED <<wpc, wino>>
    PROVE  \A i \in Inodes : FC(i)' /\ RS(i)'
<1>1. \A i \in Inodes : Held(i)' = Held(i) /\ Held(i) \in Nat
  BY HeldUnchanged, HeldNat
<1>2. kref' = [kref EXCEPT ![j] = @ + 1]
  BY DEF Reply
<1>3. \A i \in Inodes : kref'[i] \in Nat /\ Held(i)' \in Nat
  BY <1>1, <1>2 DEF TypeOK
<1>4. kref'[j] + Held(j)' = kref[j] + Held(j) + 1
  BY <1>1, <1>2 DEF TypeOK
<1>5. \A i \in Inodes \ {j} : kref'[i] = kref[i] /\ Held(i)' = Held(i)
  BY <1>1, <1>2 DEF TypeOK
<1>. QED
  BY <1>3, <1>4, <1>5, LookupStep

\* readdir, readdirplus, create: do_lookup, and the handler keeps it.
LEMMA EnterLookup ==
    ASSUME TypeOK, FreshInodesClean, RefcountSound,
           NEW o \in Objects, NEW j \in Inodes, do_lookup(o, j),
           NEW w \in Workers, ~Holds(w), NEW p \in HoldPCs,
           wpc' = [wpc EXCEPT ![w] = p], wino' = [wino EXCEPT ![w] = j],
           UNCHANGED kref
    PROVE  \A i \in Inodes : FC(i)' /\ RS(i)'
<1>1. \A i \in Inodes : Held(i)' = IF i = j THEN Held(i) + 1 ELSE Held(i)
  BY HeldEnter
<1>2. \A i \in Inodes : Held(i) \in Nat /\ Held(i)' \in Nat
  BY HeldNat
<1>3. \A i \in Inodes : kref'[i] \in Nat /\ Held(i)' \in Nat
  BY <1>2 DEF TypeOK
<1>4. kref'[j] + Held(j)' = kref[j] + Held(j) + 1
  <2>1. Held(j)' = Held(j) + 1 /\ Held(j) \in Nat /\ kref'[j] = kref[j]
    BY <1>1, <1>2
  <2>2. kref[j] \in Nat
    BY DEF TypeOK
  <2>. QED
    BY <2>1, <2>2
<1>5. \A i \in Inodes \ {j} : kref'[i] = kref[i] /\ Held(i)' = Held(i)
  BY <1>1
<1>. QED
  BY <1>3, <1>4, <1>5, LookupStep

\* readdir, readdirplus when the reply is full: the handler forgets its
\* reference with forget_one(ino, 1) and returns.
LEMMA LeaveForget ==
    ASSUME TypeOK, FreshInodesClean, RefcountSound,
           NEW w \in Workers, NEW j \in Inodes, wino[w] = j, Holds(w),
           GoIdle(w), forget_one(j, 1), UNCHANGED kref
    PROVE  \A i \in Inodes : FC(i)' /\ RS(i)'
<1>1. \A i \in Inodes : Held(i)' = IF i = j THEN Held(i) - 1 ELSE Held(i)
  BY HeldLeave
<1>2. Held(j) >= 1
  BY HeldLeave
<1>3. \A i \in Inodes : Held(i) \in Nat /\ Held(i)' \in Nat
  BY HeldNat
<1>4. \A i \in Inodes : kref'[i] \in Nat /\ Held(i)' \in Nat
  BY <1>3 DEF TypeOK
<1>5. kref'[j] + Held(j)' + 1 = kref[j] + Held(j)
  <2>1. Held(j)' = Held(j) - 1 /\ Held(j) \in Nat /\ kref'[j] = kref[j]
    <3>1. Held(j)' = Held(j) - 1
      BY <1>1
    <3>2. Held(j) \in Nat
      BY <1>3
    <3>. QED
      BY <3>1, <3>2
  <2>2. kref[j] \in Nat
    BY DEF TypeOK
  <2>. QED
    BY <1>2, <2>1, <2>2
<1>6. \A i \in Inodes \ {j} : kref'[i] = kref[i] /\ Held(i)' = Held(i)
  BY <1>1
<1>7. j \in Inodes /\ 1 \in Nat \ {0} /\ forget_one(j, 1)
  OBVIOUS
<1>. QED
  BY <1>4, <1>5, <1>6, <1>7, ForgetStep, Zenon

\* readdirplus, create: the handler returns, passing its reference to the
\* client with the reply (kref + 1) or keeping it in the table unreported.
LEMMA LeaveKept ==
    ASSUME TypeOK, FreshInodesClean, RefcountSound,
           NEW w \in Workers, Holds(w), wino[w] \in Inodes, GoIdle(w),
           UNCHANGED <<obj, refcount, nextInode>>,
           \/ kref' = kref
           \/ kref' = [kref EXCEPT ![wino[w]] = @ + 1]
    PROVE  \A i \in Inodes : FC(i)' /\ RS(i)'
<1> DEFINE j == wino[w]
<1> USE DEF j
<1>1. \A i \in Inodes : Held(i)' = IF i = j THEN Held(i) - 1 ELSE Held(i)
  BY HeldLeave
<1>2. Held(j) >= 1
  BY HeldLeave
<1>3. \A i \in Inodes : Held(i) \in Nat /\ Held(i)' \in Nat
  BY HeldNat
<1>0. kref \in [Inodes -> Nat]
  BY DEF TypeOK
<1>4. \A i \in Inodes : /\ kref'[i] \in Nat /\ Held(i)' \in Nat
                        /\ kref'[i] + Held(i)' <= kref[i] + Held(i)
  <2> TAKE i \in Inodes
  <2>1. Held(i) \in Nat /\ Held(i)' \in Nat /\ kref[i] \in Nat
    BY <1>3 DEF TypeOK
  <2>2. CASE i = j
    <3>1. Held(i)' = Held(i) - 1 /\ Held(i) >= 1
      BY <1>1, <1>2, <2>2
    <3>2. kref'[i] = kref[i] \/ kref'[i] = kref[i] + 1
      BY <1>0, <2>2
    <3>. QED
      BY <2>1, <3>1, <3>2
  <2>3. CASE i # j
    <3>1. Held(i)' = Held(i)
      BY <1>1, <2>3
    <3>2. kref'[i] = kref[i]
      BY <1>0, <2>3
    <3>. QED
      BY <2>1, <3>1, <3>2
  <2>. QED
    BY <2>2, <2>3
<1>. QED
  BY <1>4, TableKept

-----------------------------------------------------------------------------
(***************************************************************************)
(* RefcountSound is inductive together with TypeInv and FreshInodesClean.  *)
(***************************************************************************)
\* Initially no thread is inside a handler and the tables are empty, so no
\* inode is counted, held or present.
LEMMA InitSound == Init => FreshInodesClean /\ RefcountSound
<1> SUFFICES ASSUME Init PROVE FreshInodesClean /\ RefcountSound
  OBVIOUS
<1>1. \A i \in Inodes : HoldersOf(i) = {}
  BY DEF Init, HoldersOf, Holds
<1>2. \A i \in Inodes : Held(i) = 0
  BY <1>1, FS_EmptySet DEF Held
<1>. QED
  BY <1>2 DEF Init, FreshInodesClean, FC, RefcountSound, Present

\* Every request of the client keeps the refcounts sound: the handlers that
\* reply an entry add a reference the client then holds, forget and
\* batch_forget drop as many as the client gives back, and the others leave
\* the inode table alone.
LEMMA ClientSound ==
    ASSUME TypeOK, FreshInodesClean, RefcountSound, ClientOps
    PROVE  \A i \in Inodes : FC(i)' /\ RS(i)'
<1>1. CASE init
  <2>1. \A i : Held(i)' = Held(i)
    BY <1>1, HeldUnchanged DEF init
  <2>. QED
    BY <1>1, <2>1, KeptStep DEF init
<1>2. CASE destroy
  <2>1. \A i \in Inodes : HoldersOf(i)' = {}
    BY <1>2 DEF destroy, HoldersOf, Holds, Idle
  <2>2. \A i \in Inodes : Held(i)' = 0
    BY <2>1, FS_EmptySet DEF Held
  <2>. QED
    BY <1>2, <2>2 DEF destroy, FC, RS, Present
<1>3. ASSUME NEW n \in Names, lookup(n) PROVE \A i \in Inodes : FC(i)' /\ RS(i)'
  <2>1. PICK i \in Inodes : do_lookup(dentry[n], i) /\ Reply(i)
    BY <1>3 DEF lookup
  <2>2. dentry[n] \in Objects
    BY <1>3 DEF lookup, TypeOK
  <2>3. UNCHANGED <<wpc, wino>>
    BY <1>3 DEF lookup
  <2>. QED
    BY <2>1, <2>2, <2>3, ReplyLookup
<1>4. ASSUME NEW n \in Names, NEW k, make_node(n, k)
      PROVE \A i \in Inodes : FC(i)' /\ RS(i)'
  <2>1. PICK o \in FreshObjects : \E i \in Inodes : do_lookup(o, i) /\ Reply(i)
    BY <1>4 DEF make_node
  <2>2. PICK i \in Inodes : do_lookup(o, i) /\ Reply(i)
    BY <2>1
  <2>3. o \in Objects
    BY DEF FreshObjects
  <2>4. UNCHANGED <<wpc, wino>>
    BY <1>4 DEF make_node
  <2>. QED
    BY <2>2, <2>3, <2>4, ReplyLookup
<1>5. ASSUME NEW i \in Inodes, NEW n \in Names, link(i, n)
      PROVE \A k \in Inodes : FC(k)' /\ RS(k)'
  <2>1. PICK j \in Inodes : do_lookup(obj[i], j) /\ Reply(j)
    BY <1>5 DEF link
  <2>2. obj[i] \in Objects
    BY <1>5 DEF link, Present, TypeOK
  <2>3. UNCHANGED <<wpc, wino>>
    BY <1>5 DEF link
  <2>. QED
    BY <2>1, <2>2, <2>3, ReplyLookup
<1>6. CASE UNCHANGED <<obj, refcount, nextInode, kref, wpc, wino>>
  <2>1. \A i : Held(i)' = Held(i)
    BY <1>6, HeldUnchanged
  <2>. QED
    BY <1>6, <2>1, KeptStep
<1>7. ASSUME NEW i \in Inodes, NEW c \in 1 .. MaxRef, forget(i, c)
      PROVE \A k \in Inodes : FC(k)' /\ RS(k)'
  <2>1. kref[i] \in Nat /\ c \in 1 .. kref[i]
    BY <1>7 DEF forget, ClientMayForget, TypeOK
  <2>2. c \in Nat \ {0}
    BY <2>1
  <2>3. \A k : Held(k)' = Held(k)
    BY <1>7, HeldUnchanged DEF forget
  <2>4. \A k \in Inodes : Held(k) \in Nat
    BY HeldNat
  <2>5. kref' = [kref EXCEPT ![i] = @ - c]
    BY <1>7 DEF forget
  <2>6. kref'[i] = kref[i] - c
    BY <2>5 DEF TypeOK
  <2>7. \A k \in Inodes \ {i} : kref'[k] = kref[k] /\ Held(k)' = Held(k)
    BY <2>3, <2>5 DEF TypeOK
  <2>8. \A k \in Inodes : kref'[k] \in Nat /\ Held(k)' \in Nat
    BY <2>1, <2>3, <2>4, <2>6, <2>7 DEF TypeOK
  <2>9. kref'[i] + Held(i)' + c = kref[i] + Held(i)
    BY <2>1, <2>3, <2>4, <2>6
  <2>10. forget_one(i, c)
    BY <1>7 DEF forget
  <2>. QED
    BY <2>2, <2>7, <2>8, <2>9, <2>10, ForgetStep
<1>8. ASSUME NEW S \in SUBSET Inodes, NEW cnt \in [S -> 1 .. MaxRef],
             batch_forget(S, cnt)
      PROVE \A k \in Inodes : FC(k)' /\ RS(k)'
  <2>1. \A k : Held(k)' = Held(k)
    BY <1>8, HeldUnchanged DEF batch_forget
  <2> SUFFICES ASSUME NEW i \in Inodes PROVE FC(i)' /\ RS(i)'
    OBVIOUS
  <2>2. FC(i) /\ RS(i)
    BY DEF FreshInodesClean, RefcountSound, RS
  <2>3. nextInode' = nextInode
    BY <1>8 DEF batch_forget
  <2>4. CASE i \in S
    <3>1. kref[i] \in Nat /\ refcount[i] \in Nat /\ cnt[i] \in 1 .. kref[i]
      BY <1>8, <2>4 DEF batch_forget, ClientMayForget, TypeOK
    <3>2. cnt[i] \in Nat \ {0}
      BY <3>1
    <3>3. refcount'[i] = IF refcount[i] > cnt[i] THEN refcount[i] - cnt[i] ELSE 0
      BY <1>8, <2>4 DEF batch_forget
    <3>4. obj'[i] = IF refcount[i] > cnt[i] THEN obj[i] ELSE NoObject
      <4>1. obj'[i] = IF refcount[i] <= cnt[i] THEN NoObject ELSE obj[i]
        BY <1>8, <2>4 DEF batch_forget
      <4>2. refcount[i] <= cnt[i] <=> ~(refcount[i] > cnt[i])
        BY <3>1
      <4>. QED
        BY <4>1, <4>2
    <3>5. kref'[i] = kref[i] - cnt[i]
      BY <1>8, <2>4 DEF batch_forget
    <3>6. Held(i) \in Nat /\ Held(i)' = Held(i)
      BY <2>1, HeldNat
    <3>7. /\ kref'[i] \in Nat /\ Held(i)' \in Nat
          /\ kref'[i] + Held(i)' + cnt[i] = kref[i] + Held(i)
      BY <3>1, <3>5, <3>6
    <3>. QED
      BY <2>2, <2>3, <3>2, <3>3, <3>4, <3>7, ForgetAt
  <2>5. CASE i \notin S
    <3>1. refcount'[i] = refcount[i] /\ obj'[i] = obj[i] /\ kref'[i] = kref[i]
      BY <1>8, <2>5 DEF batch_forget
    <3>. QED
      BY <2>1, <2>2, <2>3, <3>1, KeptAt
  <2>. QED
    BY <2>4, <2>5
<1>9. ASSUME NEW n \in Names, unlink(n) \/ rmdir(n)
      PROVE UNCHANGED <<obj, refcount, nextInode, kref, wpc, wino>>
  BY <1>9 DEF unlink, rmdir
<1>10. ASSUME NEW n1 \in Names, NEW n2 \in Names, NEW f \in RenameFlags,
              rename(n1, n2, f)
       PROVE UNCHANGED <<obj, refcount, nextInode, kref, wpc, wino>>
  BY <1>10 DEF rename
<1>11. ASSUME NEW i \in Inodes, open(i) \/ opendir(i)
       PROVE UNCHANGED <<obj, refcount, nextInode, kref, wpc, wino>>
  BY <1>11 DEF open, opendir, do_open
<1>12. ASSUME NEW f \in kfiles, release(f) \/ releasedir(f)
       PROVE UNCHANGED <<obj, refcount, nextInode, kref, wpc, wino>>
  BY <1>12 DEF release, releasedir, do_release
<1>. QED
  BY <1>1, <1>2, <1>3, <1>4, <1>5, <1>6, <1>7, <1>8, <1>9, <1>10, <1>11,
     <1>12 DEF ClientOps, mkdir, mknod, symlink

\* Every step of a handler thread keeps the refcounts sound: taking a
\* reference with do_lookup counts it as held, and giving it up either
\* forgets it, passes it to the client with the reply, or leaves it counted.
LEMMA WorkerSound ==
    ASSUME TypeOK, WorkersConsistent, FreshInodesClean, RefcountSound,
           NEW w \in Workers, WorkerSteps(w)
    PROVE  \A i \in Inodes : FC(i)' /\ RS(i)'
<1>1. ASSUME NEW n \in Names, readdir_lookup(w, n) \/ readdirplus_lookup(w, n)
      PROVE \A i \in Inodes : FC(i)' /\ RS(i)'
  <2>1. PICK j \in Inodes : do_lookup(dentry[n], j) /\ wino' = [wino EXCEPT ![w] = j]
    BY <1>1 DEF readdir_lookup, readdirplus_lookup
  <2>2. dentry[n] \in Objects
    BY <1>1 DEF readdir_lookup, readdirplus_lookup, TypeOK
  <2>3. ~Holds(w)
    BY <1>1 DEF readdir_lookup, readdirplus_lookup, Idle, Holds
  <2>4. PICK p \in HoldPCs : wpc' = [wpc EXCEPT ![w] = p]
    BY <1>1 DEF readdir_lookup, readdirplus_lookup, HoldPCs
  <2>5. UNCHANGED kref
    BY <1>1 DEF readdir_lookup, readdirplus_lookup
  <2>. QED
    BY <2>1, <2>2, <2>3, <2>4, <2>5, EnterLookup
<1>2. ASSUME NEW n \in Names, create_excl(w, n)
      PROVE \A i \in Inodes : FC(i)' /\ RS(i)'
  <2>1. \A v \in Workers : /\ Holds(v)' <=> Holds(v)
                           /\ Holds(v) => wino'[v] = wino[v]
    BY <1>2 DEF create_excl, Holds, Idle, TypeOK
  <2>2. \A i : Held(i)' = Held(i)
    BY <2>1, HeldFrame
  <2>. QED
    BY <1>2, <2>2, KeptStep DEF create_excl
<1>3. CASE readdir_forget(w)
  <2>1. Holds(w)
    BY <1>3 DEF readdir_forget, Holds
  <2>2. wino[w] \in Inodes
    BY <2>1 DEF WorkersConsistent
  <2>. QED
    BY <1>3, <2>1, <2>2, LeaveForget DEF readdir_forget
<1>4. ASSUME NEW r \in SinkResults, readdirplus_sink(w, r)
      PROVE \A i \in Inodes : FC(i)' /\ RS(i)'
  <2>1. Holds(w) /\ GoIdle(w)
    BY <1>4 DEF readdirplus_sink, Holds
  <2>2. wino[w] \in Inodes
    BY <2>1 DEF WorkersConsistent
  <2>3. CASE Reply(wino[w]) /\ UNCHANGED <<obj, refcount, nextInode>>
    BY <2>1, <2>2, <2>3, LeaveKept DEF Reply
  <2>4. CASE forget_one(wino[w], 1) /\ UNCHANGED kref
    BY <2>1, <2>2, <2>4, LeaveForget
  <2>5. CASE UNCHANGED <<obj, refcount, nextInode, kref>>
    BY <2>1, <2>2, <2>5, LeaveKept
  <2>. QED
    BY <1>4, <2>3, <2>4, <2>5 DEF readdirplus_sink
<1>5. CASE create_lookup(w)
  <2>1. wpc[w] = "cr_lookup" /\ ~Holds(w)
    BY <1>5 DEF create_lookup, Holds
  <2>2. wname[w] \in Names /\ UNCHANGED kref
    BY <1>5, <2>1 DEF create_lookup, WorkersConsistent
  <2>3. CASE GoIdle(w) /\ UNCHANGED <<obj, refcount, nextInode>>
    <3>1. \A v \in Workers : /\ Holds(v)' <=> Holds(v)
                             /\ Holds(v) => wino'[v] = wino[v]
      BY <2>1, <2>3 DEF GoIdle, Holds, TypeOK
    <3>2. \A i : Held(i)' = Held(i)
      BY <3>1, HeldFrame
    <3>. QED
      BY <2>2, <2>3, <3>2, KeptStep
  <2>4. CASE /\ dentry[wname[w]] # NoObject
             /\ \E i \in Inodes : do_lookup(dentry[wname[w]], i)
                                  /\ wino' = [wino EXCEPT ![w] = i]
             /\ wpc' = [wpc EXCEPT ![w] = IF wnew[w] THEN "cr_reply" ELSE "cr_open"]
    <3>1. PICK j \in Inodes : do_lookup(dentry[wname[w]], j)
                              /\ wino' = [wino EXCEPT ![w] = j]
      BY <2>4
    <3>2. dentry[wname[w]] \in Objects
      BY <2>2, <2>4 DEF TypeOK
    <3>3. (IF wnew[w] THEN "cr_reply" ELSE "cr_open") \in HoldPCs
      BY DEF HoldPCs
    <3>. QED
      BY <2>1, <2>2, <2>4, <3>1, <3>2, <3>3, EnterLookup
  <2>. QED
    BY <1>5, <2>3, <2>4 DEF create_lookup
<1>6. CASE create_open(w)
  <2>1. Holds(w)
    BY <1>6 DEF create_open, Holds
  <2>2. wino[w] \in Inodes /\ UNCHANGED <<obj, refcount, nextInode, kref>>
    BY <1>6, <2>1 DEF create_open, WorkersConsistent
  <2>3. CASE wpc' = [wpc EXCEPT ![w] = "cr_reply"] /\ UNCHANGED wino
    <3>1. \A v \in Workers : /\ Holds(v)' <=> Holds(v)
                             /\ Holds(v) => wino'[v] = wino[v]
      BY <1>6, <2>3 DEF create_open, Holds, TypeOK
    <3>2. \A i : Held(i)' = Held(i)
      BY <3>1, HeldFrame
    <3>. QED
      BY <2>2, <3>2, KeptStep
  <2>4. CASE GoIdle(w)
    BY <2>1, <2>2, <2>4, LeaveKept
  <2>. QED
    BY <1>6, <2>3, <2>4 DEF create_open
<1>7. CASE create_reply(w)
  <2>1. Holds(w)
    BY <1>7 DEF create_reply, Holds
  <2>2. wino[w] \in Inodes
    BY <2>1 DEF WorkersConsistent
  <2>3. /\ GoIdle(w) /\ UNCHANGED <<obj, refcount, nextInode>>
        /\ kref' = [kref EXCEPT ![wino[w]] = @ + 1]
    BY <1>7 DEF create_reply, Reply
  <2>. QED
    BY <2>1, <2>2, <2>3, LeaveKept
<1>. QED
  BY <1>1, <1>2, <1>3, <1>4, <1>5, <1>6, <1>7 DEF WorkerSteps

\* The initial state satisfies the strengthened type invariant.
LEMMA InitTypeInv == Init => TypeInv
<1> USE BoundsAssumption, SentinelAssumption
<1> SUFFICES ASSUME Init PROVE TypeInv
  OBVIOUS
<1>1. TypeOK
  <2>1. mounted \in BOOLEAN /\ no_open \in BOOLEAN /\ no_opendir \in BOOLEAN
    BY DEF Init
  <2>2. dentry \in [Names -> Objects \cup {NoObject}]
    BY DEF Init
  <2>3. kind \in [Objects -> Kinds \cup {NoKind}]
    BY DEF Init
  <2>4. obj \in [Inodes -> Objects \cup {NoObject}] /\ refcount \in [Inodes -> Nat]
    BY DEF Init
  <2>5. nextInode \in 1 .. MaxInode + 1 /\ nextHandle \in 1 .. MaxHandle + 1
    BY DEF Init
  <2>6. hmap \in [HandleIds -> Inodes \cup {NoInode}] /\ kref \in [Inodes -> Nat]
    BY DEF Init
  <2>7. kfiles \subseteq Files
    BY DEF Init
  <2>8. wpc \in [Workers -> PCs] /\ wname \in [Workers -> Names \cup {NoName}]
    BY DEF Init
  <2>9. wino \in [Workers -> Inodes \cup {NoInode}] /\ wnew \in [Workers -> BOOLEAN]
    BY DEF Init
  <2>. QED
    BY <2>1, <2>2, <2>3, <2>4, <2>5, <2>6, <2>7, <2>8, <2>9 DEF TypeOK
<1>2. WorkersConsistent
  BY DEF Init, WorkersConsistent, Holds
<1>. QED
  BY <1>1, <1>2 DEF TypeInv

\* Every step of the model keeps the strengthened type invariant.
LEMMA TypeInvStep == TypeInv /\ [Next]_vars => TypeInv'
<1> USE BoundsAssumption, SentinelAssumption
<1> SUFFICES ASSUME TypeInv, [Next]_vars PROVE TypeInv'
  OBVIOUS
<1>. USE DEF TypeInv, TypeOK
<1>1. CASE init
  BY <1>1 DEF init, WorkersConsistent, Holds
<1>2. CASE destroy
  BY <1>2 DEF destroy, WorkersConsistent, Holds
<1>3. ASSUME NEW n \in Names, lookup(n) PROVE TypeInv'
  <2>1. PICK i \in Inodes : do_lookup(dentry[n], i) /\ Reply(i)
    BY <1>3 DEF lookup
  <2>2. dentry[n] \in Objects
    BY <1>3 DEF lookup
  <2>3. UNCHANGED <<fsVars, hmap, nextHandle, kfiles, workerVars>>
    BY <1>3 DEF lookup
  <2>4. /\ obj' \in [Inodes -> Objects \cup {NoObject}]
        /\ refcount' \in [Inodes -> Nat]
        /\ nextInode' \in 1 .. MaxInode + 1
    BY <2>1, <2>2, DoLookupType
  <2>5. kref' \in [Inodes -> Nat]
    BY <2>1 DEF Reply
  <2>6. TypeOK'
    BY <2>3, <2>4, <2>5
  <2>. QED
    BY <2>3, <2>6 DEF WorkersConsistent, Holds
<1>4. ASSUME NEW i \in Inodes, NEW c \in 1 .. MaxRef, forget(i, c) PROVE TypeInv'
  <2>1. UNCHANGED <<fsVars, hmap, nextHandle, kfiles, workerVars>>
    BY <1>4 DEF forget
  <2>2. /\ obj' \in [Inodes -> Objects \cup {NoObject}]
        /\ refcount' \in [Inodes -> Nat]
        /\ nextInode' = nextInode
    <3>1. forget_one(i, c)
      BY <1>4 DEF forget
    <3>2. c \in Nat /\ TypeOK
      BY BoundsAssumption
    <3>. QED
      BY <3>1, <3>2, ForgetOneType
  <2>3. kref' \in [Inodes -> Nat]
    BY <1>4 DEF forget, ClientMayForget
  <2>. QED
    BY <2>1, <2>2, <2>3 DEF WorkersConsistent, Holds
<1>5. ASSUME NEW S \in SUBSET Inodes, NEW cnt \in [S -> 1 .. MaxRef],
             batch_forget(S, cnt)
      PROVE TypeInv'
  BY <1>5 DEF batch_forget, ClientMayForget, WorkersConsistent, Holds
<1>6. ASSUME NEW n \in Names, NEW k \in Kinds, make_node(n, k) PROVE TypeInv'
  <2>1. PICK o \in FreshObjects :
              /\ dentry' = [dentry EXCEPT ![n] = o]
              /\ kind' = [kind EXCEPT ![o] = k]
              /\ \E i \in Inodes : do_lookup(o, i) /\ Reply(i)
    BY <1>6 DEF make_node
  <2>2. PICK i \in Inodes : do_lookup(o, i) /\ Reply(i)
    BY <2>1
  <2>3. UNCHANGED <<mounted, no_open, no_opendir, hmap, nextHandle, kfiles,
                    workerVars>>
    BY <1>6 DEF make_node
  <2>4. /\ dentry' \in [Names -> Objects \cup {NoObject}]
        /\ kind' \in [Objects -> Kinds \cup {NoKind}]
    BY <2>1 DEF FreshObjects
  <2>5. /\ obj' \in [Inodes -> Objects \cup {NoObject}]
        /\ refcount' \in [Inodes -> Nat]
        /\ nextInode' \in 1 .. MaxInode + 1
    BY <2>1, <2>2, DoLookupType DEF FreshObjects
  <2>6. kref' \in [Inodes -> Nat]
    BY <2>2 DEF Reply
  <2>. QED
    BY <2>3, <2>4, <2>5, <2>6 DEF WorkersConsistent, Holds
<1>7. ASSUME NEW i \in Inodes, NEW n \in Names, link(i, n) PROVE TypeInv'
  <2>1. PICK j \in Inodes : do_lookup(obj[i], j) /\ Reply(j)
    BY <1>7 DEF link
  <2>2. obj[i] \in Objects
    BY <1>7 DEF link, Present
  <2>3. /\ UNCHANGED <<mounted, no_open, no_opendir, kind, hmap, nextHandle,
                       kfiles, workerVars>>
        /\ dentry' \in [Names -> Objects \cup {NoObject}]
    BY <1>7, <2>2 DEF link
  <2>4. /\ obj' \in [Inodes -> Objects \cup {NoObject}]
        /\ refcount' \in [Inodes -> Nat]
        /\ nextInode' \in 1 .. MaxInode + 1
    BY <2>1, <2>2, DoLookupType
  <2>5. kref' \in [Inodes -> Nat]
    BY <2>1 DEF Reply
  <2>. QED
    BY <2>3, <2>4, <2>5 DEF WorkersConsistent, Holds
<1>8. ASSUME NEW n \in Names, unlink(n) \/ rmdir(n) PROVE TypeInv'
  BY <1>8 DEF unlink, rmdir, WorkersConsistent, Holds
<1>9. ASSUME NEW n1 \in Names, NEW n2 \in Names, NEW f \in RenameFlags,
             rename(n1, n2, f)
      PROVE TypeInv'
  BY <1>9 DEF rename, RenameFlags, WorkersConsistent, Holds
<1>10. ASSUME NEW i \in Inodes, NEW dir \in BOOLEAN, do_open(i, dir) PROVE TypeInv'
  <2>1. UNCHANGED <<fsVars, obj, refcount, nextInode, kref, workerVars>>
    BY <1>10 DEF do_open
  <2>2. /\ hmap' \in [HandleIds -> Inodes \cup {NoInode}]
        /\ kfiles' \subseteq Files
        /\ nextHandle' \in 1 .. MaxHandle + 1
    BY <1>10 DEF do_open
  <2>. QED
    BY <2>1, <2>2 DEF WorkersConsistent, Holds
<1>11. ASSUME NEW f \in kfiles, do_release(f) PROVE TypeInv'
  BY <1>11 DEF do_release, Files, WorkersConsistent, Holds
<1>12. ASSUME NEW w \in Workers, NEW n \in Names,
              readdir_lookup(w, n) \/ readdirplus_lookup(w, n)
       PROVE TypeInv'
  <2>1. PICK i \in Inodes : do_lookup(dentry[n], i) /\ wino' = [wino EXCEPT ![w] = i]
    BY <1>12 DEF readdir_lookup, readdirplus_lookup
  <2>2. dentry[n] \in Objects
    BY <1>12 DEF readdir_lookup, readdirplus_lookup
  <2>. QED
    BY <1>12, <2>1, <2>2, DoLookupType
    DEF readdir_lookup, readdirplus_lookup, WorkersConsistent, Holds, PCs
<1>13. ASSUME NEW w \in Workers, NEW n \in Names, create_excl(w, n) PROVE TypeInv'
  <2>1. UNCHANGED <<mounted, no_open, no_opendir, tableVars, clientVars, wino>>
    BY <1>13 DEF create_excl
  <2>2. /\ dentry' \in [Names -> Objects \cup {NoObject}]
        /\ kind' \in [Objects -> Kinds \cup {NoKind}]
        /\ wnew' \in [Workers -> BOOLEAN]
    <3>1. CASE dentry[n] = NoObject
      <4>1. PICK o \in FreshObjects : /\ dentry' = [dentry EXCEPT ![n] = o]
                                     /\ kind' = [kind EXCEPT ![o] = "reg"]
                                     /\ wnew' = [wnew EXCEPT ![w] = TRUE]
        BY <3>1, <1>13 DEF create_excl
      <4>. QED
        BY <4>1 DEF FreshObjects
    <3>2. CASE dentry[n] # NoObject
      BY <3>2, <1>13 DEF create_excl
    <3>. QED
      BY <3>1, <3>2
  <2>3. /\ wpc' = [wpc EXCEPT ![w] = "cr_lookup"]
        /\ wname' = [wname EXCEPT ![w] = n]
    BY <1>13 DEF create_excl
  <2>4. TypeOK'
    BY <2>1, <2>2, <2>3
  <2>5. WorkersConsistent'
    BY <2>1, <2>3 DEF WorkersConsistent, Holds
  <2>. QED
    BY <2>4, <2>5
<1>14. ASSUME NEW w \in Workers, readdir_forget(w) PROVE TypeInv'
  <2>1. wino[w] \in Inodes
    BY <1>14 DEF readdir_forget, WorkersConsistent, Holds
  <2>. QED
    BY <1>14, <2>1, ForgetOneType, GoIdleType DEF readdir_forget, WorkersConsistent, Holds
<1>15. ASSUME NEW w \in Workers, NEW r \in SinkResults, readdirplus_sink(w, r)
       PROVE TypeInv'
  <2>1. wino[w] \in Inodes
    BY <1>15 DEF readdirplus_sink, WorkersConsistent, Holds
  <2>2. r \in {"ok", "full", "err"}
    BY SinkAssumption
  <2>3. UNCHANGED <<fsVars, hmap, nextHandle, kfiles>>
    BY <1>15 DEF readdirplus_sink
  <2>4. /\ obj' \in [Inodes -> Objects \cup {NoObject}]
        /\ refcount' \in [Inodes -> Nat]
        /\ nextInode' = nextInode
        /\ kref' \in [Inodes -> Nat]
    <3>1. CASE r = "ok"
      BY <1>15, <2>1, <3>1 DEF readdirplus_sink, Reply
    <3>2. CASE r = "full"
      BY <1>15, <2>1, <3>2, ForgetOneType DEF readdirplus_sink
    <3>3. CASE r = "err"
      BY <1>15, <3>3 DEF readdirplus_sink
    <3>. QED
      BY <2>2, <3>1, <3>2, <3>3
  <2>5. GoIdle(w)
    BY <1>15 DEF readdirplus_sink
  <2>. QED
    BY <2>3, <2>4, <2>5, GoIdleType DEF WorkersConsistent, Holds
<1>16. ASSUME NEW w \in Workers, create_lookup(w) PROVE TypeInv'
  <2>1. wname[w] \in Names
    BY <1>16 DEF create_lookup, WorkersConsistent
  <2>2. CASE dentry[wname[w]] = NoObject
    BY <1>16, <2>2, GoIdleType DEF create_lookup, WorkersConsistent, Holds
  <2>3. CASE dentry[wname[w]] # NoObject
    <3>1. PICK i \in Inodes : do_lookup(dentry[wname[w]], i)
                              /\ wino' = [wino EXCEPT ![w] = i]
      BY <1>16, <2>3 DEF create_lookup
    <3>. QED
      BY <1>16, <2>1, <2>3, <3>1, DoLookupType
      DEF create_lookup, WorkersConsistent, Holds, PCs
  <2>. QED
    BY <2>2, <2>3
<1>17. ASSUME NEW w \in Workers, create_open(w) PROVE TypeInv'
  BY <1>17, GoIdleType DEF create_open, WorkersConsistent, Holds, PCs
<1>18. ASSUME NEW w \in Workers, create_reply(w) PROVE TypeInv'
  <2>1. wino[w] \in Inodes
    BY <1>18 DEF create_reply, WorkersConsistent, Holds
  <2>2. UNCHANGED <<fsVars, obj, refcount, nextInode>>
    BY <1>18 DEF create_reply
  <2>3. /\ hmap' \in [HandleIds -> Inodes \cup {NoInode}]
        /\ kfiles' \subseteq Files
        /\ nextHandle' \in 1 .. MaxHandle + 1
    <3>1. CASE no_open
      BY <1>18, <3>1 DEF create_reply
    <3>2. CASE ~no_open
      <4>1. /\ nextHandle \in HandleIds
            /\ hmap' = [hmap EXCEPT ![nextHandle] = wino[w]]
            /\ kfiles' = kfiles \cup {[fh |-> nextHandle, ino |-> wino[w], dir |-> FALSE]}
            /\ nextHandle' = nextHandle + 1
        BY <1>18, <3>2 DEF create_reply
      <4>2. hmap' \in [HandleIds -> Inodes \cup {NoInode}]
        BY <2>1, <4>1
      <4>3. [fh |-> nextHandle, ino |-> wino[w], dir |-> FALSE] \in Files
        BY <2>1, <4>1
      <4>4. nextHandle' \in 1 .. MaxHandle + 1
        BY <4>1
      <4>. QED
        BY <4>1, <4>2, <4>3, <4>4
    <3>. QED
      BY <3>1, <3>2
  <2>4. kref' \in [Inodes -> Nat]
    BY <1>18, <2>1 DEF create_reply, Reply
  <2>5. GoIdle(w)
    BY <1>18 DEF create_reply
  <2>. QED
    BY <2>2, <2>3, <2>4, <2>5, GoIdleType DEF WorkersConsistent, Holds
<1>19. CASE UNCHANGED vars
  BY <1>19 DEF vars, fsVars, tableVars, clientVars, workerVars,
     WorkersConsistent, Holds
<1> HIDE DEF TypeInv, TypeOK
<1>20. CASE ClientOps
  BY <1>1, <1>2, <1>3, <1>4, <1>5, <1>6, <1>7, <1>8, <1>9, <1>10, <1>11, <1>20
  DEF ClientOps, mkdir, symlink, mknod, open, opendir, release, releasedir
<1>21. CASE \E w \in Workers : WorkerSteps(w)
  BY <1>12, <1>13, <1>14, <1>15, <1>16, <1>17, <1>18, <1>21 DEF WorkerSteps
<1>. QED
  BY <1>19, <1>20, <1>21 DEF Next

(***************************************************************************)
(* Type correctness: every variable of every reachable state has the type  *)
(* TypeOK gives it, whatever interleaving of handlers and client requests  *)
(* led there; in particular a handler in the middle of readdir, readdirplus *)
(* or create always holds a real inode id and name.                        *)
(***************************************************************************)
THEOREM TypeCorrect == Spec => []TypeOK
<1>1. TypeInv => TypeOK
  BY DEF TypeInv
<1>. QED
  BY InitTypeInv, TypeInvStep, <1>1, PTL DEF Spec

\* One step of Next keeps FreshInodesClean and RefcountSound.
LEMMA SoundStep ==
    TypeInv /\ FreshInodesClean /\ RefcountSound /\ [Next]_vars
      => (FreshInodesClean /\ RefcountSound)'
<1> SUFFICES ASSUME TypeInv, FreshInodesClean, RefcountSound, [Next]_vars
             PROVE  (FreshInodesClean /\ RefcountSound)'
  OBVIOUS
<1>1. \A i \in Inodes : FC(i)' /\ RS(i)'
  <2>1. CASE ClientOps
    BY <2>1, ClientSound DEF TypeInv
  <2>2. CASE \E w \in Workers : WorkerSteps(w)
    BY <2>2, WorkerSound DEF TypeInv
  <2>3. CASE UNCHANGED vars
    <3>1. \A i : Held(i)' = Held(i)
      BY <2>3, HeldUnchanged DEF vars
    <3>. QED
      BY <2>3, <3>1, KeptStep DEF vars, TypeInv
  <2>. QED
    BY <2>1, <2>2, <2>3 DEF Next
<1>. QED
  BY <1>1 DEF FreshInodesClean, RefcountSound, RS

(***************************************************************************)
(* Refcount soundness: in every reachable state, for every inode, the     *)
(* lookup refcount covers the lookups the client holds plus the references *)
(* readdir, readdirplus and create have taken with do_lookup and not yet   *)
(* passed on, and the record is in the map exactly while its count is     *)
(* positive.  So no forget_one, from a client forget, batch_forget,        *)
(* readdir's release or readdirplus's Ok(0) path, ever removes an inode    *)
(* that the client or a running handler still uses.                        *)
(***************************************************************************)
THEOREM RefcountSoundness == Spec => []RefcountSound
<1>1. Init => IInv
  BY InitTypeInv, InitSound DEF IInv
<1>2. IInv /\ [Next]_vars => IInv'
  BY TypeInvStep, SoundStep DEF IInv
<1>3. IInv => RefcountSound
  BY DEF IInv
<1>. QED
  BY <1>1, <1>2, <1>3, PTL DEF Spec

=============================================================================
