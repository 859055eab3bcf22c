-------------------------- MODULE HandleDataProofs --------------------------
(***************************************************************************)
(* Proofs about HandleData for every set of request threads and of flags:  *)
(* the Arc<HandleData> strong count is exactly the handle map's reference  *)
(* plus one per request in flight, so release racing any number of reads,  *)
(* writes, flushes and fsyncs drops the data exactly when the last of them *)
(* returns.                                                                *)
(***************************************************************************)
EXTENDS HandleData, FiniteSetTheorems, TLAPS

\* The strong count is the map's reference plus the requests holding one.
RefsCounted == refs = Cardinality(Busy) + (IF mapped THEN 1 ELSE 0)

\* The HandleData is gone exactly when its strong count is zero.
DropState == dropped <=> refs = 0

\* TypeOK without the bound on refs, which follows from RefsCounted.
TypeRest ==
    /\ mapped \in BOOLEAN /\ dropped \in BOOLEAN /\ fdOpen \in BOOLEAN
    /\ fdFlags \in Flags /\ cached \in Flags
    /\ pc \in [Threads -> Places] /\ op \in [Threads -> Ops]
    /\ req \in [Threads -> Flags]

IInv == TypeOK /\ RefsCounted /\ DropState
-----------------------------------------------------------------------------
\* The threads in a handler are a finite subset of the threads.
LEMMA BusyBound ==
    ASSUME NEW p
    PROVE  LET B == {w \in Threads : p[w] # "idle"}
           IN  /\ IsFiniteSet(B)
               /\ Cardinality(B) \in 0 .. Cardinality(Threads)
<1> DEFINE B == {w \in Threads : p[w] # "idle"}
<1>1. IsFiniteSet(Threads) /\ B \subseteq Threads
  BY ConstAssumption
<1>2. IsFiniteSet(B) /\ Cardinality(B) <= Cardinality(Threads)
  BY <1>1, FS_Subset
<1>3. Cardinality(B) \in Nat /\ Cardinality(Threads) \in Nat
  BY <1>1, <1>2, FS_CardinalityType
<1>. QED
  BY <1>2, <1>3

\* A thread entering a handler adds itself to Busy.
LEMMA BusyEnter ==
    ASSUME TypeOK, NEW w \in Threads, pc[w] = "idle", NEW x, x # "idle",
           pc' = [pc EXCEPT ![w] = x]
    PROVE  Cardinality(Busy') = Cardinality(Busy) + 1
<1>1. Busy' = Busy \cup {w} /\ w \notin Busy
  BY DEF Busy, TypeOK
<1>2. IsFiniteSet(Busy)
  BY BusyBound DEF Busy
<1>. QED
  BY <1>1, <1>2, FS_AddElement

\* A thread returning from its handler removes itself from Busy.
LEMMA BusyLeave ==
    ASSUME TypeOK, NEW w \in Threads, pc[w] # "idle",
           pc' = [pc EXCEPT ![w] = "idle"]
    PROVE  Cardinality(Busy') = Cardinality(Busy) - 1
<1>1. Busy' = Busy \ {w} /\ w \in Busy
  BY DEF Busy, TypeOK
<1>2. IsFiniteSet(Busy)
  BY BusyBound DEF Busy
<1>. QED
  BY <1>1, <1>2, FS_RemoveElement

\* A step inside a handler leaves Busy alone.
LEMMA BusyStay ==
    ASSUME TypeOK, NEW w \in Threads, pc[w] # "idle", NEW x, x # "idle",
           pc' = [pc EXCEPT ![w] = x]
    PROVE  Busy' = Busy
BY DEF Busy, TypeOK

\* The places after check_fd_flags.
LEMMA AfterCheckPlace ==
    ASSUME NEW w \in Threads
    PROVE  AfterCheck(w) \in {"seal", "io"}
BY DEF AfterCheck

\* The counting invariant gives the bound of TypeOK on refs.
LEMMA RefsBound ==
    ASSUME TypeRest', RefsCounted'
    PROVE  TypeOK'
<1>1. Cardinality(Busy') \in 0 .. Cardinality(Threads)
  BY BusyBound DEF Busy
<1>2. refs' \in 0 .. Cardinality(Threads) + 1
  BY <1>1, ConstAssumption, FS_CardinalityType DEF RefsCounted, TypeRest
<1>. QED
  BY <1>2 DEF TypeOK, TypeRest
-----------------------------------------------------------------------------
\* What each step must re-establish; TypeOK' then follows by RefsBound.
Goal == TypeRest' /\ RefsCounted' /\ DropState'

\* A returning thread takes its reference with it, and the last one drops
\* the data, whether or not the borrowed File closes the fd early.
LEMMA ReturnStep ==
    ASSUME IInv, NEW w \in Threads, pc[w] # "idle", NEW c \in BOOLEAN,
           ReturnFrom(w, c)
    PROVE  Goal
<1>1. Cardinality(Busy') = Cardinality(Busy) - 1
  BY BusyLeave DEF IInv, ReturnFrom
<1>2. Cardinality(Busy) \in Nat /\ Cardinality(Busy) >= 1
  <2>1. w \in Busy /\ IsFiniteSet(Busy)
    BY BusyBound DEF Busy, IInv, TypeOK
  <2>. QED
    BY <2>1, FS_CardinalityType, FS_EmptySet
<1>3. /\ refs = Cardinality(Busy) + (IF mapped THEN 1 ELSE 0)
      /\ refs' = refs - 1 /\ mapped' = mapped /\ mapped \in BOOLEAN
      /\ dropped' = (refs = 1)
  BY DEF ReturnFrom, IInv, RefsCounted, TypeOK
<1>5. RefsCounted'
  BY <1>1, <1>2, <1>3 DEF RefsCounted
<1>6. DropState'
  <2>1. (refs = 1) <=> (refs' = 0)
    BY <1>2, <1>3
  <2>. QED
    BY <2>1, <1>3, Zenon DEF DropState
<1>4. TypeRest'
  BY DEF ReturnFrom, IInv, TypeOK, TypeRest, Places
<1>. QED
  BY <1>4, <1>5, <1>6 DEF Goal

\* A step inside a handler moves a thread between non-idle places only.
LEMMA InnerStep ==
    ASSUME IInv, NEW w \in Threads, pc[w] # "idle", NEW x \in Places \ {"idle"},
           pc' = [pc EXCEPT ![w] = x],
           UNCHANGED <<mapped, refs, dropped, fdOpen, op, req>>,
           fdFlags' \in Flags, cached' \in Flags
    PROVE  Goal
<1>1. Busy' = Busy
  BY BusyStay DEF IInv
<1>. QED
  BY <1>1 DEF Goal, IInv, TypeOK, TypeRest, RefsCounted, DropState

LEMMA OpenStep ==
    ASSUME IInv, NEW f \in Flags, do_open(f)
    PROVE  Goal
<1>1. Cardinality(Busy) \in Nat
  BY BusyBound DEF Busy
<1>2. refs = 0 /\ ~mapped /\ Cardinality(Busy) = 0
  BY <1>1 DEF do_open, IInv, DropState, RefsCounted, TypeOK
<1>3. Busy' = Busy
  BY DEF do_open, Busy
<1>4. RefsCounted' /\ DropState'
  BY <1>2, <1>3 DEF do_open, RefsCounted, DropState
<1>5. TypeRest'
  BY DEF do_open, IInv, TypeOK, TypeRest
<1>. QED
  BY <1>4, <1>5 DEF Goal

LEMMA GetDataStep ==
    ASSUME IInv, NEW w \in Threads, NEW o \in Ops, NEW f \in Flags,
           get_data(w, o, f)
    PROVE  Goal
<1>1. Cardinality(Busy') = Cardinality(Busy) + 1
  <2>1. pc'[w] # "idle" /\ pc'[w] \in Places
    BY DEF get_data, Places, IInv, TypeOK
  <2>. QED
    BY <2>1, BusyEnter DEF get_data, IInv
<1>2. Cardinality(Busy) \in Nat
  BY BusyBound DEF Busy
<1>3. RefsCounted' /\ DropState'
  BY <1>1, <1>2 DEF get_data, IInv, RefsCounted, DropState, TypeOK
<1>4. TypeRest'
  BY DEF get_data, IInv, TypeOK, TypeRest, Places
<1>. QED
  BY <1>3, <1>4 DEF Goal

LEMMA ReleaseStep ==
    ASSUME IInv, release
    PROVE  Goal
<1>1. Cardinality(Busy) \in Nat /\ Busy' = Busy
  BY BusyBound DEF Busy, release
<1>2. /\ refs = Cardinality(Busy) + 1
      /\ refs' = refs - 1 /\ mapped' = FALSE /\ dropped' = (refs = 1)
  BY DEF release, IInv, RefsCounted
<1>3. RefsCounted'
  BY <1>1, <1>2 DEF RefsCounted
<1>4. DropState'
  <2>1. (refs = 1) <=> (refs' = 0)
    BY <1>1, <1>2
  <2>. QED
    BY <2>1, <1>2, Zenon DEF DropState
<1>5. TypeRest'
  BY DEF release, IInv, TypeOK, TypeRest
<1>. QED
  BY <1>3, <1>4, <1>5 DEF Goal
-----------------------------------------------------------------------------
\* No handle is open and no thread is in a handler.
LEMMA InitIInv == Init => IInv
<1> SUFFICES ASSUME Init PROVE IInv
  OBVIOUS
<1>1. Busy = {}
  BY DEF Init, Busy
<1>2. Cardinality(Busy) = 0
  BY <1>1, FS_EmptySet
<1>3. Cardinality(Threads) \in Nat
  BY ConstAssumption, FS_CardinalityType
<1>4. refs = 0 /\ ~mapped /\ dropped
  BY DEF Init
<1>5. RefsCounted /\ DropState
  BY <1>2, <1>4 DEF RefsCounted, DropState
<1>6. refs \in 0 .. Cardinality(Threads) + 1
  BY <1>3, <1>4
<1>7. /\ mapped \in BOOLEAN /\ dropped \in BOOLEAN /\ fdOpen \in BOOLEAN
      /\ fdFlags \in Flags /\ cached \in Flags
      /\ pc \in [Threads -> Places] /\ op \in [Threads -> Ops]
      /\ req \in [Threads -> Flags]
  BY DEF Init, Places
<1>. QED
  BY <1>5, <1>6, <1>7 DEF IInv, TypeOK

\* Every step of every thread, and release and open, keeps the counting.
LEMMA StepIInv == IInv /\ [Next]_vars => IInv'
<1> SUFFICES ASSUME IInv, [Next]_vars PROVE IInv'
  OBVIOUS
<1>1. Goal
  <2>1. CASE \E f \in Flags : do_open(f)
    BY <2>1, OpenStep
  <2>2. CASE release
    BY <2>2, ReleaseStep
  <2>3. CASE UNCHANGED vars
    <3>1. Busy' = Busy
      BY <2>3 DEF vars, Busy
    <3>. QED
      BY <2>3, <3>1 DEF vars, Goal, IInv, TypeOK, TypeRest, RefsCounted, DropState
  <2>4. ASSUME NEW w \in Threads,
               \/ \E o \in Ops, f \in Flags : get_data(w, o, f)
               \/ check_fd_flags_compare(w) \/ check_fd_flags_fcntl(w)
               \/ check_fd_flags_set(w) \/ write_seal_check(w)
               \/ read_io(w) \/ write_io(w) \/ flush_io(w) \/ fsync_io(w)
        PROVE  Goal
    <3>1. CASE \E o \in Ops, f \in Flags : get_data(w, o, f)
      BY <3>1, GetDataStep
    <3>2. CASE check_fd_flags_compare(w)
      <4> DEFINE x == IF cached = req[w] THEN AfterCheck(w) ELSE "setfl"
      <4>1. x \in Places \ {"idle"}
        BY AfterCheckPlace DEF Places
      <4>. QED
        BY <3>2, <4>1, InnerStep DEF check_fd_flags_compare, IInv, TypeOK
    <3>3. CASE check_fd_flags_fcntl(w)
      <4>1. CASE /\ fdFlags' = req[w]
                 /\ pc' = [pc EXCEPT ![w] = "store"]
                 /\ UNCHANGED <<mapped, refs, dropped, fdOpen, cached, op, req>>
        BY <3>3, <4>1, InnerStep DEF check_fd_flags_fcntl, Places, IInv, TypeOK
      <4>2. CASE ReturnFrom(w, TRUE)
        BY <3>3, <4>2, ReturnStep DEF check_fd_flags_fcntl
      <4>. QED
        BY <3>3, <4>1, <4>2 DEF check_fd_flags_fcntl
    <3>4. CASE check_fd_flags_set(w)
      <4>1. AfterCheck(w) \in Places \ {"idle"}
        BY AfterCheckPlace DEF Places
      <4>. QED
        BY <3>4, <4>1, InnerStep DEF check_fd_flags_set, IInv, TypeOK
    <3>5. CASE write_seal_check(w)
      <4>1. CASE /\ pc' = [pc EXCEPT ![w] = "io"]
                 /\ UNCHANGED <<mapped, refs, dropped, fdOpen, fdFlags, cached, op, req>>
        BY <3>5, <4>1, InnerStep DEF write_seal_check, Places, IInv, TypeOK
      <4>2. CASE ReturnFrom(w, TRUE)
        BY <3>5, <4>2, ReturnStep DEF write_seal_check
      <4>. QED
        BY <3>5, <4>1, <4>2 DEF write_seal_check
    <3>6. CASE read_io(w) \/ write_io(w) \/ flush_io(w) \/ fsync_io(w)
      BY <3>6, ReturnStep DEF read_io, write_io, flush_io, fsync_io
    <3>. QED
      BY <2>4, <3>1, <3>2, <3>3, <3>4, <3>5, <3>6
  <2>. QED
    BY <2>1, <2>2, <2>3, <2>4 DEF Next
<1>. QED
  BY <1>1, RefsBound DEF Goal, IInv

\* The counting invariant says when the data is dropped.
LEMMA IInvDrop == IInv => DropExactlyWhenUnreferenced
<1> SUFFICES ASSUME IInv PROVE DropExactlyWhenUnreferenced
  OBVIOUS
<1>1. IsFiniteSet(Busy) /\ Cardinality(Busy) \in Nat
  BY BusyBound DEF Busy
<1>2. (Cardinality(Busy) = 0) <=> (Busy = {})
  BY <1>1, FS_EmptySet
<1>3. (refs = 0) <=> (Busy = {} /\ ~mapped)
  BY <1>1, <1>2 DEF IInv, RefsCounted, TypeOK
<1>. QED
  BY <1>3, Zenon DEF IInv, DropState, DropExactlyWhenUnreferenced

(***************************************************************************)
(* Type correctness of the handle's life for every number of threads: in   *)
(* particular the Arc count never goes below zero nor above one per thread *)
(* plus the map's.                                                         *)
(***************************************************************************)
THEOREM TypeCorrect == Spec => []TypeOK
<1>1. IInv => TypeOK
  BY DEF IInv
<1>. QED
  BY <1>1, InitIInv, StepIInv, PTL DEF Spec

(***************************************************************************)
(* release racing any number of read, write, flush and fsync requests on   *)
(* the handle drops the HandleData (and closes its fd) exactly when the    *)
(* map and every request have let go of it.                                *)
(***************************************************************************)
THEOREM DropExact == Spec => []DropExactlyWhenUnreferenced
BY InitIInv, StepIInv, IInvDrop, PTL DEF Spec
=============================================================================
