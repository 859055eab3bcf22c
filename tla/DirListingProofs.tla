--------------------------- MODULE DirListingProofs ---------------------------
(***************************************************************************)
(* Proofs about DirListing for every number of entries, getdents64 chunk   *)
(* and reply capacity: the listing is well typed, no entry that stays in   *)
(* the directory is skipped (NoGap), and every reply moves forward         *)
(* (ReplyAdvances).  They rest on what getdents64 returns: the records     *)
(* after the position, in directory order, with no live entry between two *)
(* of them; this follows from the ranks of InSlotOrder.                    *)
(***************************************************************************)
EXTENDS DirListing, FiniteSetTheorems, SequenceTheorems, TLAPS

-----------------------------------------------------------------------------
(***************************************************************************)
(* Ranks in a finite set of slots.                                         *)
(***************************************************************************)
\* The rank of a slot is below the size of its set.
LEMMA RankBound ==
    ASSUME NEW S \in SUBSET Int, IsFiniteSet(S), NEW s \in S
    PROVE  Rank(S, s) \in Nat /\ Rank(S, s) \in 0 .. Cardinality(S) - 1
<1>. DEFINE B == {t \in S : t < s}
<1>1. IsFiniteSet(S \ {s}) /\ Cardinality(S \ {s}) = Cardinality(S) - 1
  BY FS_RemoveElement
<1>2. B \subseteq S \ {s}
  OBVIOUS
<1>3. IsFiniteSet(B) /\ Cardinality(B) <= Cardinality(S) - 1
  BY <1>1, <1>2, FS_Subset
<1>4. Cardinality(B) \in Nat
  BY <1>3, FS_CardinalityType
<1>. QED
  BY <1>3, <1>4 DEF Rank

\* A later slot has a higher rank.
LEMMA RankMonotone ==
    ASSUME NEW S \in SUBSET Int, IsFiniteSet(S), NEW s \in S, NEW t \in S, s < t
    PROVE  Rank(S, s) < Rank(S, t)
<1>1. IsFiniteSet({x \in S : x < t}) /\ IsFiniteSet({x \in S : x < s})
  BY FS_Subset
<1>2. /\ {x \in S : x < s} \cup {s} \subseteq {x \in S : x < t}
      /\ s \notin {x \in S : x < s}
  <2>1. \A x \in S : x < s => x < t
    OBVIOUS
  <2>2. s \in {x \in S : x < t} /\ ~(s < s)
    OBVIOUS
  <2>. QED
    BY <2>1, <2>2
<1>3. /\ IsFiniteSet({x \in S : x < s} \cup {s})
      /\ Cardinality({x \in S : x < s} \cup {s}) = Cardinality({x \in S : x < s}) + 1
  BY <1>1, <1>2, FS_AddElement
<1>4. Cardinality({x \in S : x < s} \cup {s}) <= Cardinality({x \in S : x < t})
  BY <1>1, <1>2, FS_Subset
<1>5. /\ Cardinality({x \in S : x < s}) \in Nat
      /\ Cardinality({x \in S : x < t}) \in Nat
  BY <1>1, FS_CardinalityType
<1>6. /\ Rank(S, s) = Cardinality({x \in S : x < s})
      /\ Rank(S, t) = Cardinality({x \in S : x < t})
  BY DEF Rank
<1>. QED
  BY <1>3, <1>4, <1>5, <1>6

\* Every rank below the size of the set is the rank of a slot.
LEMMA RankOnto ==
    ASSUME NEW S \in SUBSET Int, IsFiniteSet(S),
           NEW k \in 0 .. Cardinality(S) - 1
    PROVE  \E s \in S : Rank(S, s) = k
<1>1. Cardinality(S) \in Nat
  BY FS_CardinalityType
<1>2. [s \in S |-> Rank(S, s)] \in [S -> 0 .. Cardinality(S) - 1]
  BY RankBound
<1>3. \A a, b \in S : a # b => Rank(S, a) # Rank(S, b)
  <2> SUFFICES ASSUME NEW a \in S, NEW b \in S, a # b
               PROVE  Rank(S, a) # Rank(S, b)
    OBVIOUS
  <2>1. CASE a < b
    <3>1. Rank(S, a) < Rank(S, b)
      BY <2>1, RankMonotone
    <3>. QED
      BY <3>1, RankBound
  <2>2. CASE b < a
    <3>1. Rank(S, b) < Rank(S, a)
      BY <2>2, RankMonotone
    <3>. QED
      BY <3>1, RankBound
  <2>. QED
    BY <2>1, <2>2
<1>4. [s \in S |-> Rank(S, s)] \in Injection(S, 0 .. Cardinality(S) - 1)
  BY <1>2, <1>3 DEF Injection, IsInjective
<1>5. IsFiniteSet(0 .. Cardinality(S) - 1)
      /\ Cardinality(0 .. Cardinality(S) - 1) = Cardinality(S)
  BY <1>1, FS_Interval
<1>6. [s \in S |-> Rank(S, s)] \in Surjection(S, 0 .. Cardinality(S) - 1)
  BY <1>4, <1>5, FS_Injection
<1>. QED
  BY <1>6 DEF Surjection

\* InSlotOrder lists a finite set of slots in increasing order.
LEMMA SlotOrder ==
    ASSUME NEW S \in SUBSET Int, IsFiniteSet(S)
    PROVE  /\ InSlotOrder(S) \in Seq(S)
           /\ Len(InSlotOrder(S)) = Cardinality(S)
           /\ \A k \in 1 .. Cardinality(S) :
                 Rank(S, InSlotOrder(S)[k]) = k - 1
           /\ Ascending(InSlotOrder(S))
<1>1. Cardinality(S) \in Nat
  BY FS_CardinalityType
<1>2. \A k \in 1 .. Cardinality(S) :
         InSlotOrder(S)[k] \in S /\ Rank(S, InSlotOrder(S)[k]) = k - 1
  <2> SUFFICES ASSUME NEW k \in 1 .. Cardinality(S)
               PROVE  InSlotOrder(S)[k] \in S /\ Rank(S, InSlotOrder(S)[k]) = k - 1
    OBVIOUS
  <2>1. \E s \in S : Rank(S, s) = k - 1
    BY <1>1, RankOnto
  <2>. QED
    BY <2>1 DEF InSlotOrder
<1>3. InSlotOrder(S) \in Seq(S) /\ Len(InSlotOrder(S)) = Cardinality(S)
  BY <1>1, <1>2 DEF InSlotOrder
<1>4. Ascending(InSlotOrder(S))
  <2> SUFFICES ASSUME NEW k \in 1 .. Cardinality(S), NEW l \in 1 .. Cardinality(S),
                      k < l
               PROVE  InSlotOrder(S)[k] < InSlotOrder(S)[l]
    BY <1>3 DEF Ascending
  <2>1. InSlotOrder(S)[k] \in S /\ InSlotOrder(S)[l] \in S
    BY <1>2
  <2>2. /\ Rank(S, InSlotOrder(S)[k]) = k - 1
        /\ Rank(S, InSlotOrder(S)[l]) = l - 1
    BY <1>2
  <2>3. InSlotOrder(S)[k] \in Int /\ InSlotOrder(S)[l] \in Int
    BY <2>1
  <2>4. ~(InSlotOrder(S)[l] < InSlotOrder(S)[k])
    <3> SUFFICES ASSUME InSlotOrder(S)[l] < InSlotOrder(S)[k] PROVE FALSE
      OBVIOUS
    <3>1. Rank(S, InSlotOrder(S)[l]) < Rank(S, InSlotOrder(S)[k])
      BY <2>1, RankMonotone
    <3>. QED
      BY <2>2, <3>1
  <2>5. InSlotOrder(S)[k] # InSlotOrder(S)[l]
    BY <2>2
  <2>. QED
    BY <2>3, <2>4, <2>5
<1>. QED
  BY <1>2, <1>3, <1>4

-----------------------------------------------------------------------------
(***************************************************************************)
(* What one getdents64 call returns.                                       *)
(***************************************************************************)
\* The records of the directory after p, and the first Chunk of them.
Chunked(p) == {s \in After(p) : Rank(After(p), s) < Chunk}

LEMMA AfterFinite ==
    ASSUME NEW p
    PROVE  /\ After(p) \subseteq Slots /\ Slots \subseteq Int
           /\ IsFiniteSet(After(p)) /\ IsFiniteSet(Chunked(p))
<1>1. Slots \subseteq Int /\ IsFiniteSet(Slots)
  BY SizeAssumption, FS_Interval DEF Slots
<1>2. After(p) \subseteq Slots /\ Chunked(p) \subseteq Slots
  BY DEF After, Chunked
<1>. QED
  BY <1>1, <1>2, FS_Subset

\* A live record before one of the chunk is in the chunk too.
LEMMA ChunkPrefix ==
    ASSUME NEW p, NEW t \in After(p), NEW s \in Chunked(p), t < s
    PROVE  t \in Chunked(p)
<1>1. Rank(After(p), t) < Rank(After(p), s)
  BY AfterFinite, RankMonotone DEF Chunked
<1>2. Rank(After(p), t) \in Nat /\ Rank(After(p), s) \in Nat
  BY AfterFinite, RankBound DEF Chunked
<1>. QED
  BY <1>1, <1>2, SizeAssumption DEF Chunked

\* getdents64 from p returns records after p, in directory order, the
\* first of them first, and skips no live record between two it returns.
LEMMA GetDentsShape ==
    ASSUME NEW p
    PROVE  /\ GetDents(p) \in Seq(Slots)
           /\ Ascending(GetDents(p))
           /\ \A k \in 1 .. Len(GetDents(p)) : GetDents(p)[k] \in After(p)
           /\ \A t \in After(p) : GetDents(p) # <<>> => GetDents(p)[1] <= t
           /\ \A t \in After(p), k \in 1 .. Len(GetDents(p)) - 1 :
                 ~(GetDents(p)[k] < t /\ t < GetDents(p)[k + 1])
<1>. DEFINE F == Chunked(p)
<1>1. GetDents(p) = InSlotOrder(F)
  BY DEF GetDents, Chunked
<1>2. /\ F \subseteq Slots /\ Slots \subseteq Int /\ IsFiniteSet(F)
      /\ F \subseteq After(p)
  BY AfterFinite DEF Chunked
<1>3. /\ InSlotOrder(F) \in Seq(F)
      /\ Len(InSlotOrder(F)) = Cardinality(F)
      /\ \A k \in 1 .. Cardinality(F) : Rank(F, InSlotOrder(F)[k]) = k - 1
      /\ Ascending(InSlotOrder(F))
  BY <1>2, SlotOrder
<1>4. \A k \in 1 .. Len(InSlotOrder(F)) : InSlotOrder(F)[k] \in F
  BY <1>3
<1>5. InSlotOrder(F) \in Seq(Slots)
  BY <1>2, <1>3, <1>4
<1>6. \A t \in After(p) : InSlotOrder(F) # <<>> => InSlotOrder(F)[1] <= t
  <2> SUFFICES ASSUME NEW t \in After(p), InSlotOrder(F) # <<>>,
                      t < InSlotOrder(F)[1]
               PROVE  FALSE
    <3>1. \A t \in After(p) : t \in Int
      BY AfterFinite
    <3>2. InSlotOrder(F) # <<>> => InSlotOrder(F)[1] \in Int
      <4> SUFFICES ASSUME InSlotOrder(F) # <<>> PROVE InSlotOrder(F)[1] \in Int
        OBVIOUS
      <4>1. Len(InSlotOrder(F)) >= 1
        BY <1>3
      <4>2. 1 \in 1 .. Len(InSlotOrder(F))
        BY <4>1, <1>3
      <4>3. InSlotOrder(F)[1] \in F
        BY <4>2, <1>4
      <4>. QED
        BY <4>3, <1>2
    <3>. QED
      BY <3>1, <3>2
  <2>1. 1 \in 1 .. Cardinality(F) /\ InSlotOrder(F)[1] \in F
    BY <1>3, <1>4
  <2>2. t \in F
    BY <2>1, ChunkPrefix
  <2>3. Rank(F, t) < Rank(F, InSlotOrder(F)[1])
    BY <1>2, <2>1, <2>2, RankMonotone
  <2>4. Rank(F, t) \in Nat
    BY <1>2, <2>2, RankBound
  <2>. QED
    BY <1>3, <2>1, <2>3, <2>4
<1>7. \A t \in After(p), k \in 1 .. Len(InSlotOrder(F)) - 1 :
         ~(InSlotOrder(F)[k] < t /\ t < InSlotOrder(F)[k + 1])
  <2> SUFFICES ASSUME NEW t \in After(p), NEW k \in 1 .. Len(InSlotOrder(F)) - 1,
                      InSlotOrder(F)[k] < t, t < InSlotOrder(F)[k + 1]
               PROVE  FALSE
    OBVIOUS
  <2>1. /\ k \in 1 .. Cardinality(F) /\ k + 1 \in 1 .. Cardinality(F)
        /\ InSlotOrder(F)[k] \in F /\ InSlotOrder(F)[k + 1] \in F
    BY <1>3, <1>4
  <2>2. t \in F
    BY <2>1, ChunkPrefix
  <2>3. /\ Rank(F, InSlotOrder(F)[k]) < Rank(F, t)
        /\ Rank(F, t) < Rank(F, InSlotOrder(F)[k + 1])
    BY <1>2, <2>1, <2>2, RankMonotone
  <2>4. Rank(F, t) \in Nat
    BY <1>2, <2>2, RankBound
  <2>. QED
    BY <1>3, <2>1, <2>3, <2>4
<1>. QED
  BY <1>1, <1>2, <1>3, <1>4, <1>5, <1>6, <1>7


-----------------------------------------------------------------------------
(***************************************************************************)
(* The inductive invariant.  NoGap alone is not inductive: a reply moves   *)
(* the cookie to its last entry, so the entries between the old cookie and *)
(* that one must all be in the reply.  That holds because do_readdir reads *)
(* from the cookie itself (the position lock keeps lseek out between       *)
(* lseek64 and getdents64), getdents64 skips no live record, and the       *)
(* records are consumed in order.  Good are the entries the listing must   *)
(* deliver: there when it started and never unlinked since.                *)
(***************************************************************************)
USE SizeAssumption DEF Dots, Entries, Slots, Offsets

Good == listed0 \ removed

\* A good entry is still in the directory.
GoodPresent == \A s \in Good : present[s]

\* The client has only been given entries up to its cookie.
ReceivedBelow == \A s \in received : s <= cookie

\* Between lseek64 and getdents64 the lock is held, the position is the
\* cookie and nothing is stored yet.
Seeked == rpc = "getdents" => locked /\ pos = cookie /\ stored = <<>>

\* While the records are processed: the reply and the rest of the buffer
\* are in directory order, after the cookie, the reply before the buffer.
InOrder ==
    rpc = "entries" =>
        /\ Ascending(stored) /\ Ascending(buf)
        /\ \A i \in 1 .. Len(stored) : stored[i] > cookie
        /\ \A k \in 1 .. Len(buf) : buf[k] > cookie
        /\ \A i \in 1 .. Len(stored), k \in 1 .. Len(buf) : stored[i] < buf[k]

\* ... and every good entry after the cookie and before the first record
\* left in the buffer is in the reply; none lies between two records of it.
Covered ==
    rpc = "entries" =>
        /\ \A t \in Good, i \in 1 .. Len(stored) :
              cookie < t /\ t <= stored[i] => t \in ToSet(stored)
        /\ buf # <<>> =>
              \A t \in Good : cookie < t /\ t < buf[1] => t \in ToSet(stored)
        /\ \A t \in Good, k \in 1 .. Len(buf) - 1 : ~(buf[k] < t /\ t < buf[k + 1])

DInv ==
    /\ TypeOK /\ GoodPresent /\ NoGap /\ ReceivedBelow
    /\ Seeked /\ InOrder /\ Covered

LEMMA SlotsFacts ==
    /\ Dots \cap Entries = {} /\ Entries \subseteq Slots /\ Dots \subseteq Slots
    /\ Slots \subseteq Offsets /\ Offsets \subseteq Nat
BY SizeAssumption DEF Dots, Entries, Slots, Offsets

LEMMA InitDInv == Init => DInv
<1> SUFFICES ASSUME Init PROVE DInv
  OBVIOUS
<1>1. TypeOK
  <2>1. <<>> \in Seq(Slots) /\ <<>> \in Seq(Entries)
    BY EmptySeq
  <2>2. present \in [Entries -> BOOLEAN] /\ pos \in Offsets /\ cookie \in Offsets
    BY DEF Init
  <2>. QED
    BY <2>1, <2>2 DEF Init, TypeOK
<1>2. GoodPresent /\ NoGap /\ ReceivedBelow
  BY SlotsFacts DEF Init, GoodPresent, NoGap, ReceivedBelow, Good, Entries
<1>3. Seeked /\ InOrder /\ Covered
  BY DEF Init, Seeked, InOrder, Covered
<1>. QED
  BY <1>1, <1>2, <1>3 DEF DInv


\* The handler replies to the kernel.  A reply with entries moves the
\* cookie to the last of them, and all the good entries up to it are in it.
LEMMA ReplyStep ==
    ASSUME DInv, rpc = "entries", NEW ok \in BOOLEAN, ReplyToKernel(ok)
    PROVE  DInv'
<1>. USE DEF DInv
<1>1. (Seeked /\ InOrder /\ Covered)'
  BY DEF ReplyToKernel, Seeked, InOrder, Covered
<1>2. GoodPresent'
  BY DEF ReplyToKernel, GoodPresent, Good
<1>3. <<>> \in Seq(Slots)
  BY EmptySeq
<1>4. CASE ~ok \/ stored = <<>>
  <2>1. UNCHANGED <<cookie, received>> /\ status' \in {"reading", "done", "failed"}
    BY <1>4 DEF ReplyToKernel
  <2>2. TypeOK'
    BY <1>3, <2>1 DEF ReplyToKernel, TypeOK
  <2>3. (NoGap /\ ReceivedBelow)'
    BY <2>1 DEF ReplyToKernel, NoGap, ReceivedBelow, Good
  <2>. QED
    BY <1>1, <1>2, <2>2, <2>3
<1>5. CASE ok /\ stored # <<>>
  <2>1. /\ received' = received \cup ToSet(stored)
        /\ cookie' = stored[Len(stored)]
        /\ UNCHANGED <<status, listed0, removed>>
    BY <1>5 DEF ReplyToKernel, Last
  <2>2. Len(stored) \in 1 .. Len(stored) /\ Len(stored) \in Nat
    BY <1>5, EmptySeq DEF TypeOK
  <2>3. /\ stored[Len(stored)] \in Entries
        /\ \A i \in 1 .. Len(stored) : stored[i] \in Entries
    BY <2>2, ElementOfSeq DEF TypeOK
  <2>4. /\ stored[Len(stored)] > cookie
        /\ \A i \in 1 .. Len(stored) : stored[i] <= stored[Len(stored)]
    BY <2>2, <2>3 DEF InOrder, Ascending
  <2>5. TypeOK'
    <3>1. cookie' \in Offsets
      BY <2>1, <2>3 DEF Entries, Offsets
    <3>2. received' \subseteq Entries
      BY <2>1, <2>3 DEF TypeOK, ToSet
    <3>3. UNCHANGED <<present, pos, locked, touched, stored, listed0, removed>>
            /\ rpc' = "idle" /\ buf' = <<>>
      BY DEF ReplyToKernel
    <3>. QED
      BY <1>3, <2>1, <3>1, <3>2, <3>3 DEF TypeOK
  <2>6. ReceivedBelow'
    <3>1. \A s \in received : s <= stored[Len(stored)]
      BY <2>3, <2>4 DEF ReceivedBelow, TypeOK
    <3>2. \A s \in ToSet(stored) : s <= stored[Len(stored)]
      BY <2>4 DEF ToSet
    <3>. QED
      BY <2>1, <3>1, <3>2 DEF ReceivedBelow
  <2>7. NoGap'
    <3> SUFFICES ASSUME NEW s \in Good, s <= stored[Len(stored)]
                 PROVE  s \in received \cup ToSet(stored)
      BY <2>1 DEF NoGap, Good
    <3>1. CASE s <= cookie
      BY <3>1 DEF NoGap, Good
    <3>2. CASE cookie < s
      BY <3>2, <2>2 DEF Covered
    <3>. QED
      BY <3>1, <3>2 DEF TypeOK, Good
  <2>. QED
    BY <1>1, <1>2, <2>5, <2>6, <2>7
<1>. QED
  BY <1>4, <1>5


(***************************************************************************)
(* The first record of the buffer is consumed: a dot is skipped, a live    *)
(* entry is stored in the reply.                                           *)
(***************************************************************************)
Consume(into) ==
    /\ rpc = "entries" /\ buf # <<>>
    /\ buf' = Tail(buf)
    /\ stored' = IF into THEN Append(stored, Head(buf)) ELSE stored
    /\ (into => Head(buf) \in Entries) /\ (~into => Head(buf) \in Dots)
    /\ touched' = TRUE
    /\ UNCHANGED <<present, pos, locked, rpc, cookie, received, status,
                   listed0, removed>>

\* The record order after the first record is consumed.
LEMMA ConsumeFacts ==
    ASSUME TypeOK, NEW into \in BOOLEAN, Consume(into)
    PROVE  /\ Len(buf) \in Nat \ {0} /\ Len(stored) \in Nat
           /\ buf' \in Seq(Slots) /\ stored' \in Seq(Entries)
           /\ Len(buf') = Len(buf) - 1
           /\ \A k \in 1 .. Len(buf') : buf'[k] = buf[k + 1]
           /\ Head(buf) = buf[1] /\ buf[1] \in Slots
           /\ Len(stored') = IF into THEN Len(stored) + 1 ELSE Len(stored)
           /\ \A i \in 1 .. Len(stored) : stored'[i] = stored[i]
           /\ into => stored'[Len(stored) + 1] = buf[1]
           /\ ToSet(stored') = IF into THEN ToSet(stored) \cup {buf[1]}
                                        ELSE ToSet(stored)
<1>1. Len(buf) \in Nat \ {0} /\ Len(stored) \in Nat
  BY EmptySeq, LenProperties DEF Consume, TypeOK
<1>2. /\ buf' \in Seq(Slots) /\ Len(buf') = Len(buf) - 1
      /\ \A k \in 1 .. Len(buf') : buf'[k] = buf[k + 1]
      /\ Head(buf) \in Slots
  BY HeadTailProperties DEF Consume, TypeOK
<1>3. Head(buf) = buf[1]
  BY DEF Consume
<1>4. CASE into
  <2>1. Head(buf) \in Entries
    BY <1>4 DEF Consume
  <2>2. /\ stored' \in Seq(Entries) /\ Len(stored') = Len(stored) + 1
        /\ \A i \in 1 .. Len(stored) : stored'[i] = stored[i]
        /\ stored'[Len(stored) + 1] = buf[1]
    BY <1>3, <1>4, <2>1, AppendProperties DEF Consume, TypeOK
  <2>3. ToSet(stored') = ToSet(stored) \cup {buf[1]}
    <3>1. \A k \in 1 .. Len(stored') : stored'[k] \in ToSet(stored) \cup {buf[1]}
      BY <1>1, <2>2 DEF ToSet
    <3>2. \A k \in 1 .. Len(stored) : stored[k] \in ToSet(stored')
      <4> SUFFICES ASSUME NEW k \in 1 .. Len(stored) PROVE stored[k] \in ToSet(stored')
        OBVIOUS
      <4>1. k \in 1 .. Len(stored') /\ stored'[k] = stored[k]
        BY <1>1, <2>2
      <4>. QED
        BY <4>1 DEF ToSet
    <3>3. buf[1] \in ToSet(stored')
      <4>1. Len(stored) + 1 \in 1 .. Len(stored')
        BY <1>1, <2>2
      <4>. QED
        BY <4>1, <2>2 DEF ToSet
    <3>. QED
      BY <3>1, <3>2, <3>3 DEF ToSet
  <2>. QED
    BY <1>1, <1>2, <1>3, <1>4, <2>2, <2>3
<1>5. CASE ~into
  BY <1>1, <1>2, <1>3, <1>5 DEF Consume, TypeOK
<1>. QED
  BY <1>4, <1>5


\* Consuming the first record keeps the reply and the buffer in order and
\* keeps every good entry before the new first record in the reply.
LEMMA ConsumeStep ==
    ASSUME DInv, NEW into \in BOOLEAN, Consume(into)
    PROVE  DInv'
<1>. USE DEF DInv
<1>1. /\ Len(buf) \in Nat \ {0} /\ Len(stored) \in Nat
      /\ buf' \in Seq(Slots) /\ stored' \in Seq(Entries)
      /\ Len(buf') = Len(buf) - 1
      /\ \A k \in 1 .. Len(buf') : buf'[k] = buf[k + 1]
      /\ Head(buf) = buf[1] /\ buf[1] \in Slots
      /\ Len(stored') = IF into THEN Len(stored) + 1 ELSE Len(stored)
      /\ \A i \in 1 .. Len(stored) : stored'[i] = stored[i]
      /\ into => stored'[Len(stored) + 1] = buf[1]
      /\ ToSet(stored') = IF into THEN ToSet(stored) \cup {buf[1]} ELSE ToSet(stored)
  BY ConsumeFacts
<1>2. rpc = "entries" /\ rpc' = "entries"
  BY DEF Consume
<1>3. /\ Ascending(stored) /\ Ascending(buf)
      /\ \A i \in 1 .. Len(stored) : stored[i] > cookie
      /\ \A k \in 1 .. Len(buf) : buf[k] > cookie
      /\ \A i \in 1 .. Len(stored), k \in 1 .. Len(buf) : stored[i] < buf[k]
  BY <1>2 DEF InOrder
<1>4. /\ \A t \in Good, i \in 1 .. Len(stored) :
           cookie < t /\ t <= stored[i] => t \in ToSet(stored)
      /\ \A t \in Good : cookie < t /\ t < buf[1] => t \in ToSet(stored)
      /\ \A t \in Good, k \in 1 .. Len(buf) - 1 : ~(buf[k] < t /\ t < buf[k + 1])
  BY <1>2 DEF Covered, Consume
<1>5. /\ \A k \in 1 .. Len(buf) : buf[k] \in Slots
      /\ \A i \in 1 .. Len(stored) : stored[i] \in Entries
      /\ Good \subseteq Entries /\ cookie \in Nat
  BY ElementOfSeq DEF TypeOK, Good
<1>6. Good' = Good /\ ToSet(stored) \subseteq ToSet(stored')
  BY <1>1 DEF Consume, Good
<1>7. TypeOK'
  BY <1>1 DEF Consume, TypeOK
<1>8. (GoodPresent /\ NoGap /\ ReceivedBelow /\ Seeked)'
  BY <1>2 DEF Consume, GoodPresent, NoGap, ReceivedBelow, Seeked, Good
<1>9. InOrder'
  <2>1. Ascending(buf')
    <3> SUFFICES ASSUME NEW k \in 1 .. Len(buf'), NEW l \in 1 .. Len(buf'), k < l
                 PROVE  buf'[k] < buf'[l]
      BY DEF Ascending
    <3>1. buf'[k] = buf[k + 1] /\ buf'[l] = buf[l + 1]
      BY <1>1
    <3>2. k + 1 \in 1 .. Len(buf) /\ l + 1 \in 1 .. Len(buf) /\ k + 1 < l + 1
      BY <1>1
    <3>. QED
      BY <3>1, <3>2, <1>3 DEF Ascending
  <2>2. \A k \in 1 .. Len(buf') : buf'[k] > cookie'
    BY <1>1, <1>3 DEF Consume
  <2>3. \A i \in 1 .. Len(stored'), k \in 1 .. Len(buf') : stored'[i] < buf'[k]
    <3> SUFFICES ASSUME NEW i \in 1 .. Len(stored'), NEW k \in 1 .. Len(buf')
                 PROVE  stored'[i] < buf'[k]
      OBVIOUS
    <3>1. buf'[k] = buf[k + 1] /\ k + 1 \in 1 .. Len(buf) /\ 1 < k + 1
      BY <1>1
    <3>2. CASE i \in 1 .. Len(stored)
      BY <3>1, <3>2, <1>1, <1>3
    <3>3. CASE i = Len(stored) + 1
      <4>1. into /\ stored'[i] = buf[1]
        BY <3>3, <1>1
      <4>2. buf[1] < buf[k + 1]
        <5>1. \A x, y \in 1 .. Len(buf) : x < y => buf[x] < buf[y]
          BY <1>3 DEF Ascending
        <5>2. 1 \in 1 .. Len(buf)
          BY <1>1
        <5>. QED
          BY <5>1, <5>2, <3>1
      <4>. QED
        BY <3>1, <4>1, <4>2
    <3>. QED
      BY <3>2, <3>3, <1>1
  <2>4. \A i \in 1 .. Len(stored') : stored'[i] > cookie'
    BY <1>1, <1>3 DEF Consume
  <2>5. Ascending(stored')
    <3> SUFFICES ASSUME NEW k \in 1 .. Len(stored'), NEW l \in 1 .. Len(stored'),
                        k < l
                 PROVE  stored'[k] < stored'[l]
      BY DEF Ascending
    <3>1. k \in 1 .. Len(stored) /\ stored'[k] = stored[k]
      <4>1. Len(stored') <= Len(stored) + 1 /\ Len(stored) \in Nat
        BY <1>1
      <4>2. k \in 1 .. Len(stored)
        BY <4>1
      <4>. QED
        BY <4>2, <1>1
    <3>2. CASE l \in 1 .. Len(stored)
      BY <3>1, <3>2, <1>1, <1>3 DEF Ascending
    <3>3. CASE l = Len(stored) + 1
      <4>1. into /\ stored'[l] = buf[1]
        BY <3>3, <1>1
      <4>2. 1 \in 1 .. Len(buf)
        BY <1>1
      <4>. QED
        BY <3>1, <4>1, <4>2, <1>3
    <3>. QED
      BY <3>2, <3>3, <1>1
  <2>. QED
    BY <1>2, <2>1, <2>2, <2>3, <2>4, <2>5 DEF InOrder
<1>10. Covered'
  <2>1. \A t \in Good, i \in 1 .. Len(stored') :
           cookie < t /\ t <= stored'[i] => t \in ToSet(stored')
    <3> SUFFICES ASSUME NEW t \in Good, NEW i \in 1 .. Len(stored'),
                        cookie < t, t <= stored'[i]
                 PROVE  t \in ToSet(stored')
      OBVIOUS
    <3>1. CASE i \in 1 .. Len(stored)
      BY <3>1, <1>1, <1>4, <1>6
    <3>2. CASE i = Len(stored) + 1
      <4>1. into /\ stored'[i] = buf[1]
        BY <3>2, <1>1
      <4>. QED
        BY <4>1, <1>1, <1>4, <1>5, <1>6
    <3>. QED
      BY <3>1, <3>2, <1>1
  <2>2. buf' # <<>> =>
          \A t \in Good : cookie < t /\ t < buf'[1] => t \in ToSet(stored')
    <3> SUFFICES ASSUME buf' # <<>>, NEW t \in Good, cookie < t, t < buf'[1]
                 PROVE  t \in ToSet(stored')
      OBVIOUS
    <3>1. Len(buf) >= 2 /\ buf'[1] = buf[2] /\ 1 \in 1 .. Len(buf) - 1
      BY <1>1
    <3>2. CASE t < buf[1]
      BY <3>2, <1>4, <1>6
    <3>3. CASE t = buf[1]
      <4>1. into
        BY <3>3, <1>5, ConsumeFacts DEF Consume, Dots
      <4>. QED
        BY <3>3, <4>1, <1>1
    <3>4. CASE buf[1] < t
      BY <3>1, <3>4, <1>4
    <3>. QED
      BY <3>2, <3>3, <3>4, <1>1, <1>5
  <2>3. \A t \in Good, k \in 1 .. Len(buf') - 1 : ~(buf'[k] < t /\ t < buf'[k + 1])
    <3> SUFFICES ASSUME NEW t \in Good, NEW k \in 1 .. Len(buf') - 1
                 PROVE  ~(buf'[k] < t /\ t < buf'[k + 1])
      OBVIOUS
    <3>1. buf'[k] = buf[k + 1] /\ buf'[k + 1] = buf[k + 2]
      <4>1. Len(buf') = Len(buf) - 1 /\ Len(buf) \in Nat
            /\ \A x \in 1 .. Len(buf') : buf'[x] = buf[x + 1]
        BY <1>1
      <4>2. k \in 1 .. Len(buf') /\ k + 1 \in 1 .. Len(buf')
        BY <4>1
      <4>. QED
        BY <4>1, <4>2
    <3>2. k + 1 \in 1 .. Len(buf) - 1
      BY <1>1
    <3>. QED
      BY <3>1, <3>2, <1>4
  <2>. QED
    BY <1>2, <1>6, <2>1, <2>2, <2>3 DEF Covered, Consume
<1>. QED
  BY <1>7, <1>8, <1>9, <1>10


\* readdir takes the position lock and seeks to the cookie.
LEMMA SeekStep ==
    ASSUME DInv, readdir_seek
    PROVE  DInv'
<1>1. <<>> \in Seq(Entries)
  BY EmptySeq
<1>. QED
  BY <1>1 DEF readdir_seek, DInv, TypeOK, GoodPresent, NoGap, ReceivedBelow,
              Seeked, InOrder, Covered, Good, clientVars

\* getdents64 from the cookie fills the buffer and the lock is dropped.
LEMMA GetdentsStep ==
    ASSUME DInv, readdir_getdents
    PROVE  DInv'
<1>. USE DEF DInv
<1>1. rpc = "getdents" /\ pos = cookie /\ stored = <<>> /\ rpc' = "entries"
  BY DEF readdir_getdents, Seeked
<1>2. /\ buf' \in Seq(Slots)
      /\ Ascending(buf')
      /\ \A k \in 1 .. Len(buf') : buf'[k] \in After(cookie)
      /\ \A t \in After(cookie) : buf' # <<>> => buf'[1] <= t
      /\ \A t \in After(cookie), k \in 1 .. Len(buf') - 1 :
            ~(buf'[k] < t /\ t < buf'[k + 1])
  BY <1>1, GetDentsShape DEF readdir_getdents
<1>3. Good \subseteq After(cookie) \cup {t \in Entries : t <= cookie}
  BY DEF GoodPresent, Good, After, TypeOK
<1>4. UNCHANGED <<present, touched, stored, cookie, received, status,
                  listed0, removed>>
  BY DEF readdir_getdents, clientVars
<1>5. Len(stored') = 0 /\ Len(buf') \in Nat
  BY <1>1, <1>2, <1>4, EmptySeq, LenProperties
<1>6. TypeOK'
  <2>1. buf' # <<>> => Last(buf') \in Slots
    BY <1>2, <1>5, EmptySeq, ElementOfSeq DEF Last
  <2>2. pos' \in Offsets
    BY <2>1 DEF readdir_getdents, TypeOK
  <2>3. locked' \in BOOLEAN /\ rpc' \in {"idle", "getdents", "entries"}
    BY DEF readdir_getdents
  <2>. QED
    BY <1>2, <1>4, <2>2, <2>3 DEF TypeOK
<1>7. (GoodPresent /\ NoGap /\ ReceivedBelow /\ Seeked)'
  BY <1>1, <1>4 DEF GoodPresent, NoGap, ReceivedBelow, Seeked, Good
<1>8. InOrder'
  <2>1. Ascending(stored')
    BY <1>5 DEF Ascending
  <2>2. \A k \in 1 .. Len(buf') : buf'[k] > cookie'
    BY <1>2, <1>4 DEF After
  <2>. QED
    BY <1>1, <1>2, <1>5, <2>1, <2>2 DEF InOrder
<1>9. Covered'
  <2>1. buf' # <<>> =>
          \A t \in Good : cookie < t /\ t < buf'[1] => t \in ToSet(stored')
    <3> SUFFICES ASSUME buf' # <<>>, NEW t \in Good, cookie < t, t < buf'[1]
                 PROVE  FALSE
      OBVIOUS
    <3>1. t \in After(cookie)
      BY <1>3 DEF TypeOK
    <3>2. buf'[1] \in Slots
      BY <1>2, <1>5, EmptySeq, ElementOfSeq
    <3>3. t \in Int /\ buf'[1] \in Int
      BY <3>1, <3>2 DEF After
    <3>. QED
      BY <1>2, <3>1, <3>3
  <2>2. \A t \in Good, k \in 1 .. Len(buf') - 1 : ~(buf'[k] < t /\ t < buf'[k + 1])
    <3> SUFFICES ASSUME NEW t \in Good, NEW k \in 1 .. Len(buf') - 1,
                        buf'[k] < t, t < buf'[k + 1]
                 PROVE  FALSE
      OBVIOUS
    <3>1. buf'[k] \in After(cookie)
      BY <1>2, <1>5
    <3>2. t \in After(cookie)
      BY <3>1, <1>3 DEF After, TypeOK
    <3>. QED
      BY <1>2, <3>2
  <2>. QED
    BY <1>1, <1>4, <1>5, <2>1, <2>2 DEF Covered, Good
<1>. QED
  BY <1>6, <1>7, <1>8, <1>9


\* One record of the buffer: skipped, stored, or the call replies.
LEMMA EntryStep ==
    ASSUME DInv, readdir_entry
    PROVE  DInv'
<1>1. rpc = "entries" /\ buf # <<>> /\ touched \in BOOLEAN
  BY DEF readdir_entry, DInv, TypeOK
<1>. DEFINE h == Head(buf)
<1>2. CASE h \in Dots /\ Skip /\ UNCHANGED stored
  <2>1. Consume(FALSE)
    BY <1>1, <1>2 DEF Skip, Consume, clientVars
  <2>. QED
    BY <2>1, ConsumeStep
<1>3. CASE /\ h \in Entries /\ present[h] /\ Len(stored) < Cap
           /\ stored' = Append(stored, h) /\ Skip
  <2>1. Consume(TRUE)
    BY <1>1, <1>3 DEF Skip, Consume, clientVars
  <2>. QED
    BY <2>1, ConsumeStep
<1>4. CASE ReplyToKernel(TRUE) \/ ReplyToKernel(touched)
  BY <1>1, <1>4, ReplyStep
<1>. QED
  BY <1>2, <1>3, <1>4 DEF readdir_entry

\* The buffer is exhausted and the call replies.
LEMMA DoneStep ==
    ASSUME DInv, readdir_done
    PROVE  DInv'
BY ReplyStep DEF readdir_done

\* lseek cannot run while a readdir holds the position lock.
LEMMA LseekStep ==
    ASSUME DInv, NEW off \in Offsets, lseek(off)
    PROVE  DInv'
<1>1. rpc # "getdents"
  BY DEF lseek, DInv, Seeked
<1>. QED
  BY <1>1 DEF lseek, DInv, TypeOK, GoodPresent, NoGap, ReceivedBelow, Seeked,
              InOrder, Covered, Good, clientVars

\* An unlinked entry is no longer good: the listing need not deliver it.
LEMMA UnlinkStep ==
    ASSUME DInv, NEW e \in Entries, unlink(e)
    PROVE  DInv'
<1>1. Good' = Good \ {e} /\ UNCHANGED <<cookie, received, stored, buf, rpc>>
  BY DEF unlink, Good, handlerVars
<1>2. TypeOK'
  BY DEF unlink, DInv, TypeOK, handlerVars
<1>3. GoodPresent'
  BY <1>1 DEF unlink, DInv, GoodPresent, TypeOK
<1>4. (NoGap /\ ReceivedBelow /\ Seeked /\ InOrder /\ Covered)'
  BY <1>1 DEF unlink, DInv, NoGap, ReceivedBelow, Seeked, InOrder, Covered,
              Good, handlerVars
<1>. QED
  BY <1>2, <1>3, <1>4 DEF DInv

\* The client starts a new listing with what the directory holds now.
LEMMA RewindStep ==
    ASSUME DInv, rewind
    PROVE  DInv'
<1>1. TypeOK'
  BY DEF rewind, DInv, TypeOK, handlerVars
<1>2. (GoodPresent /\ NoGap /\ ReceivedBelow /\ Seeked /\ InOrder /\ Covered)'
  BY DEF rewind, DInv, TypeOK, GoodPresent, NoGap, ReceivedBelow, Seeked,
         InOrder, Covered, Good, handlerVars
<1>. QED
  BY <1>1, <1>2 DEF DInv

\* Every step keeps the invariant.
LEMMA NextDInv == DInv /\ [Next]_vars => DInv'
<1> SUFFICES ASSUME DInv, [Next]_vars PROVE DInv'
  OBVIOUS
<1>1. CASE UNCHANGED vars
  BY <1>1 DEF vars, handlerVars, clientVars, DInv, TypeOK, GoodPresent, NoGap,
              ReceivedBelow, Seeked, InOrder, Covered, Good
<1>. QED
  BY <1>1, SeekStep, GetdentsStep, EntryStep, DoneStep, LseekStep, UnlinkStep,
     RewindStep DEF Next


\* Only a call past getdents64 returns to idle.
LEMMA ReplyFromEntries ==
    ASSUME DInv, [Next]_vars, rpc # "idle", rpc' = "idle"
    PROVE  rpc = "entries"
<1>1. rpc \in {"getdents", "entries"}
  BY DEF DInv, TypeOK
<1>. QED
  BY <1>1 DEF Next, vars, handlerVars, readdir_seek, readdir_getdents,
              readdir_entry, readdir_done, Skip, ReplyToKernel, lseek, unlink, rewind

-----------------------------------------------------------------------------
(***************************************************************************)
(* The listing is well typed for every size of the directory, of the       *)
(* getdents64 buffer and of the reply: in particular the kernel position   *)
(* and the cookie stay offsets of the directory, whatever lseek, unlink    *)
(* and the readdir calls interleave.                                       *)
(***************************************************************************)
THEOREM ListingTypeCorrect == Spec => []TypeOK
<1>1. DInv => TypeOK
  BY DEF DInv
<1>. QED
  BY InitDInv, NextDInv, <1>1, PTL DEF Spec

(***************************************************************************)
(* No entry is skipped, for every directory size, getdents64 chunk and     *)
(* reply capacity: every entry before the client's cookie that stayed in   *)
(* the directory for the whole listing has been given to it, with unlinks  *)
(* and lseek on the handle interleaved anywhere.  The argument is the      *)
(* inductive invariant DInv: do_readdir reads from the cookie under the    *)
(* position lock, getdents64 skips no live record, and records are stored  *)
(* in order until the reply ends at its last entry.                        *)
(***************************************************************************)
THEOREM NoGapHolds == Spec => []NoGap
<1>1. DInv => NoGap
  BY DEF DInv
<1>. QED
  BY InitDInv, NextDInv, <1>1, PTL DEF Spec

(***************************************************************************)
(* Every reply of readdir moves forward, for every bound: the entries it   *)
(* delivers lie after the cookie it was asked for, in directory order,     *)
(* and none had been delivered before.                                     *)
(***************************************************************************)
THEOREM RepliesAdvance == Spec => ReplyAdvances
<1>1. DInv /\ [Next]_vars =>
        [rpc # "idle" /\ rpc' = "idle" /\ stored # <<>> /\ status' = "reading" =>
            /\ \A i \in 1 .. Len(stored) : stored[i] > cookie /\ stored[i] \notin received
            /\ Ascending(stored)]_vars
  <2> SUFFICES ASSUME DInv, [Next]_vars, rpc # "idle", rpc' = "idle"
               PROVE  /\ \A i \in 1 .. Len(stored) :
                            stored[i] > cookie /\ stored[i] \notin received
                      /\ Ascending(stored)
    OBVIOUS
  <2>1. rpc = "entries"
    BY ReplyFromEntries
  <2>2. /\ Ascending(stored)
        /\ \A i \in 1 .. Len(stored) : stored[i] > cookie
    BY <2>1 DEF DInv, InOrder
  <2>3. \A i \in 1 .. Len(stored) : stored[i] \notin received
    <3>1. \A i \in 1 .. Len(stored) : stored[i] \in Entries
      BY ElementOfSeq DEF DInv, TypeOK
    <3>. QED
      BY <2>2, <3>1 DEF DInv, ReceivedBelow, TypeOK
  <2>. QED
    BY <2>2, <2>3
<1>. QED
  BY InitDInv, NextDInv, <1>1, PTL DEF Spec, ReplyAdvances

=============================================================================
