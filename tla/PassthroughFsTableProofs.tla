----------------------- MODULE PassthroughFsTableProofs -----------------------
(***************************************************************************)
(* Proofs of the identity invariants of PassthroughFs for every value of   *)
(* the constants: one host object has at most one live inode (UniqueInode) *)
(* and every handle the client holds is in the handle map, bound to a live *)
(* inode (OpenHandlesValid).  They rest on the invariant IInv proved in    *)
(* PassthroughFsProofs (types, fresh inode ids unused, RefcountSound).     *)
(***************************************************************************)
EXTENDS PassthroughFsProofs

USE DEF Inodes, HandleIds, Files, Kinds, NoKind, PCs,
        fsVars, tableVars, clientVars, workerVars

-----------------------------------------------------------------------------
(***************************************************************************)
(* UniqueInode is inductive by itself: only do_lookup puts an object into  *)
(* the inode map, and only after finding no inode of that object; every    *)
(* other change to the map (forget_one, batch_forget, destroy) removes     *)
(* records.  A step either does one do_lookup or only removes records.     *)
(***************************************************************************)
ObjShrinks == \A i \in Inodes : obj'[i] = obj[i] \/ obj'[i] = NoObject

LookupOrShrink == ObjShrinks \/ \E o : \E i \in Inodes : do_lookup(o, i)

\* do_lookup keeps one inode per object.
LEMMA UniqueLookup ==
    ASSUME TypeOK, UniqueInode, NEW o, NEW i \in Inodes, do_lookup(o, i)
    PROVE  UniqueInode'
<1>1. CASE obj[i] = o /\ refcount[i] < MaxRef
           /\ refcount' = [refcount EXCEPT ![i] = @ + 1]
           /\ UNCHANGED <<obj, nextInode>>
  BY <1>1 DEF UniqueInode, Present
<1>2. CASE /\ \A j \in Inodes : obj[j] # o
           /\ i = nextInode
           /\ obj' = [obj EXCEPT ![i] = o]
  BY <1>2 DEF UniqueInode, Present, TypeOK
<1>. QED
  BY <1>1, <1>2 DEF do_lookup

\* Removing records keeps one inode per object.
LEMMA UniqueShrink ==
    ASSUME UniqueInode, ObjShrinks
    PROVE  UniqueInode'
BY DEF UniqueInode, Present, ObjShrinks

\* forget_one removes at most the record it forgets.
LEMMA ForgetOneShrinks ==
    ASSUME TypeOK, NEW i \in Inodes, NEW c, forget_one(i, c)
    PROVE  ObjShrinks
BY DEF forget_one, ObjShrinks, TypeOK

\* Every step of the model does one do_lookup or only removes records.
LEMMA ObjStep == TypeInv /\ [Next]_vars => LookupOrShrink
<1> SUFFICES ASSUME TypeInv, [Next]_vars PROVE LookupOrShrink
  OBVIOUS
<1>0. TypeOK
  BY DEF TypeInv
<1>. DEFINE Kept == UNCHANGED obj
<1>1. Kept => LookupOrShrink
  BY DEF LookupOrShrink, ObjShrinks
<1>2. CASE ClientOps
  <2>1. CASE init \/ destroy
    BY <2>1, <1>1 DEF init, destroy, LookupOrShrink, ObjShrinks
  <2>2. ASSUME NEW n \in Names,
               lookup(n) \/ mkdir(n) \/ symlink(n) \/ unlink(n) \/ rmdir(n)
        PROVE LookupOrShrink
    <3>1. CASE lookup(n)
      BY <3>1 DEF lookup, LookupOrShrink
    <3>2. CASE mkdir(n) \/ symlink(n)
      BY <3>2 DEF mkdir, symlink, make_node, LookupOrShrink
    <3>3. CASE unlink(n) \/ rmdir(n)
      BY <3>3, <1>1 DEF unlink, rmdir
    <3>. QED
      BY <2>2, <3>1, <3>2, <3>3
  <2>3. ASSUME NEW n \in Names, NEW k, mknod(n, k) PROVE LookupOrShrink
    BY <2>3 DEF mknod, make_node, LookupOrShrink
  <2>4. ASSUME NEW n1 \in Names, NEW n2 \in Names, NEW f, rename(n1, n2, f)
        PROVE LookupOrShrink
    BY <2>4, <1>1 DEF rename
  <2>5. ASSUME NEW i \in Inodes, NEW n \in Names, link(i, n) PROVE LookupOrShrink
    BY <2>5 DEF link, LookupOrShrink
  <2>6. ASSUME NEW i \in Inodes, open(i) \/ opendir(i) PROVE LookupOrShrink
    BY <2>6, <1>1 DEF open, opendir, do_open
  <2>7. ASSUME NEW f \in kfiles, release(f) \/ releasedir(f) PROVE LookupOrShrink
    BY <2>7, <1>1 DEF release, releasedir, do_release
  <2>8. ASSUME NEW i \in Inodes, NEW c \in 1 .. MaxRef, forget(i, c)
        PROVE LookupOrShrink
    BY <2>8, <1>0, ForgetOneShrinks DEF forget, LookupOrShrink
  <2>9. ASSUME NEW S \in SUBSET Inodes, NEW cnt \in [S -> 1 .. MaxRef],
               batch_forget(S, cnt)
        PROVE LookupOrShrink
    BY <2>9 DEF batch_forget, LookupOrShrink, ObjShrinks
  <2>. QED
    BY <2>1, <2>2, <2>3, <2>4, <2>5, <2>6, <2>7, <2>8, <2>9, <1>2 DEF ClientOps
<1>3. ASSUME NEW w \in Workers, WorkerSteps(w) PROVE LookupOrShrink
  <2>1. ASSUME NEW n \in Names,
               readdir_lookup(w, n) \/ readdirplus_lookup(w, n) \/ create_excl(w, n)
        PROVE LookupOrShrink
    BY <2>1, <1>1 DEF readdir_lookup, readdirplus_lookup, create_excl, LookupOrShrink
  <2>2. CASE readdir_forget(w)
    <3>1. wino[w] \in Inodes
      BY <2>2 DEF readdir_forget, TypeInv, WorkersConsistent, Holds
    <3>. QED
      BY <2>2, <3>1, <1>0, ForgetOneShrinks DEF readdir_forget, LookupOrShrink
  <2>3. ASSUME NEW r \in SinkResults, readdirplus_sink(w, r) PROVE LookupOrShrink
    <3>1. wino[w] \in Inodes
      BY <2>3 DEF readdirplus_sink, TypeInv, WorkersConsistent, Holds
    <3>2. CASE r = "full"
      BY <2>3, <3>1, <3>2, <1>0, ForgetOneShrinks DEF readdirplus_sink, LookupOrShrink
    <3>3. CASE r # "full"
      BY <2>3, <3>3, <1>1 DEF readdirplus_sink
    <3>. QED
      BY <3>2, <3>3
  <2>4. CASE create_lookup(w)
    BY <2>4, <1>1 DEF create_lookup, LookupOrShrink
  <2>5. CASE create_open(w) \/ create_reply(w)
    BY <2>5, <1>1 DEF create_open, create_reply
  <2>. QED
    BY <1>3, <2>1, <2>2, <2>3, <2>4, <2>5 DEF WorkerSteps
<1>4. CASE UNCHANGED vars
  BY <1>4, <1>1 DEF vars
<1>. QED
  BY <1>2, <1>3, <1>4 DEF Next

(***************************************************************************)
(* One host object has at most one live inode, in every reachable state:   *)
(* however lookup, link, mkdir, readdir, readdirplus and create interleave *)
(* with forget, batch_forget and destroy, do_lookup finds the live inode   *)
(* of an object through its (dev, ino) alias and never mints a second one. *)
(***************************************************************************)
THEOREM UniqueInodeHolds == Spec => []UniqueInode
<1>1. Init => TypeInv /\ UniqueInode
  BY InitTypeInv DEF Init, UniqueInode, Present
<1>2. TypeInv /\ UniqueInode /\ [Next]_vars => (TypeInv /\ UniqueInode)'
  <2> SUFFICES ASSUME TypeInv, UniqueInode, [Next]_vars
               PROVE  (TypeInv /\ UniqueInode)'
    OBVIOUS
  <2>1. TypeInv'
    BY TypeInvStep
  <2>2. LookupOrShrink
    BY ObjStep
  <2>3. UniqueInode'
    BY <2>2, UniqueLookup, UniqueShrink DEF LookupOrShrink, TypeInv
  <2>. QED
    BY <2>1, <2>3
<1>. QED
  BY <1>1, <1>2, PTL DEF Spec

-----------------------------------------------------------------------------
(***************************************************************************)
(* OpenHandlesValid is not inductive as it stands: open and create insert  *)
(* at next_handle, which must be free of the client's handles; release     *)
(* clears the entry of its own handle id, which no other open file may     *)
(* share; and forget must leave the inode of an open file live.  HInv adds *)
(* what makes it so: the client's handle ids are below the allocator and   *)
(* distinct, and the client holds a lookup of every inode it has open, so  *)
(* RefcountSound keeps that inode in the map.                              *)
(***************************************************************************)
HandlesFresh == \A f \in kfiles : f.fh < nextHandle

HandlesDistinct == \A f, g \in kfiles : f.fh = g.fh => f = g

OpenLookedUp == \A f \in kfiles : kref[f.ino] > 0

HandlesMapped == \A f \in kfiles : hmap[f.fh] = f.ino

HInv == HandlesFresh /\ HandlesDistinct /\ OpenLookedUp /\ HandlesMapped

\* The step keeps every positive lookup count of the client positive.
KrefKept == \A x \in Inodes : kref[x] > 0 => kref'[x] > 0

\* A reply adds one lookup.
LEMMA ReplyKept ==
    ASSUME TypeOK, NEW i \in Inodes, Reply(i)
    PROVE  KrefKept /\ kref'[i] > 0
BY DEF Reply, KrefKept, TypeOK

\* A step that leaves the handles alone and keeps the client's lookups.
LEMMA HandleFrame ==
    ASSUME TypeOK, HInv, UNCHANGED <<hmap, nextHandle, kfiles>>, KrefKept
    PROVE  HInv'
BY DEF HInv, HandlesFresh, HandlesDistinct, OpenLookedUp, HandlesMapped,
       KrefKept, TypeOK

\* open and create insert a new handle at next_handle and advance it.
LEMMA HandleInsert ==
    ASSUME TypeOK, HInv, NEW i \in Inodes, NEW d \in BOOLEAN,
           nextHandle \in HandleIds,
           hmap' = [hmap EXCEPT ![nextHandle] = i],
           kfiles' = kfiles \cup {[fh |-> nextHandle, ino |-> i, dir |-> d]},
           nextHandle' = nextHandle + 1,
           KrefKept, kref'[i] > 0
    PROVE  HInv'
<1>. DEFINE nf == [fh |-> nextHandle, ino |-> i, dir |-> d]
<1>1. \A f \in kfiles : f.fh # nextHandle
  BY DEF HInv, HandlesFresh, TypeOK
<1>2. HandlesFresh'
  BY DEF HInv, HandlesFresh, TypeOK
<1>3. HandlesDistinct'
  BY <1>1 DEF HInv, HandlesDistinct
<1>4. OpenLookedUp'
  BY DEF HInv, OpenLookedUp, KrefKept, TypeOK
<1>5. HandlesMapped'
  BY <1>1 DEF HInv, HandlesMapped, TypeOK
<1>. QED
  BY <1>2, <1>3, <1>4, <1>5 DEF HInv

\* release clears only the entry of the handle released.
LEMMA HandleRelease ==
    ASSUME TypeOK, HInv, NEW f \in kfiles, do_release(f)
    PROVE  HInv'
<1>1. \A g \in kfiles' : g.fh # f.fh
  BY DEF do_release, HInv, HandlesDistinct
<1>2. HandlesMapped'
  BY <1>1 DEF do_release, HInv, HandlesMapped, TypeOK
<1>. QED
  BY <1>2 DEF do_release, HInv, HandlesFresh, HandlesDistinct, OpenLookedUp


\* The client forgets all lookups of an inode only when none of it is open.
LEMMA ForgetKeepsOpen ==
    ASSUME TypeOK, OpenLookedUp, NEW i \in Inodes, NEW c, ClientMayForget(i, c),
           kref' = [kref EXCEPT ![i] = @ - c]
    PROVE  \A f \in kfiles : kref'[f.ino] > 0
<1> SUFFICES ASSUME NEW f \in kfiles PROVE kref'[f.ino] > 0
  OBVIOUS
<1>1. CASE f.ino = i
  <2>1. f \in OpenOn(i)
    BY <1>1 DEF OpenOn
  <2>2. c \in 1 .. kref[i] /\ c # kref[i]
    BY <2>1 DEF ClientMayForget
  <2>. QED
    BY <1>1, <2>2 DEF TypeOK
<1>2. CASE f.ino # i
  BY <1>2 DEF OpenLookedUp, TypeOK
<1>. QED
  BY <1>1, <1>2

\* The same for every inode of a batch.
LEMMA BatchKeepsOpen ==
    ASSUME TypeOK, OpenLookedUp, NEW S \in SUBSET Inodes, NEW cnt,
           \A i \in S : ClientMayForget(i, cnt[i]),
           kref' = [i \in Inodes |-> IF i \in S THEN kref[i] - cnt[i] ELSE kref[i]]
    PROVE  \A f \in kfiles : kref'[f.ino] > 0
<1> SUFFICES ASSUME NEW f \in kfiles PROVE kref'[f.ino] > 0
  OBVIOUS
<1>1. CASE f.ino \in S
  <2>1. f \in OpenOn(f.ino)
    BY DEF OpenOn
  <2>2. cnt[f.ino] \in 1 .. kref[f.ino] /\ cnt[f.ino] # kref[f.ino]
    BY <1>1, <2>1 DEF ClientMayForget
  <2>. QED
    BY <1>1, <2>2 DEF TypeOK
<1>2. CASE f.ino \notin S
  BY <1>2 DEF OpenLookedUp, TypeOK
<1>. QED
  BY <1>1, <1>2

\* A step that leaves the handles alone and only lets the client forget.
LEMMA HandleForgetFrame ==
    ASSUME HInv, UNCHANGED <<hmap, nextHandle, kfiles>>,
           \A f \in kfiles : kref'[f.ino] > 0
    PROVE  HInv'
BY DEF HInv, HandlesFresh, HandlesDistinct, OpenLookedUp, HandlesMapped

\* Every step of the model keeps HInv.
LEMMA HandleStep == TypeInv /\ HInv /\ [Next]_vars => HInv'
<1> SUFFICES ASSUME TypeInv, HInv, [Next]_vars PROVE HInv'
  OBVIOUS
<1>0. TypeOK
  BY DEF TypeInv
<1>. DEFINE Frame == UNCHANGED <<hmap, nextHandle, kfiles>>
<1>1. Frame /\ UNCHANGED kref => HInv'
  <2>1. UNCHANGED kref => KrefKept
    BY DEF KrefKept
  <2>. QED
    BY <2>1, <1>0, HandleFrame
<1>2. ASSUME Frame, NEW i \in Inodes, Reply(i) PROVE HInv'
  BY <1>2, <1>0, ReplyKept, HandleFrame
<1>3. CASE ClientOps
  <2>1. CASE init
    BY <2>1, <1>1 DEF init
  <2>2. CASE destroy
    BY <2>2 DEF destroy, HInv, HandlesFresh, HandlesDistinct, OpenLookedUp,
                HandlesMapped
  <2>3. ASSUME NEW n \in Names, lookup(n) PROVE HInv'
    BY <2>3, <1>2 DEF lookup
  <2>4. ASSUME NEW n \in Names, NEW k, make_node(n, k) PROVE HInv'
    <3>1. PICK o \in FreshObjects : \E i \in Inodes : do_lookup(o, i) /\ Reply(i)
      BY <2>4 DEF make_node
    <3>. QED
      BY <2>4, <3>1, <1>2 DEF make_node
  <2>5. ASSUME NEW n \in Names, mkdir(n) \/ symlink(n) \/ unlink(n) \/ rmdir(n)
        PROVE HInv'
    <3>1. CASE mkdir(n) \/ symlink(n)
      BY <3>1, <2>4 DEF mkdir, symlink
    <3>2. CASE unlink(n) \/ rmdir(n)
      BY <3>2, <1>1 DEF unlink, rmdir
    <3>. QED
      BY <2>5, <3>1, <3>2
  <2>6. ASSUME NEW n \in Names, NEW k \in {"reg", "dev"}, mknod(n, k) PROVE HInv'
    BY <2>6, <2>4 DEF mknod
  <2>7. ASSUME NEW n1 \in Names, NEW n2 \in Names, NEW f \in RenameFlags,
               rename(n1, n2, f)
        PROVE HInv'
    BY <2>7, <1>1 DEF rename
  <2>8. ASSUME NEW i \in Inodes, NEW n \in Names, link(i, n) PROVE HInv'
    BY <2>8, <1>2 DEF link
  <2>9. ASSUME NEW i \in Inodes, NEW d \in BOOLEAN, do_open(i, d) PROVE HInv'
    <3>1. KrefKept
      BY <2>9 DEF do_open, KrefKept
    <3>. QED
      BY <2>9, <3>1, <1>0, HandleInsert DEF do_open
  <2>10. ASSUME NEW i \in Inodes, open(i) \/ opendir(i) PROVE HInv'
    BY <2>10, <2>9 DEF open, opendir
  <2>11. ASSUME NEW f \in kfiles, release(f) \/ releasedir(f) PROVE HInv'
    BY <2>11, <1>0, HandleRelease DEF release, releasedir
  <2>12. ASSUME NEW i \in Inodes, NEW c \in 1 .. MaxRef, forget(i, c) PROVE HInv'
    <3>1. \A f \in kfiles : kref'[f.ino] > 0
      BY <2>12, <1>0, ForgetKeepsOpen DEF forget, HInv
    <3>. QED
      BY <2>12, <3>1, HandleForgetFrame DEF forget
  <2>13. ASSUME NEW S \in SUBSET Inodes, NEW cnt \in [S -> 1 .. MaxRef],
                batch_forget(S, cnt)
         PROVE HInv'
    <3>1. \A f \in kfiles : kref'[f.ino] > 0
      BY <2>13, <1>0, BatchKeepsOpen DEF batch_forget, HInv
    <3>. QED
      BY <2>13, <3>1, HandleForgetFrame DEF batch_forget
  <2>. QED
    BY <1>3, <2>1, <2>2, <2>3, <2>5, <2>6, <2>7, <2>8, <2>10, <2>11, <2>12,
       <2>13 DEF ClientOps
<1>4. ASSUME NEW w \in Workers, WorkerSteps(w) PROVE HInv'
  <2>1. ASSUME NEW n \in Names,
               readdir_lookup(w, n) \/ readdirplus_lookup(w, n) \/ create_excl(w, n)
        PROVE HInv'
    BY <2>1, <1>1 DEF readdir_lookup, readdirplus_lookup, create_excl
  <2>2. CASE readdir_forget(w) \/ create_lookup(w) \/ create_open(w)
    BY <2>2, <1>1 DEF readdir_forget, create_lookup, create_open
  <2>3. ASSUME NEW r \in SinkResults, readdirplus_sink(w, r) PROVE HInv'
    <3>1. wino[w] \in Inodes
      BY <2>3 DEF readdirplus_sink, TypeInv, WorkersConsistent, Holds
    <3>2. CASE r = "ok"
      BY <2>3, <3>1, <3>2, <1>2 DEF readdirplus_sink
    <3>3. CASE r # "ok"
      BY <2>3, <3>3, <1>1 DEF readdirplus_sink
    <3>. QED
      BY <3>2, <3>3
  <2>4. CASE create_reply(w)
    <3>1. wino[w] \in Inodes
      BY <2>4 DEF create_reply, TypeInv, WorkersConsistent, Holds
    <3>2. KrefKept /\ kref'[wino[w]] > 0
      BY <2>4, <3>1, <1>0, ReplyKept DEF create_reply
    <3>3. CASE ~no_open
      BY <2>4, <3>1, <3>2, <3>3, <1>0, HandleInsert DEF create_reply
    <3>4. CASE no_open
      BY <2>4, <3>2, <3>4, <1>0, HandleFrame DEF create_reply
    <3>. QED
      BY <3>3, <3>4
  <2>. QED
    BY <1>4, <2>1, <2>2, <2>3, <2>4 DEF WorkerSteps
<1>5. CASE UNCHANGED vars
  BY <1>5, <1>1 DEF vars
<1>. QED
  BY <1>3, <1>4, <1>5 DEF Next


\* An open file's inode is live: the client's lookup is counted in refcount.
LEMMA OpenInodeLive ==
    ASSUME TypeOK, RefcountSound, HInv
    PROVE  OpenHandlesValid
<1> SUFFICES ASSUME NEW f \in kfiles PROVE hmap[f.fh] = f.ino /\ Present(f.ino)
  BY DEF OpenHandlesValid
<1>1. hmap[f.fh] = f.ino /\ kref[f.ino] > 0
  BY DEF HInv, HandlesMapped, OpenLookedUp
<1>2. f.ino \in Inodes /\ Held(f.ino) \in Nat
  BY HeldNat DEF TypeOK
<1>3. refcount[f.ino] > 0
  BY <1>1, <1>2 DEF RefcountSound, TypeOK
<1>. QED
  BY <1>1, <1>2, <1>3 DEF RefcountSound

(***************************************************************************)
(* Every handle the client holds stays valid, in every reachable state:   *)
(* the handle map binds its id to the inode it was opened on, and that     *)
(* inode is live.  So open and create never hand out an id in use, a      *)
(* release never clears another file's entry, and no forget, batch_forget, *)
(* readdir release or readdirplus Ok(0) path removes an open inode.        *)
(***************************************************************************)
THEOREM OpenHandlesHold == Spec => []OpenHandlesValid
<1>1. Init => IInv /\ HInv
  <2>1. Init => HInv
    BY DEF Init, HInv, HandlesFresh, HandlesDistinct, OpenLookedUp, HandlesMapped
  <2>. QED
    BY <2>1, InitTypeInv, InitSound DEF IInv
<1>2. IInv /\ HInv /\ [Next]_vars => (IInv /\ HInv)'
  BY TypeInvStep, SoundStep, HandleStep DEF IInv
<1>3. IInv /\ HInv => OpenHandlesValid
  BY OpenInodeLive DEF IInv, TypeInv
<1>. QED
  BY <1>1, <1>2, <1>3, PTL DEF Spec

=============================================================================
