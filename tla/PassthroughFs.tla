---------------------------- MODULE PassthroughFs ----------------------------
(***************************************************************************)
(* The object-identity and handle lifecycle of the passthrough filesystem  *)
(* (src/src/passthrough/sync_io.rs): the inode map with its lookup        *)
(* refcounts, the handle map with its monotonic allocator, the host        *)
(* directory the entries live in, and every request handler that changes  *)
(* them.  Handlers that touch the tables in several separate steps         *)
(* (the per-entry closures of readdir/readdirplus, and create) run on a    *)
(* worker thread, one step per critical section, so that other requests    *)
(* interleave between them.  The FUSE client (the kernel) is modelled by   *)
(* the references it holds: kref[i] lookups of inode i and the open files  *)
(* in kfiles, each with the handle id it was given.                        *)
(*                                                                         *)
(* do_lookup, forget_one, do_release and the maps themselves are outside   *)
(* src/ and are modelled from the spec (section 4.1/4.2): do_lookup and    *)
(* forget_one are each one atomic step on the map.                         *)
(***************************************************************************)
EXTENDS Naturals, FiniteSets

CONSTANTS
    Names,      \* entry names of the exported directory (all valid)
    Objects,    \* host filesystem objects (one per (dev, ino) pair)
    Workers,    \* request-handler threads
    MaxInode,   \* inode ids 1..MaxInode can be allocated
    MaxHandle,  \* handle ids 1..MaxHandle can be allocated
    MaxRef,     \* bound on one inode's lookup refcount
    SinkResults, \* what the caller's readdirplus sink may return
    NoObject, NoName, NoInode

ASSUME BoundsAssumption ==
    /\ MaxInode \in Nat /\ MaxHandle \in Nat /\ MaxRef \in Nat \ {0}
ASSUME WorkersAssumption == IsFiniteSet(Workers)
\* Ok(n > 0) entry taken, Ok(0) reply full, Err.
ASSUME SinkAssumption == SinkResults \subseteq {"ok", "full", "err"}
ASSUME SentinelAssumption ==
    /\ NoObject \notin Objects /\ NoName \notin Names
    /\ NoInode \notin Nat

Inodes == 1 .. MaxInode
HandleIds == 1 .. MaxHandle
\* An open file as the client knows it: handle id, inode, opened as a dir.
Files == [fh : HandleIds, ino : Inodes, dir : BOOLEAN]

\* File types the model tells apart (S_IFMT of the cached mode).
Kinds == {"reg", "dir", "dev", "lnk"}
NoKind == "none"

\* Worker program counters: idle, or inside a multi-step handler.
PCs == {"idle", "rd_forget", "rdp_sink", "cr_lookup", "cr_open", "cr_reply"}

VARIABLES
    mounted,     \* between init and destroy
    no_open,     \* negotiated ZERO_MESSAGE_OPEN
    no_opendir,  \* negotiated ZERO_MESSAGE_OPENDIR
    dentry,      \* host directory: name -> object
    kind,        \* host object -> file type, NoKind while never created
    obj,         \* inode map: inode -> object it anchors, NoObject if absent
    refcount,    \* inode map: inode -> lookup refcount
    nextInode,   \* inode id allocator
    hmap,        \* handle map: handle -> inode, NoInode if absent
    nextHandle,  \* next_handle
    kref,        \* client: inode -> lookups it holds
    kfiles,      \* client: its open files [fh, ino, dir]
    wpc, wname, wino, wnew  \* per-worker handler state

fsVars == <<mounted, no_open, no_opendir, dentry, kind>>
tableVars == <<obj, refcount, nextInode, hmap, nextHandle>>
clientVars == <<kref, kfiles>>
workerVars == <<wpc, wname, wino, wnew>>
vars == <<fsVars, tableVars, clientVars, workerVars>>

-----------------------------------------------------------------------------
Present(i) == obj[i] # NoObject

\* is_safe_inode: only regular files and directories may be opened.
is_safe_inode(k) == k \in {"reg", "dir"}

\* Objects never created yet, from which a creating syscall takes one.
FreshObjects == {o \in Objects : kind[o] = NoKind}

\* Workers holding a lookup reference taken by do_lookup and not yet
\* handed to the client or released.
Holds(w) == wpc[w] \in {"rd_forget", "rdp_sink", "cr_open", "cr_reply"}
HoldersOf(i) == {w \in Workers : Holds(w) /\ wino[w] = i}
Held(i) == Cardinality(HoldersOf(i))

\* Mutant: a new inode is inserted without looking up the (dev, ino) alias.
do_lookup_no_alias(o, i) ==
    \/ /\ obj[i] = o
       /\ refcount[i] < MaxRef
       /\ refcount' = [refcount EXCEPT ![i] = @ + 1]
       /\ UNCHANGED <<obj, nextInode>>
    \/ /\ i = nextInode
       /\ obj' = [obj EXCEPT ![i] = o]
       /\ refcount' = [refcount EXCEPT ![i] = 1]
       /\ nextInode' = nextInode + 1

(***************************************************************************)
(* do_lookup(parent, name) once the name resolved to object o: take a     *)
(* reference on the live inode of o, or insert a new inode for it.  i is   *)
(* the inode returned.                                                     *)
(***************************************************************************)
do_lookup(o, i) ==
    \/ /\ obj[i] = o
       /\ refcount[i] < MaxRef
       /\ refcount' = [refcount EXCEPT ![i] = @ + 1]
       /\ UNCHANGED <<obj, nextInode>>
    \/ /\ \A j \in Inodes : obj[j] # o
       /\ i = nextInode
       /\ obj' = [obj EXCEPT ![i] = o]
       /\ refcount' = [refcount EXCEPT ![i] = 1]
       /\ nextInode' = nextInode + 1

\* forget_one(inode, count): subtract, saturating; remove the record at 0.
forget_one(i, c) ==
    /\ refcount' = [refcount EXCEPT ![i] = IF @ > c THEN @ - c ELSE 0]
    /\ obj' = [obj EXCEPT ![i] = IF refcount[i] > c THEN @ ELSE NoObject]
    /\ UNCHANGED nextInode

\* The reply of a resolving request reaches the client: one more lookup.
Reply(i) == kref' = [kref EXCEPT ![i] = @ + 1]

Idle(w) == wpc[w] = "idle"
\* A handler returns; its locals go out of scope.
GoIdle(w) == /\ wpc' = [wpc EXCEPT ![w] = "idle"]
             /\ wname' = [wname EXCEPT ![w] = NoName]
             /\ wino' = [wino EXCEPT ![w] = NoInode]
             /\ wnew' = [wnew EXCEPT ![w] = FALSE]

-----------------------------------------------------------------------------
Init ==
    /\ mounted = FALSE
    /\ no_open = FALSE /\ no_opendir = FALSE
    /\ dentry = [n \in Names |-> NoObject]
    /\ kind = [o \in Objects |-> NoKind]
    /\ obj = [i \in Inodes |-> NoObject]
    /\ refcount = [i \in Inodes |-> 0]
    /\ nextInode = 1
    /\ hmap = [h \in HandleIds |-> NoInode]
    /\ nextHandle = 1
    /\ kref = [i \in Inodes |-> 0]
    /\ kfiles = {}
    /\ wpc = [w \in Workers |-> "idle"]
    /\ wname = [w \in Workers |-> NoName]
    /\ wino = [w \in Workers |-> NoInode]
    /\ wnew = [w \in Workers |-> FALSE]

\* init: negotiate the stateless-open flags with the client's capabilities.
init ==
    /\ ~mounted
    /\ mounted' = TRUE
    /\ no_open' \in BOOLEAN
    /\ no_opendir' \in BOOLEAN
    /\ UNCHANGED <<dentry, kind, tableVars, clientVars, workerVars>>

\* destroy: clear both maps; the session ends and the client holds nothing.
destroy ==
    /\ mounted
    /\ \A w \in Workers : Idle(w)
    /\ mounted' = FALSE
    /\ hmap' = [h \in HandleIds |-> NoInode]
    /\ obj' = [i \in Inodes |-> NoObject]
    /\ refcount' = [i \in Inodes |-> 0]
    /\ kref' = [i \in Inodes |-> 0]
    /\ kfiles' = {}
    /\ UNCHANGED <<no_open, no_opendir, dentry, kind, nextInode, nextHandle,
                   workerVars>>

\* lookup: resolve an existing name and reply with its inode.
lookup(n) ==
    /\ mounted
    /\ dentry[n] # NoObject
    /\ \E i \in Inodes : do_lookup(dentry[n], i) /\ Reply(i)
    /\ UNCHANGED <<fsVars, hmap, nextHandle, kfiles, workerVars>>

(***************************************************************************)
(* forget / batch_forget: the client drops c of the lookups it holds.  The *)
(* client only forgets an inode entirely when no handle of its is open.    *)
(***************************************************************************)
\* Handles the client holds open on inode i.
OpenOn(i) == {f \in kfiles : f.ino = i}

ClientMayForget(i, c) ==
    /\ c \in 1 .. kref[i]
    /\ c = kref[i] => OpenOn(i) = {}

forget(i, c) ==
    /\ mounted
    /\ ClientMayForget(i, c)
    /\ kref' = [kref EXCEPT ![i] = @ - c]
    /\ forget_one(i, c)
    /\ UNCHANGED <<fsVars, hmap, nextHandle, kfiles, workerVars>>

\* Mutant: the batch rebuilds the map from the batched records only.
batch_forget_rebuilt(S, cnt) ==
    /\ mounted
    /\ \A i \in S : ClientMayForget(i, cnt[i])
    /\ kref' = [i \in Inodes |-> IF i \in S THEN kref[i] - cnt[i] ELSE kref[i]]
    /\ refcount' = [i \in Inodes |->
                      IF i \in S /\ refcount[i] > cnt[i] THEN refcount[i] - cnt[i]
                      ELSE IF i \in S THEN 0 ELSE refcount[i]]
    /\ obj' = [i \in S |-> IF refcount[i] <= cnt[i] THEN NoObject ELSE obj[i]]
    /\ UNCHANGED <<fsVars, nextInode, hmap, nextHandle, kfiles, workerVars>>

\* batch_forget applies forget_one to each (inode, count) under one lock.
batch_forget(S, cnt) ==
    /\ mounted
    /\ \A i \in S : ClientMayForget(i, cnt[i])
    /\ kref' = [i \in Inodes |-> IF i \in S THEN kref[i] - cnt[i] ELSE kref[i]]
    /\ refcount' = [i \in Inodes |->
                      IF i \in S /\ refcount[i] > cnt[i] THEN refcount[i] - cnt[i]
                      ELSE IF i \in S THEN 0 ELSE refcount[i]]
    /\ obj' = [i \in Inodes |->
                 IF i \in S /\ refcount[i] <= cnt[i] THEN NoObject ELSE obj[i]]
    /\ UNCHANGED <<fsVars, nextInode, hmap, nextHandle, kfiles, workerVars>>

(***************************************************************************)
(* mkdir, mknod, symlink: validate the name, create the object with the   *)
(* requester's credentials (restored by the guard), then do_lookup.        *)
(***************************************************************************)
make_node(n, k) ==
    /\ mounted
    /\ dentry[n] = NoObject
    /\ \E o \in FreshObjects :
          /\ dentry' = [dentry EXCEPT ![n] = o]
          /\ kind' = [kind EXCEPT ![o] = k]
          /\ \E i \in Inodes : do_lookup(o, i) /\ Reply(i)
    /\ UNCHANGED <<mounted, no_open, no_opendir, hmap, nextHandle, kfiles,
                   workerVars>>

mkdir(n) == make_node(n, "dir")
mknod(n, k) == k \in {"reg", "dev"} /\ make_node(n, k)
symlink(n) == make_node(n, "lnk")

\* link: linkat(inode, "", newparent, newname, AT_EMPTY_PATH) then do_lookup.
link(i, n) ==
    /\ mounted
    /\ kref[i] > 0
    /\ Present(i)
    /\ kind[obj[i]] # "dir"
    /\ dentry[n] = NoObject
    /\ dentry' = [dentry EXCEPT ![n] = obj[i]]
    /\ \E j \in Inodes : do_lookup(obj[i], j) /\ Reply(j)
    /\ UNCHANGED <<mounted, no_open, no_opendir, kind, hmap, nextHandle,
                   kfiles, workerVars>>

\* unlink / rmdir: do_unlink, with or without AT_REMOVEDIR.  The inode map
\* is untouched: a live inode keeps its object through its O_PATH fd.
unlink(n) ==
    /\ mounted
    /\ dentry[n] # NoObject /\ kind[dentry[n]] # "dir"
    /\ dentry' = [dentry EXCEPT ![n] = NoObject]
    /\ UNCHANGED <<mounted, no_open, no_opendir, kind, tableVars, clientVars,
                   workerVars>>

rmdir(n) ==
    /\ mounted
    /\ dentry[n] # NoObject /\ kind[dentry[n]] = "dir"
    /\ dentry' = [dentry EXCEPT ![n] = NoObject]
    /\ UNCHANGED <<mounted, no_open, no_opendir, kind, tableVars, clientVars,
                   workerVars>>

\* rename: renameat2 with flags 0 (replace), RENAME_NOREPLACE or
\* RENAME_EXCHANGE, passed through unchanged.
rename(n1, n2, flag) ==
    /\ mounted
    /\ n1 # n2
    /\ dentry[n1] # NoObject
    /\ \/ /\ flag = "replace"
          /\ dentry' = [dentry EXCEPT ![n2] = dentry[n1], ![n1] = NoObject]
       \/ /\ flag = "noreplace"
          /\ dentry[n2] = NoObject
          /\ dentry' = [dentry EXCEPT ![n2] = dentry[n1], ![n1] = NoObject]
       \/ /\ flag = "exchange"
          /\ dentry[n2] # NoObject
          /\ dentry' = [dentry EXCEPT ![n2] = dentry[n1], ![n1] = dentry[n2]]
    /\ UNCHANGED <<mounted, no_open, no_opendir, kind, tableVars, clientVars,
                   workerVars>>
RenameFlags == {"replace", "noreplace", "exchange"}

-----------------------------------------------------------------------------
(***************************************************************************)
(* open / opendir (do_open): refused with ENOSYS when the session is       *)
(* stateless; open_inode fails EBADF unless is_safe_inode; the O_DIRECTORY *)
(* open of a non-directory and the plain open of a directory fail in the   *)
(* kernel.  On success a handle is taken from next_handle and inserted.    *)
(***************************************************************************)
\* Mutant: next_handle is read but not advanced.
do_open_no_advance(i, dir) ==
    /\ mounted
    /\ kref[i] > 0
    /\ Present(i)
    /\ is_safe_inode(kind[obj[i]])
    /\ (kind[obj[i]] = "dir") = dir
    /\ nextHandle \in HandleIds
    /\ hmap' = [hmap EXCEPT ![nextHandle] = i]
    /\ kfiles' = kfiles \cup {[fh |-> nextHandle, ino |-> i, dir |-> dir]}
    /\ UNCHANGED <<nextHandle, fsVars, obj, refcount, nextInode, kref, workerVars>>

do_open(i, dir) ==
    /\ mounted
    /\ kref[i] > 0
    /\ Present(i)
    /\ is_safe_inode(kind[obj[i]])
    /\ (kind[obj[i]] = "dir") = dir
    /\ nextHandle \in HandleIds
    /\ hmap' = [hmap EXCEPT ![nextHandle] = i]
    /\ kfiles' = kfiles \cup {[fh |-> nextHandle, ino |-> i, dir |-> dir]}
    /\ nextHandle' = nextHandle + 1
    /\ UNCHANGED <<fsVars, obj, refcount, nextInode, kref, workerVars>>

open(i) == ~no_open /\ do_open(i, FALSE)
opendir(i) == ~no_opendir /\ do_open(i, TRUE)

\* release / releasedir (do_release): drop the handle from the map.
do_release(f) ==
    /\ mounted
    /\ hmap' = [hmap EXCEPT ![f.fh] = IF @ = f.ino THEN NoInode ELSE @]
    /\ kfiles' = kfiles \ {f}
    /\ UNCHANGED <<fsVars, obj, refcount, nextInode, nextHandle, kref,
                   workerVars>>

release(f) == f \in kfiles /\ ~f.dir /\ ~no_open /\ do_release(f)
releasedir(f) == f \in kfiles /\ f.dir /\ ~no_opendir /\ do_release(f)

-----------------------------------------------------------------------------
(***************************************************************************)
(* readdir, per entry: the closure resolves the entry with do_lookup and   *)
(* at once gives the reference back with forget_one(ino, 1); then it calls *)
(* the sink, which only copies the entry.  A name removed since getdents   *)
(* fails do_lookup and takes no reference.                                 *)
(***************************************************************************)
readdir_lookup(w, n) ==
    /\ mounted /\ Idle(w)
    /\ dentry[n] # NoObject
    /\ \E i \in Inodes : do_lookup(dentry[n], i) /\ wino' = [wino EXCEPT ![w] = i]
    /\ wpc' = [wpc EXCEPT ![w] = "rd_forget"]
    /\ UNCHANGED <<fsVars, hmap, nextHandle, clientVars, wname, wnew>>

readdir_forget(w) ==
    /\ wpc[w] = "rd_forget"
    /\ forget_one(wino[w], 1)
    /\ GoIdle(w)
    /\ UNCHANGED <<fsVars, hmap, nextHandle, clientVars>>

(***************************************************************************)
(* readdirplus, per entry: do_lookup keeps its reference for the client;   *)
(* the sink then accepts the entry (the client gets the lookup), reports  *)
(* the reply full with Ok(0) (the reference is released), or fails, in    *)
(* which case the inspect() callback does not run.                         *)
(***************************************************************************)
readdirplus_lookup(w, n) ==
    /\ mounted /\ Idle(w)
    /\ dentry[n] # NoObject
    /\ \E i \in Inodes : do_lookup(dentry[n], i) /\ wino' = [wino EXCEPT ![w] = i]
    /\ wpc' = [wpc EXCEPT ![w] = "rdp_sink"]
    /\ UNCHANGED <<fsVars, hmap, nextHandle, clientVars, wname, wnew>>

\* Mutant: the reference is released whatever the sink returned.
readdirplus_sink_always_forget(w, r) ==
    /\ wpc[w] = "rdp_sink"
    /\ \/ r = "ok" /\ Reply(wino[w]) /\ forget_one(wino[w], 1)
       \/ r = "full" /\ forget_one(wino[w], 1) /\ UNCHANGED kref
       \/ r = "err" /\ UNCHANGED <<obj, refcount, nextInode, kref>>
    /\ GoIdle(w)
    /\ UNCHANGED <<fsVars, hmap, nextHandle, kfiles>>

readdirplus_sink(w, r) ==
    /\ wpc[w] = "rdp_sink"
    /\ \/ r = "ok" /\ Reply(wino[w]) /\ UNCHANGED <<obj, refcount, nextInode>>
       \/ r = "full" /\ forget_one(wino[w], 1) /\ UNCHANGED kref
       \/ r = "err" /\ UNCHANGED <<obj, refcount, nextInode, kref>>
    /\ GoIdle(w)
    /\ UNCHANGED <<fsVars, hmap, nextHandle, kfiles>>

(***************************************************************************)
(* create: create_file_excl makes a new regular file, or finds the name    *)
(* taken and returns None (the request lacks O_EXCL; with O_EXCL it fails  *)
(* EEXIST and changes nothing).  do_lookup then takes the reference.  If   *)
(* the file existed, drop_cap_fsetid, set_creds and open_inode follow and  *)
(* any of them may fail, returning the error with the reference kept.      *)
(* Last, a handle is inserted unless no_open, and the entry is replied.    *)
(***************************************************************************)
create_excl(w, n) ==
    /\ mounted /\ Idle(w)
    /\ \/ /\ dentry[n] = NoObject
          /\ \E o \in FreshObjects :
                /\ dentry' = [dentry EXCEPT ![n] = o]
                /\ kind' = [kind EXCEPT ![o] = "reg"]
          /\ wnew' = [wnew EXCEPT ![w] = TRUE]
       \/ /\ dentry[n] # NoObject
          /\ wnew' = [wnew EXCEPT ![w] = FALSE]
          /\ UNCHANGED <<dentry, kind>>
    /\ wpc' = [wpc EXCEPT ![w] = "cr_lookup"]
    /\ wname' = [wname EXCEPT ![w] = n]
    /\ UNCHANGED <<mounted, no_open, no_opendir, tableVars, clientVars, wino>>

create_lookup(w) ==
    /\ wpc[w] = "cr_lookup"
    /\ \/ /\ dentry[wname[w]] = NoObject
          /\ GoIdle(w)
          /\ UNCHANGED <<obj, refcount, nextInode>>
       \/ /\ dentry[wname[w]] # NoObject
          /\ \E i \in Inodes : do_lookup(dentry[wname[w]], i)
                               /\ wino' = [wino EXCEPT ![w] = i]
          /\ wpc' = [wpc EXCEPT ![w] = IF wnew[w] THEN "cr_reply" ELSE "cr_open"]
          /\ UNCHANGED <<wname, wnew>>
    /\ UNCHANGED <<fsVars, hmap, nextHandle, clientVars>>

create_open(w) ==
    /\ wpc[w] = "cr_open"
    /\ \/ /\ is_safe_inode(kind[obj[wino[w]]])
          /\ kind[obj[wino[w]]] = "reg"
          /\ wpc' = [wpc EXCEPT ![w] = "cr_reply"]
          /\ UNCHANGED <<wname, wino, wnew>>
       \/ GoIdle(w)
    /\ UNCHANGED <<fsVars, tableVars, clientVars>>

create_reply(w) ==
    /\ wpc[w] = "cr_reply"
    /\ \/ /\ ~no_open
          /\ nextHandle \in HandleIds
          /\ hmap' = [hmap EXCEPT ![nextHandle] = wino[w]]
          /\ kfiles' = kfiles \cup {[fh |-> nextHandle, ino |-> wino[w], dir |-> FALSE]}
          /\ nextHandle' = nextHandle + 1
       \/ /\ no_open
          /\ UNCHANGED <<hmap, nextHandle, kfiles>>
    /\ Reply(wino[w])
    /\ GoIdle(w)
    /\ UNCHANGED <<fsVars, obj, refcount, nextInode>>

-----------------------------------------------------------------------------
ClientOps ==
    \/ init \/ destroy
    \/ \E n \in Names : lookup(n) \/ mkdir(n) \/ symlink(n) \/ unlink(n) \/ rmdir(n)
    \/ \E n \in Names, k \in {"reg", "dev"} : mknod(n, k)
    \/ \E n1, n2 \in Names, f \in RenameFlags : rename(n1, n2, f)
    \/ \E i \in Inodes, n \in Names : link(i, n)
    \/ \E i \in Inodes : open(i) \/ opendir(i)
    \/ \E f \in kfiles : release(f) \/ releasedir(f)
    \/ \E i \in Inodes : \E c \in 1 .. MaxRef : forget(i, c)
    \/ \E S \in SUBSET Inodes : \E cnt \in [S -> 1 .. MaxRef] : batch_forget(S, cnt)

WorkerSteps(w) ==
    \/ \E n \in Names : readdir_lookup(w, n) \/ readdirplus_lookup(w, n)
                        \/ create_excl(w, n)
    \/ readdir_forget(w)
    \/ \E r \in SinkResults : readdirplus_sink(w, r)
    \/ create_lookup(w) \/ create_open(w) \/ create_reply(w)

Next == ClientOps \/ \E w \in Workers : WorkerSteps(w)

Spec == Init /\ [][Next]_vars

-----------------------------------------------------------------------------
TypeOK ==
    /\ mounted \in BOOLEAN /\ no_open \in BOOLEAN /\ no_opendir \in BOOLEAN
    /\ dentry \in [Names -> Objects \cup {NoObject}]
    /\ kind \in [Objects -> Kinds \cup {NoKind}]
    /\ obj \in [Inodes -> Objects \cup {NoObject}]
    /\ refcount \in [Inodes -> Nat]
    /\ nextInode \in 1 .. MaxInode + 1
    /\ hmap \in [HandleIds -> Inodes \cup {NoInode}]
    /\ nextHandle \in 1 .. MaxHandle + 1
    /\ kref \in [Inodes -> Nat]
    /\ kfiles \subseteq Files
    /\ wpc \in [Workers -> PCs]
    /\ wname \in [Workers -> Names \cup {NoName}]
    /\ wino \in [Workers -> Inodes \cup {NoInode}]
    /\ wnew \in [Workers -> BOOLEAN]

(***************************************************************************)
(* The lookup refcount never falls below the references in use: those the *)
(* client holds plus those a handler has taken with do_lookup and not yet  *)
(* passed on; and a record is in the map exactly while its count is        *)
(* positive.  A forget_one too many (readdir's release, readdirplus's     *)
(* Ok(0) path, a batch) would let the client use a removed inode.          *)
(***************************************************************************)
RefcountSound ==
    \A i \in Inodes :
        /\ refcount[i] >= kref[i] + Held(i)
        /\ Present(i) <=> refcount[i] > 0

(***************************************************************************)
(* The refcount is exactly the number of references in use: every         *)
(* do_lookup is eventually handed to the client or released (spec 3: the  *)
(* count is what the client believes it holds).  Otherwise the record and *)
(* its O_PATH fd are never removed.                                        *)
(***************************************************************************)
NoLeakedLookup ==
    \A i \in Inodes : refcount[i] = kref[i] + Held(i)

(***************************************************************************)
(* One host object has at most one live inode: do_lookup through a hard   *)
(* link, a rename or a readdir finds the existing record rather than      *)
(* minting a second id (spec 8: link then lookup yields the same inode).   *)
(***************************************************************************)
UniqueInode ==
    \A i, j \in Inodes : Present(i) /\ Present(j) /\ obj[i] = obj[j] => i = j

(***************************************************************************)
(* Every handle the client holds is still in the handle map, bound to the *)
(* inode it was opened on, and that inode is live: handle ids are never    *)
(* reused by open/create and only the holder's release removes one.       *)
(***************************************************************************)
OpenHandlesValid ==
    \A f \in kfiles : hmap[f.fh] = f.ino /\ Present(f.ino)
=============================================================================
