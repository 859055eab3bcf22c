# TLA+ verification of the passthrough file system (`src/src/passthrough/sync_io.rs`)

This directory holds TLA+ models of the FUSE passthrough file system in
`sync_io.rs`. It also holds the TLC configurations that model-check them and
TLAPS proofs about them.

## The system

`PassthroughFs` serves FUSE requests from the kernel by forwarding each one to a
host directory. The FUSE session calls its handlers from several threads at
once. The handlers share this state:

- **The inode map.** It maps FUSE inode ids to host objects, each held through
  an `O_PATH` fd and given a *lookup refcount*.
  - `do_lookup` (used by lookup, mkdir, mknod, symlink, link, create, and each
    entry of readdir and readdirplus) adds a reference. It inserts a new id
    taken from `next_inode` the first time an object is seen.
  - `forget`, `batch_forget` and `forget_one` subtract references, saturating
    at zero. They remove the record at zero.
  - The kernel is meant to hold exactly the references it was sent
    (spec §3).
- **The handle map.** It maps handle ids to open fds.
  - `do_open` (open, opendir, and create's open) takes an id from
    `next_handle` with `fetch_add` and inserts it.
  - `do_release` (release, releasedir) removes it.
  - When `init` has negotiated `no_open` / `no_opendir`, the kernel sends no
    open, opendir, release or releasedir, and create inserts no handle.
- **The host tree.** Names bind to objects. mkdir, mknod, symlink, create,
  link, unlink, rmdir and rename change it.
- **Per-handle data.** This is the cached open flags (`check_fd_flags`) and
  the directory position lock (`do_readdir` against `lseek`).
- **Policy.** This is `set_creds`, `drop_cap_fsetid` (killpriv_v2) and the
  `seal_size` checks of write, setattr and fallocate.

The handlers that touch the maps are the places where concurrency and partial
failure matter. For example, readdir takes a reference and gives it back under
two lock acquisitions. readdirplus hands a reference to the kernel only if the
reply sink accepts the entry. create takes a reference before it knows whether
it can open the file.

## Modules

| Module | Models | Source |
|---|---|---|
| `PassthroughFs` | session flags, host tree, inode map, handle map, kernel's view, per-thread handler state | `sync_io.rs` 32-616, 882-1010; `do_lookup`, `forget_one`, `do_release` from spec §4.1/§4.2 |
| `MCPassthroughFs` | TLC instance: 2 names, 2 objects, 2 handler threads, symmetry | — |
| `PassthroughFsProofs` | TLAPS proofs of type correctness and refcount soundness | — |
| `PassthroughFsTableProofs` | TLAPS proofs of `UniqueInode` and `OpenHandlesValid` | — |
| `DirListing` | one open directory, `do_readdir` with its position lock, explicit `lseek`, concurrent unlinks, and the client chaining cookies | `sync_io.rs` 61-180, 256-266, 1317-1347 |
| `HandleData` | one file handle's life: open, `get_data`, `check_fd_flags`, write's seal_size check, the I/O of read/write/flush/fsync, release, drop of the last `Arc` | `sync_io.rs` 44-59, 182-201, 283-296, 535-550, 656-719, 1038-1101 |
| `MCHandleData` | TLC instance of `HandleData` with symmetry over threads | — |
| `HandleDataProofs` | TLAPS proofs of type correctness and of the exact drop of the handle data | — |
| `DirListingProofs` | TLAPS proofs of `TypeOK`, `NoGap` and `ReplyAdvances` of the listing | — |

### `PassthroughFs`: state

- `mounted`, `no_open`, `no_opendir`: the session, and the flags `init` stores.
- `dentry` and `kind` describe the host tree abstractly.
  - `dentry` maps a name to the object it resolves to. Names are one flat
    directory, since parents play no part in refcounts.
  - `kind` gives each object's file type (`reg`, `dir`, `dev`, `lnk`).
- `obj` and `refcount` describe the inode map: the object of each inode id and
  its lookup count.
- `nextInode` is the inode-id counter. Ids are `1..MaxInode` and the counter is
  capped.
- `hmap` and `nextHandle` describe the handle map: the inode of each handle id,
  and the `next_handle` counter. Ids are `1..MaxHandle` and the counter is
  capped.
- `kref` and `kfiles` are the kernel's view: the lookups it holds per inode,
  and the handles it holds.
- `wpc`, `wname`, `wino` and `wnew` hold each handler thread's position
  inside a multi-step handler and its locals.

### `PassthroughFs`: actions

One action models one handler, or the part of a handler between two points
where another thread can interleave.

- **Atomic handlers:**
  - `init`, `destroy`, `lookup`, `forget`, `batch_forget`;
  - `mkdir`, `mknod`, `symlink` (through `make_node`), `link`;
  - `unlink`, `rmdir`, `rename` (replace, noreplace, exchange);
  - `open`, `opendir` (through `do_open`) and `release`, `releasedir`
    (through `do_release`).

  The first, third and fourth lines each take at most one lock and make no
  call in between whose outcome another thread could change. The second
  line is different. `mkdir`, `mknod` and `symlink` make the creating
  syscall and then call `do_lookup` (lines 437/443, 938/949 and 1003/1006),
  and `link` calls `linkat` then `do_lookup` (972/981). Each of these is
  modelled as one step, so a thread that unlinks or renames the new name
  between the two calls is not modelled. In that window `do_lookup` either
  fails before it takes a reference, or it looks up whatever object the name
  then denotes. Both of those are outcomes that a lookup of the name
  reaches in the model, so no refcount or uniqueness property depends on
  the gap.
- **readdir, per entry:**
  - `readdir_lookup` is the `do_lookup` (line 474).
  - `readdir_forget` is the `forget_one(ino, 1)` (line 476), made under a
    second acquisition of the map lock.
- **readdirplus, per entry:**
  - `readdirplus_lookup` is the `do_lookup` (line 505).
  - `readdirplus_sink` is `add_entry` followed by `inspect`. It has three
    outcomes:
    - `ok`: the kernel receives the entry and its lookup;
    - `full`: `Ok(0)`, and the reference is released;
    - `err`: the closure does not run.
- **create:**
  - `create_excl` is `create_file_excl`. It either creates a new regular file
    or finds the name taken.
  - `create_lookup` is `do_lookup`. It fails if the name is gone.
  - `create_open` is the open of an existing file. Its success requires
    `is_safe_inode` and a regular file. Any failure of `drop_cap_fsetid`,
    `set_creds` or `open_inode` returns.
  - `create_reply` is the handle insertion unless `no_open`, followed by the
    reply.

Host-side failures that change nothing (EEXIST, ENOENT, permission errors)
are stutters and are not written out. An action's guard is the condition
under which the handler changes state.

**Assumptions about the kernel client**, all from the FUSE protocol:

- It uses only inode ids it holds a lookup on.
- It forgets at most what it holds.
- It does not forget its last lookup while it holds a handle on the inode.
- It sends `destroy` only when no request is in flight.

### `DirListing`

The directory holds the records `"."`, `".."` and `NumEntries` real entries
at slots 1, 2, 3, ... in getdents64 order. A record's `d_off` is its slot.

State:
- `present`: which entries are still linked.
- `pos`: the fd's kernel offset.
- `locked`: the lock taken by `get_file_mut`.
- `rpc`, `buf`, `touched`, `stored`: the worker's place, the unprocessed
  records (`rem`), `rem.len() != orig_rem_len`, and what `add_entry` has
  accepted.
- `cookie`, `received`, `status`: the client's side.
- `listed0`, `removed`: bookkeeping for the properties.

Actions:
- `readdir_seek`: `get_dirdata`, take the lock, `lseek64` to the cookie.
- `readdir_getdents`: read `Chunk` records, move `pos`, drop the guard.
- `readdir_entry`: one record. A dot is skipped with `Ok(1)`. A present entry
  is stored, or answered with `Ok(0)` when the reply already holds `Cap`
  entries. An entry unlinked since getdents makes the closure fail. The error
  is returned only while `rem` is untouched, otherwise the call returns `Ok`
  with what it stored.
- `readdir_done`: the buffer is exhausted.
- `lseek`: under the same lock.
- `unlink`: of any entry, at any time.
- `rewind`: the client starts a new listing.

`GetDents(p)` is what getdents64 returns from position `p`: the live
records after `p` (`After(p)`) whose rank in that set is below `Chunk`, in
slot order (`InSlotOrder`, a record's place is its `Rank`, the number of
records before it). It is written with cardinalities rather than a sort of
the community modules so that the proof system can reason about it.

`ReplyToKernel` ends a call. An error ends the listing. An empty `Ok` is end
of directory. Otherwise the client takes the entries and chains the `d_off`
of the last one.

### `HandleData`

One handle from `do_open` to the drop of its last `Arc`.

State:
- `mapped`: the handle is in the handle map.
- `refs`: the `Arc` strong count.
- `dropped`: no `HandleData` is alive.
- `fdOpen`, `fdFlags`: the fd.
- `cached`: `HandleData`'s flags.
- Per thread: `pc`, `op`, `req`.

Actions:
- `get_data`: clones the `Arc`.
- `check_fd_flags` as three steps with no lock between them:
  `check_fd_flags_compare`, `check_fd_flags_fcntl` (which may fail) and
  `check_fd_flags_set`.
- `write_seal_check`: `stat_fd` and `seal_size_check`, either of which may
  fail.
- `read_io`, `write_io`, `flush_io`, `fsync_io`: the I/O and the return.
- `release`: removes the handle from the map.

`ReturnFrom(w, closesFd)` drops the thread's `Arc`, and the last one closes
the fd. Its `closesFd` argument is the early return through `?` in read and
write before `ManuallyDrop::new`. There, the `File` built by `from_raw_fd`
is dropped and closes the handle's fd.

## Runs

| Run | cfg | Expect | Shows |
|---|---|---|---|
| core | `MCPassthroughFs.cfg` | pass | `TypeOK`, `RefcountSound`, `UniqueInode` and `OpenHandlesValid` hold in every interleaving of two handler threads with the client (about 1.4M distinct states, about 1 minute). |
| readdirplus_leak | `MCPassthroughFs_leak.cfg` | violation | `NoLeakedLookup` fails: `make_node`, then `readdirplus_lookup`, then `readdirplus_sink(err)`. The reference is kept, but the kernel never learns of it. |
| create_leak | `MCPassthroughFs_createleak.cfg` | violation | With the sink unable to fail, `NoLeakedLookup` still fails. `mkdir` makes a directory, then `create` without `O_EXCL` on that name: `create_file_excl` finds it existing, `do_lookup` (line 571) takes a reference, and `open_inode` fails with EISDIR (line 588), which is `create_open`'s failure branch, so the error is returned and the reference is kept. A device node fails the same way through `is_safe_inode`. |
| dirlisting | `MCDirListing.cfg` | pass | `TypeOK`, `NoGap` and `ReplyAdvances` hold with unlinks and `lseek` interleaved with the listing (3317 distinct states). |
| dirlisting_live | `MCDirListing_live.cfg` | pass | `ListingEnds`: under the fairness below, every listing ends. |
| readdir_swallowed_error | `MCDirListing_swallow.cfg` | violation | `CompleteListing` fails: getdents returns `.`, `..` and entry 3. Both dots are skipped, and entry 3 is unlinked before its lookup. The closure fails with `rem` already shortened, so the call returns an empty `Ok`. The client ends the listing without entries 4 and 5. |
| handledata | `MCHandleData.cfg` | pass | `TypeOK` and `DropExactlyWhenUnreferenced` hold for three threads with release racing their requests (75912 distinct states). |
| flag_cache_race | `MCHandleData_flagrace.cfg` | violation | `CacheCoherent` fails. Two requests with different flags each pass the compare, then run `fcntl` and `set_flags` in crossed order. The cache ends up holding one request's flags and the fd the other's, and no thread is mid-update. |
| early_return_closes_fd | `MCHandleData_earlyclose.cfg` | violation | `NoIOOnClosedFd` fails. A write's seal_size check fails and the write returns early. The borrowed `File` closes the handle's fd, and the next read on the handle runs on a closed fd. |

What the properties say:

- **`RefcountSound`.** For every inode, the refcount is at least what the
  kernel holds plus the references handler threads have taken and not yet
  passed on. A record is in the map exactly while its count is positive. A
  `forget_one` too many would break it, whether from readdir's release racing
  a client forget, from readdirplus's `Ok(0)` path, or from a batch.
- **`UniqueInode`.** One live inode per host object. Two threads resolving
  the same object through two names (link, rename) must not both insert it.
- **`OpenHandlesValid`.** Every handle the kernel holds is in the handle map,
  bound to its inode, and that inode is live. This fails if `next_handle`
  ever reused an id, or if the client's lookups could be dropped from under an
  open file.
- **`NoLeakedLookup`.** The stronger equality `refcount = kref + Held`. It is
  what spec §3 promises, and it is the property both violation runs refute.

Each property of the passing run has a mutant that TLC must catch:

| Mutant | Plausible bug | Property that catches it |
|---|---|---|
| `batch_forget_rebuilt` | the batch rebuilds the map from its own entries | `TypeOK` |
| `readdirplus_sink_always_forget` | the reference is released even when the entry was sent | `RefcountSound` |
| `do_lookup_no_alias` | insert without looking up the `(dev, ino)` alias | `UniqueInode` |
| `do_open_no_advance` | `next_handle` is not advanced | `OpenHandlesValid` |
| `readdir_getdents_past_end` | the position is left one past the last record read | `TypeOK` |
| `lseek_unlocked` | lseek does not take the handle's lock | `NoGap` |
| `readdir_getdents_rereads` | getdents reads from one before the position, re-reading the record at the cookie | `ReplyAdvances` |
| `readdir_seek_from_start` | the call ignores the offset and seeks to 0 | `ListingEnds` |
| `release_unguarded` | release drops a reference of a handle not in the map | `TypeOK` |
| `release_drops_now` | release closes the file instead of dropping its `Arc` | `DropExactlyWhenUnreferenced` |

The further properties:

- **`NoGap`** (DirListing). Every entry before the client's cookie that was
  in the directory for the whole listing has been delivered. An `lseek`
  slipping between `lseek64` and `getdents64` breaks it.
- **`ReplyAdvances`** (DirListing, an action property). A reply that lets the
  listing continue delivers only entries after the requested cookie, in
  order, and none delivered before.
- **`ListingEnds`** (DirListing, liveness). A listing that is being read
  eventually ends.
- **`CompleteListing`** (DirListing). The completeness of spec §4.5. Only
  the violation run checks it.
- **`DropExactlyWhenUnreferenced`** (HandleData). The data is dropped exactly
  when neither the map nor any request references it.
- **`NoIOOnClosedFd`** and **`CacheCoherent`** (HandleData). These are what
  the comments of read/write and of `check_fd_flags` promise. Only the
  violation runs check them.

**Bounds.**

- Two threads are the fewest that can interleave. Two names and two objects
  let link make one object reachable under two names, and let rename exchange
  them.
- `MaxInode = 2` and `MaxRef = 2` are enough for a second reference and a
  second inode to exist at once. `MaxHandle = 2` lets two handles coexist.
- The counters are capped by guards on these bounds. In the code they are
  u64 and cannot wrap in practice.
- Symmetry over names, objects and threads is sound: no definition mentions
  an individual one.

**Bounds of DirListing.** `NumEntries = 3`, `Chunk = 5`, `Cap = 2`.
- One getdents64 call returns the two dots and all three entries.
- A reply holds two of them, so every call path happens: a full reply with
  `Ok(0)`, an exhausted buffer, a second call resuming from a cookie, and an
  unlink between getdents and the lookup.

**Bounds of HandleData.** Three threads and two flag values.
- Two threads are needed to cross their `check_fd_flags`.
- A third lets release race two requests that are still in flight.

**Fairness.**
- `PassthroughFs` and `HandleData` assume none. Their properties are all
  safety properties.
- `DirListing`'s `Spec` assumes weak fairness of `readdir_seek`,
  `readdir_getdents`, `readdir_entry` and `readdir_done`:
  - a worker thread that has started `do_readdir` runs it to its end, since
    nothing in it blocks except the handle lock;
  - a client whose listing is open keeps issuing readdir.
- `lseek`, `unlink` and `rewind` get no fairness: they may never happen.

## Proofs (TLAPS)

`PassthroughFsProofs.tla` proves two theorems for every value of the
constants:

- `TypeCorrect == Spec => []TypeOK`;
- `RefcountSoundness == Spec => []RefcountSound`.

Both assume only these:

- `BoundsAssumption`: the bounds are naturals and `MaxRef > 0`;
- `WorkersAssumption`: the set of threads is finite;
- `SentinelAssumption`: the "none" values are not real names, objects or
  inode ids;
- `SinkAssumption`.

**Type correctness.** `TypeOK` is not inductive by itself:

- `create_lookup` indexes `dentry` with the thread's saved name.
- `create_reply` and `readdir_forget` use the thread's saved inode id.

The proof therefore goes through `TypeInv == TypeOK /\ WorkersConsistent`.
The added conjunct says that a thread in a state that holds a reference
holds a real inode id, and that a thread about to run `create_lookup` holds
a real name. The proof has one step per action. Each step splits into a
frame fact and one typing fact per variable the action changes.

**Refcount soundness.** `RefcountSound` is not inductive by itself either.
`do_lookup` inserts a new inode at `nextInode` with count 1, and the old
count of that id is unconstrained, as are the client's and the threads'
references to it. The inductive invariant is
`IInv == TypeInv /\ FreshInodesClean /\ RefcountSound`.
`FreshInodesClean` says that every id at or above `nextInode` is absent,
uncounted, and held by neither the client nor any thread. TLC was run with
`IInv` as an invariant on the core run's instance (1.4M distinct states) before it was proved.

The step proof, `SoundStep`, works per inode and rests on four shapes of
step:

| Shape | Lemma | Actions |
|---|---|---|
| do_lookup whose reference goes to the client with the reply | `ReplyLookup` | lookup, mkdir, mknod, symlink, link |
| do_lookup whose reference a thread keeps | `EnterLookup` | readdir_lookup, readdirplus_lookup, create_lookup |
| a thread forgets its reference | `LeaveForget` | readdir_forget, readdirplus_sink (full) |
| a thread gives up its reference, to the client or not at all | `LeaveKept` | readdirplus_sink (ok, err), create_open failure, create_reply |

`forget` uses `ForgetStep`. `batch_forget` applies `ForgetAt` or `KeptAt`
to each inode. Every other action leaves the table, the client's references
and the holds unchanged (`KeptStep`). The lemmas are grouped as
`ClientSound` and `WorkerSound`.

The count of references a thread holds, `Held(i)`, is the cardinality of
the set of holders. `HeldEnter` and `HeldLeave` show that it moves by
exactly one when a thread takes or gives up a reference. Both rest on
`FS_AddElement` and `FS_RemoveElement`, and on the thread set being finite.

**Handle lifetime.** `HandleDataProofs.tla` proves
`TypeCorrect == Spec => []TypeOK` and
`DropExact == Spec => []DropExactlyWhenUnreferenced`. It assumes only
`ConstAssumption`: the set of threads is finite, there is a flag value, and
`SealSize` is a Boolean. The proofs hold for any number of threads and any
number of flag values.

Neither property is inductive alone. `TypeOK` bounds `refs` but does not say
what it counts. The inductive invariant is
`IInv == TypeOK /\ RefsCounted /\ DropState`:

- `RefsCounted`: `refs` equals the number of threads in a handler, plus one
  while the handle is in the map;
- `DropState`: `dropped` holds exactly when `refs = 0`.

TLC checked `IInv` on three threads and two flag values (417088 distinct
states) before it was proved.

The step proof of `IInv` has one lemma per shape of step:

| Lemma | Steps |
|---|---|
| `GetDataStep` | a thread enters a handler and `Busy` grows by one (`BusyEnter`) |
| `InnerStep` | steps inside a handler leave `Busy` alone (`BusyStay`) |
| `ReturnStep` | every return, the early ones that close the fd included, shrinks `Busy` by one (`BusyLeave`) |
| `OpenStep` | open |
| `ReleaseStep` | release |

The bound of `TypeOK` on `refs` then follows from `RefsCounted` and from
`Busy` being a subset of the finite set of threads (`RefsBound`).

**Inode and handle tables.** `PassthroughFsTableProofs.tla` extends
`PassthroughFsProofs` and proves, under the same assumptions:

- `UniqueInodeHolds == Spec => []UniqueInode`. The invariant is
  `TypeInv /\ UniqueInode`. `ObjStep` shows that every step either is a
  `do_lookup` or only shrinks the table (`ObjShrinks`: each entry keeps its
  object or loses it). A `do_lookup` that inserts does so only after its
  search of the table found no inode for the object (`UniqueLookup`). A
  shrinking step cannot create a duplicate (`UniqueShrink`).
- `OpenHandlesHold == Spec => []OpenHandlesValid`. `OpenHandlesValid` is
  not inductive: it says nothing of the handle numbers, so a new handle could
  collide with an open one, and nothing ties an open file to a lookup the
  kernel still holds. The invariant adds `HInv`:
  - `HandlesFresh`: every open handle is below `nextHandle`;
  - `HandlesDistinct`: open files have distinct handles;
  - `HandlesMapped`: the handle map sends each open handle to its inode;
  - `OpenLookedUp`: the kernel holds a lookup of each open file's inode.

  `HandleStep` proves `HInv` preserved. Forgets keep `OpenLookedUp` because
  the kernel forgets no more than it looked up (`ForgetKeepsOpen`,
  `BatchKeepsOpen`). `OpenInodeLive` then derives `OpenHandlesValid` from
  `RefcountSound`: a positive kernel count makes the table's count positive,
  and so the inode is present.

**Directory listing.** `DirListingProofs.tla` proves, for every
`NumEntries`, `Chunk >= 3` and `Cap > 0` (`SizeAssumption`):

- `ListingTypeCorrect == Spec => []TypeOK`;
- `NoGapHolds == Spec => []NoGap`;
- `RepliesAdvance == Spec => ReplyAdvances`, the action property.

The first part is lemmas about `GetDents`:

- `RankBound`, `RankMonotone`, `RankOnto`: ranks in a finite set of
  numbers are distinct, ordered like the numbers, and cover
  `0 .. Cardinality - 1`. `RankOnto` uses `FS_Injection`, so no induction is
  needed.
- `SlotOrder`: `InSlotOrder(S)` is an ascending sequence listing `S`.
- `GetDentsShape`: getdents64's result is ascending and lies in `After(p)`.
  Its first record is the first live record after `p`. No live record lies
  between two consecutive records.

`NoGap` is not inductive. It speaks only of the cookie, and a reply moves
the cookie to the last stored entry, so it needs to know what the worker
has stored. The inductive invariant is `DInv`. Besides `TypeOK` and
`NoGap`, it has:

- `GoodPresent`: a good entry, listed at the start and never removed, is
  still present;
- `ReceivedBelow`: everything received is at or below the cookie;
- `Seeked`: while getdents64 runs, the lock is held and the position is
  the cookie;
- `InOrder`: while entries are processed, `stored` and `buf` are ascending,
  after the cookie, and `stored` precedes `buf`;
- `Covered`: every good entry between the cookie and the last stored entry
  is stored. Every good entry before `buf`'s head is stored. No good entry
  lies between two records of `buf`.

TLC checked `DInv` as an invariant of the `dirlisting` instance and of a
larger one before it was proved. `NextDInv` has one lemma per action, with
`Consume` shared by the three ways `readdir_entry` takes a record. For
`ReplyAdvances`, `ReplyFromEntries` shows that only a call past getdents64
replies. `InOrder` and `ReceivedBelow` then give the three conclusions.

Model-checked only:

- The two violations of `NoLeakedLookup`.
- `ListingEnds`, and every other liveness property, and anything about
  `ENABLED`. These are outside TLAPS's reach.
- The violations of `CompleteListing`, `CacheCoherent` and
  `NoIOOnClosedFd`. A violation is a counterexample, not a theorem.

## Not modelled

- setattr, fallocate and the killpriv/creds guards.
  - The seal_size check of write is modelled only as a step that may fail.
  - File sizes are not modelled, so the stale-size race between two writes
    (line 704) is not checked.
- `get_data` and `get_dirdata` under `no_open`/`no_opendir`. Each request
  then gets a private `HandleData` and shares no state.
- Writeback's rewriting of the open flags in `open_inode`. `HandleData`
  assumes the fd is opened with the flags it caches.
- Entries created during a listing, and `size == 0` in `do_readdir`.
- The metadata queries (getattr, statfs, readlink, access, xattr) and DAX
  mapping. These keep no state of the passthrough layer.

## Plan for the next sittings

1. Add a policy module for setattr, write and fallocate, with file sizes:
   the stale `st_size` of write's seal_size check (line 704) against a
   concurrent truncate, and killpriv.
2. Add an abstract reference-counting specification (each inode a counter of
   outstanding lookups), with `PassthroughFs` shown to refine it through a
   refinement mapping.
