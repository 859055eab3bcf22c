----------------------------- MODULE HandleData -----------------------------
(***************************************************************************)
(* One open file handle of the passthrough filesystem and the requests     *)
(* that use it concurrently (src/src/passthrough/sync_io.rs): read, write, *)
(* flush and fsync take an Arc<HandleData> from the handle map (get_data), *)
(* read and write reconcile the fd's status flags with the request's flags *)
(* through the cached copy in HandleData (check_fd_flags), and release     *)
(* removes the handle from the map.  The HandleData, and with it the fd,   *)
(* is dropped when the last Arc goes.                                      *)
(*                                                                         *)
(* read and write borrow the fd as a File (File::from_raw_fd) and wrap it  *)
(* in ManuallyDrop only after check_fd_flags and, for write, the seal_size *)
(* check: an early return between the two drops the File, which closes the *)
(* fd the HandleData still owns.                                           *)
(***************************************************************************)
EXTENDS Naturals, FiniteSets

CONSTANTS
    Threads,   \* request threads of the FUSE server
    Flags,     \* status flag values a request may carry (model values)
    SealSize   \* the seal_size option

ASSUME ConstAssumption ==
    /\ IsFiniteSet(Threads) /\ Flags # {} /\ SealSize \in BOOLEAN

Ops == {"read", "write", "flush", "fsync"}
Places == {"idle", "check", "setfl", "store", "seal", "io"}

VARIABLES
    mapped,    \* the handle is in the handle map
    refs,      \* strong count of the Arc<HandleData>
    dropped,   \* no HandleData is alive (none opened yet, or dropped)
    fdOpen,    \* the fd number of data.file is open
    fdFlags,   \* the status flags of the open file description
    cached,    \* HandleData's flags (get_flags / set_flags)
    pc,        \* thread -> place in its handler
    op,        \* thread -> handler it runs
    req        \* thread -> flags of its request

vars == <<mapped, refs, dropped, fdOpen, fdFlags, cached, pc, op, req>>

-----------------------------------------------------------------------------
\* No handle is open yet.
Init ==
    /\ mapped = FALSE /\ refs = 0 /\ dropped = TRUE /\ fdOpen = FALSE
    /\ \E f \in Flags : fdFlags = f /\ cached = f
    /\ pc = [w \in Threads |-> "idle"]
    /\ op \in [Threads -> Ops]
    /\ req \in [Threads -> Flags]

\* do_open: open the file with the request's flags and insert a new
\* HandleData carrying those flags into the handle map.
do_open(f) ==
    /\ dropped
    /\ mapped' = TRUE /\ refs' = 1 /\ dropped' = FALSE /\ fdOpen' = TRUE
    /\ fdFlags' = f /\ cached' = f
    /\ UNCHANGED <<pc, op, req>>

\* The place after check_fd_flags: write with seal_size stats the file first.
AfterCheck(w) == IF op[w] = "write" /\ SealSize THEN "seal" ELSE "io"

\* The handler returns and its Arc goes; dropping the last one drops the
\* HandleData and closes the fd.  closesFd: the borrowed File is dropped too.
ReturnFrom(w, closesFd) ==
    /\ pc' = [pc EXCEPT ![w] = "idle"]
    /\ refs' = refs - 1
    /\ dropped' = (refs = 1)
    /\ fdOpen' = (fdOpen /\ ~closesFd /\ refs # 1)
    /\ UNCHANGED <<mapped, fdFlags, cached, op, req>>

\* get_data / handle_map.get: clone the Arc of a mapped handle.
get_data(w, o, f) ==
    /\ pc[w] = "idle" /\ mapped
    /\ refs' = refs + 1
    /\ op' = [op EXCEPT ![w] = o]
    /\ req' = [req EXCEPT ![w] = f]
    /\ pc' = [pc EXCEPT ![w] = IF o \in {"read", "write"} THEN "check" ELSE "io"]
    /\ UNCHANGED <<mapped, dropped, fdOpen, fdFlags, cached>>

\* check_fd_flags: compare the cached flags with the request's.
check_fd_flags_compare(w) ==
    /\ pc[w] = "check"
    /\ pc' = [pc EXCEPT ![w] = IF cached = req[w] THEN AfterCheck(w) ELSE "setfl"]
    /\ UNCHANGED <<mapped, refs, dropped, fdOpen, fdFlags, cached, op, req>>

\* fcntl(F_SETFL); on failure the handler returns early through `?`.
check_fd_flags_fcntl(w) ==
    /\ pc[w] = "setfl"
    /\ \/ /\ fdFlags' = req[w]
          /\ pc' = [pc EXCEPT ![w] = "store"]
          /\ UNCHANGED <<mapped, refs, dropped, fdOpen, cached, op, req>>
       \/ ReturnFrom(w, TRUE)

check_fd_flags_set(w) ==
    /\ pc[w] = "store"
    /\ cached' = req[w]
    /\ pc' = [pc EXCEPT ![w] = AfterCheck(w)]
    /\ UNCHANGED <<mapped, refs, dropped, fdOpen, fdFlags, op, req>>

\* write with seal_size: stat_fd and seal_size_check, each may fail.
write_seal_check(w) ==
    /\ pc[w] = "seal"
    /\ \/ /\ pc' = [pc EXCEPT ![w] = "io"]
          /\ UNCHANGED <<mapped, refs, dropped, fdOpen, fdFlags, cached, op, req>>
       \/ ReturnFrom(w, TRUE)

\* The I/O on the fd and the return, with the borrowed File held in
\* ManuallyDrop: read's write_from; write's killpriv capability drop and
\* read_to; flush's dup and close of the copy; fsync or fdatasync (fsyncdir
\* calls fsync).  Each may fail; the return is the same.
read_io(w) == pc[w] = "io" /\ op[w] = "read" /\ ReturnFrom(w, FALSE)

write_io(w) == pc[w] = "io" /\ op[w] = "write" /\ ReturnFrom(w, FALSE)

flush_io(w) == pc[w] = "io" /\ op[w] = "flush" /\ ReturnFrom(w, FALSE)

fsync_io(w) == pc[w] = "io" /\ op[w] = "fsync" /\ ReturnFrom(w, FALSE)

release_unguarded ==
    /\ mapped' = FALSE
    /\ refs' = refs - 1
    /\ dropped' = (refs = 1)
    /\ fdOpen' = (fdOpen /\ refs # 1)
    /\ UNCHANGED <<fdFlags, cached, pc, op, req>>

release_drops_now ==
    /\ mapped
    /\ mapped' = FALSE
    /\ refs' = refs - 1
    /\ dropped' = TRUE
    /\ fdOpen' = FALSE
    /\ UNCHANGED <<fdFlags, cached, pc, op, req>>

\* release: do_release removes the handle from the map and drops the map's Arc.
release ==
    /\ mapped
    /\ mapped' = FALSE
    /\ refs' = refs - 1
    /\ dropped' = (refs = 1)
    /\ fdOpen' = (fdOpen /\ refs # 1)
    /\ UNCHANGED <<fdFlags, cached, pc, op, req>>

Next ==
    \/ \E f \in Flags : do_open(f)
    \/ \E w \in Threads :
          \/ \E o \in Ops, f \in Flags : get_data(w, o, f)
          \/ check_fd_flags_compare(w) \/ check_fd_flags_fcntl(w)
          \/ check_fd_flags_set(w) \/ write_seal_check(w)
          \/ read_io(w) \/ write_io(w) \/ flush_io(w) \/ fsync_io(w)
    \/ release

Spec == Init /\ [][Next]_vars

-----------------------------------------------------------------------------
TypeOK ==
    /\ mapped \in BOOLEAN /\ dropped \in BOOLEAN /\ fdOpen \in BOOLEAN
    /\ refs \in 0 .. Cardinality(Threads) + 1
    /\ fdFlags \in Flags /\ cached \in Flags
    /\ pc \in [Threads -> Places] /\ op \in [Threads -> Ops]
    /\ req \in [Threads -> Flags]

Busy == {w \in Threads : pc[w] # "idle"}

(***************************************************************************)
(* The HandleData is dropped exactly when nothing references it: release   *)
(* racing requests in flight on the same handle leaves the data, and the   *)
(* fd, alive until the last of them returns, and the last return drops it. *)
(***************************************************************************)
DropExactlyWhenUnreferenced ==
    dropped <=> (~mapped /\ Busy = {})

(***************************************************************************)
(* The comments of read and write: "data.file won't be closed" while the   *)
(* handler runs.  Every thread that is about to touch the fd (fcntl, fstat *)
(* or the I/O) finds it open.                                              *)
(***************************************************************************)
NoIOOnClosedFd ==
    \A w \in Threads : pc[w] \in {"setfl", "seal", "io"} => fdOpen

(***************************************************************************)
(* check_fd_flags' contract: the flags stored in the HandleData are the    *)
(* flags of the fd, except while a thread is between its fcntl and its     *)
(* set_flags.  When it fails, a request whose flags equal the cached ones  *)
(* skips fcntl and runs with the fd's other flags (O_APPEND, O_DIRECT...). *)
(***************************************************************************)
CacheCoherent ==
    (~dropped /\ \A w \in Threads : pc[w] # "store") => cached = fdFlags
=============================================================================
