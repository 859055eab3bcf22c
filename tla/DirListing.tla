----------------------------- MODULE DirListing -----------------------------
(***************************************************************************)
(* Directory enumeration of the passthrough filesystem: do_readdir         *)
(* (src/src/passthrough/sync_io.rs) as called by readdir and readdirplus,  *)
(* the explicit lseek handler that shares the directory fd's position, and *)
(* the client that chains the continuation cookie across calls.            *)
(*                                                                         *)
(* The directory is one open directory handle.  Its records sit at slots   *)
(* 1 .. NumEntries + 2 in the order getdents64 returns them: "." and ".."  *)
(* first, then the real entries; the d_off cookie of a record is its slot. *)
(* An entry may be unlinked at any time by another request or on the     *)
(* host; getdents64 no longer returns it, and the closure's do_lookup of   *)
(* a name still in the buffer fails with ENOENT.  The inode-table effects  *)
(* of the closures (do_lookup, forget_one) are modelled in PassthroughFs.  *)
(***************************************************************************)
EXTENDS Naturals, FiniteSets, Sequences

CONSTANTS
    NumEntries,  \* real entries of the directory
    Chunk,       \* records one getdents64 call returns for the reply size
    Cap          \* entries one reply buffer holds

\* The getdents64 buffer and the reply buffer are both sized by the request
\* (a page): one call returns at least the two dot records and one entry,
\* and the reply holds at least one entry.
ASSUME SizeAssumption ==
    /\ NumEntries \in Nat /\ Chunk \in Nat /\ Chunk >= 3 /\ Cap \in Nat \ {0}

Dots == {1, 2}
Entries == 3 .. NumEntries + 2
Slots == 1 .. NumEntries + 2
Offsets == 0 .. NumEntries + 2

VARIABLES
    present,   \* entry slot -> still in the directory
    pos,       \* the directory fd's kernel position
    locked,    \* the handle's position lock (get_file_mut) is held
    rpc,       \* do_readdir's place: "idle", "getdents", "entries"
    buf,       \* records of the getdents64 buffer not yet processed (rem)
    touched,   \* rem.len() != orig_rem_len
    stored,    \* entries add_entry has accepted into the reply
    cookie,    \* client: offset of its next readdir request
    received,  \* client: entries it has been given in this listing
    status,    \* client: "reading", "done" (empty reply), "failed"
    listed0,   \* entries present when this listing started
    removed    \* entries unlinked since this listing started

handlerVars == <<pos, locked, rpc, buf, touched, stored>>
clientVars == <<cookie, received, status, listed0, removed>>
vars == <<present, handlerVars, clientVars>>

-----------------------------------------------------------------------------
\* The slots of a record sequence, its last record, and that it is in
\* directory order.
ToSet(q) == {q[x] : x \in 1 .. Len(q)}
Last(q) == q[Len(q)]
Ascending(q) == \A x, y \in 1 .. Len(q) : x < y => q[x] < q[y]

\* Rank(S, s): how many slots of S come before s.  The k-th record of S in
\* directory order is the slot of rank k - 1.
Rank(S, s) == Cardinality({x \in S : x < s})
InSlotOrder(S) == [x \in 1 .. Cardinality(S) |-> CHOOSE y \in S : Rank(S, y) = x - 1]

\* The records getdents64 returns from position p: the next Chunk records
\* after p that are still in the directory, in directory order.
After(p) == {s \in Slots : s > p /\ (s \in Dots \/ present[s])}
GetDents(p) == InSlotOrder({s \in After(p) : Rank(After(p), s) < Chunk})

(***************************************************************************)
(* The reply reaches the client: an error ends the listing with that error;*)
(* an empty Ok reply is end of directory; otherwise the client takes the   *)
(* entries and continues from the d_off of the last one.                   *)
(***************************************************************************)
ReplyToKernel(ok) ==
    /\ rpc' = "idle" /\ buf' = <<>>
    /\ \/ /\ ~ok
          /\ status' = "failed"
          /\ UNCHANGED <<cookie, received>>
       \/ /\ ok /\ stored = <<>>
          /\ status' = "done"
          /\ UNCHANGED <<cookie, received>>
       \/ /\ ok /\ stored # <<>>
          /\ received' = received \cup ToSet(stored)
          /\ cookie' = Last(stored)
          /\ UNCHANGED status
    /\ UNCHANGED <<present, pos, locked, touched, stored, listed0, removed>>

-----------------------------------------------------------------------------
Init ==
    /\ present = [s \in Entries |-> TRUE]
    /\ pos = 0
    /\ locked = FALSE
    /\ rpc = "idle"
    /\ buf = <<>>
    /\ touched = FALSE
    /\ stored = <<>>
    /\ cookie = 0
    /\ received = {}
    /\ status = "reading"
    /\ listed0 = Entries
    /\ removed = {}

(***************************************************************************)
(* readdir(cookie): get_dirdata, take the position lock and lseek64 the    *)
(* directory fd to the cookie.                                             *)
(***************************************************************************)
readdir_seek_from_start ==
    /\ rpc = "idle" /\ status = "reading"
    /\ ~locked
    /\ locked' = TRUE
    /\ pos' = 0
    /\ rpc' = "getdents"
    /\ stored' = <<>> /\ touched' = FALSE
    /\ UNCHANGED <<present, buf, clientVars>>

readdir_seek ==
    /\ rpc = "idle" /\ status = "reading"
    /\ ~locked
    /\ locked' = TRUE
    /\ pos' = cookie
    /\ rpc' = "getdents"
    /\ stored' = <<>> /\ touched' = FALSE
    /\ UNCHANGED <<present, buf, clientVars>>

\* getdents64 into the buffer from the current position, then drop the lock.
readdir_getdents_past_end ==
    /\ rpc = "getdents"
    /\ buf' = GetDents(pos)
    /\ pos' = IF buf' = <<>> THEN pos ELSE Last(buf') + 1
    /\ locked' = FALSE
    /\ rpc' = "entries"
    /\ UNCHANGED <<present, touched, stored, clientVars>>

readdir_getdents_rereads ==
    /\ rpc = "getdents"
    /\ buf' = GetDents(IF pos = 0 THEN 0 ELSE pos - 1)
    /\ pos' = IF buf' = <<>> THEN pos ELSE Last(buf')
    /\ locked' = FALSE
    /\ rpc' = "entries"
    /\ UNCHANGED <<present, touched, stored, clientVars>>

readdir_getdents ==
    /\ rpc = "getdents"
    /\ buf' = GetDents(pos)
    /\ pos' = IF buf' = <<>> THEN pos ELSE Last(buf')
    /\ locked' = FALSE
    /\ rpc' = "entries"
    /\ UNCHANGED <<present, touched, stored, clientVars>>

(***************************************************************************)
(* One record of the buffer.  "." and ".." are skipped with Ok(1).  A real *)
(* entry goes through the closure: do_lookup fails if the name is gone;    *)
(* otherwise add_entry stores it, or returns Ok(0) when the reply is full. *)
(* Ok(0) ends the call; an error is returned only while rem is untouched,  *)
(* else the call returns Ok with what it stored.                           *)
(***************************************************************************)
Skip ==
    /\ buf' = Tail(buf) /\ touched' = TRUE
    /\ UNCHANGED <<present, pos, locked, rpc, clientVars>>

readdir_entry ==
    /\ rpc = "entries" /\ buf # <<>>
    /\ LET s == Head(buf) IN
       \/ s \in Dots /\ Skip /\ UNCHANGED stored
       \/ /\ s \in Entries /\ present[s] /\ Len(stored) < Cap
          /\ stored' = Append(stored, s) /\ Skip
       \/ s \in Entries /\ present[s] /\ Len(stored) = Cap /\ ReplyToKernel(TRUE)
       \/ s \in Entries /\ ~present[s] /\ ReplyToKernel(touched)

\* The buffer is exhausted: Ok with what was stored.
readdir_done ==
    /\ rpc = "entries" /\ buf = <<>>
    /\ ReplyToKernel(TRUE)

\* lseek on the handle: under the position lock, move the fd's position.
lseek_unlocked(off) ==
    /\ pos' = off
    /\ UNCHANGED <<present, locked, rpc, buf, touched, stored, clientVars>>

lseek(off) ==
    /\ ~locked
    /\ pos' = off
    /\ UNCHANGED <<present, locked, rpc, buf, touched, stored, clientVars>>

\* unlink or rmdir of an entry, by this filesystem or on the host.
unlink(s) ==
    /\ present[s]
    /\ present' = [present EXCEPT ![s] = FALSE]
    /\ removed' = removed \cup {s}
    /\ UNCHANGED <<handlerVars, cookie, received, status, listed0>>

\* The client starts a new listing from offset 0 (rewinddir).
rewind ==
    /\ status # "reading" /\ rpc = "idle"
    /\ cookie' = 0 /\ received' = {} /\ status' = "reading"
    /\ listed0' = {s \in Entries : present[s]} /\ removed' = {}
    /\ UNCHANGED <<present, handlerVars>>

Next ==
    \/ readdir_seek \/ readdir_getdents \/ readdir_entry \/ readdir_done
    \/ \E off \in Offsets : lseek(off)
    \/ \E s \in Entries : unlink(s)
    \/ rewind

\* The worker thread runs a started call to its end, and the client keeps
\* reading while its listing is open.
Fairness ==
    /\ WF_vars(readdir_seek) /\ WF_vars(readdir_getdents)
    /\ WF_vars(readdir_entry) /\ WF_vars(readdir_done)

Spec == Init /\ [][Next]_vars /\ Fairness

-----------------------------------------------------------------------------
TypeOK ==
    /\ present \in [Entries -> BOOLEAN]
    /\ pos \in Offsets
    /\ locked \in BOOLEAN
    /\ rpc \in {"idle", "getdents", "entries"}
    /\ buf \in Seq(Slots) /\ stored \in Seq(Entries)
    /\ touched \in BOOLEAN
    /\ cookie \in Offsets
    /\ received \subseteq Entries
    /\ status \in {"reading", "done", "failed"}
    /\ listed0 \subseteq Entries /\ removed \subseteq Entries

(***************************************************************************)
(* No entry is skipped: every entry before the client's cookie that was    *)
(* in the directory for the whole listing has been given to it.  A reply   *)
(* that drops an entry but moves the cookie past it (an Ok(0) treated as   *)
(* consumed, an lseek moving the position between lseek64 and getdents64)  *)
(* breaks it.                                                              *)
(***************************************************************************)
NoGap ==
    \A s \in listed0 \ removed : s <= cookie => s \in received

(***************************************************************************)
(* Every reply moves forward: the entries it delivers lie after the cookie *)
(* it was asked for, in directory order, and none was delivered before.    *)
(* A position changed under do_readdir, or a cookie chained from the wrong *)
(* record, would deliver an entry twice.                                   *)
(***************************************************************************)
ReplyAdvances ==
    [][rpc # "idle" /\ rpc' = "idle" /\ stored # <<>> /\ status' = "reading" =>
         /\ \A i \in 1 .. Len(stored) : stored[i] > cookie /\ stored[i] \notin received
         /\ Ascending(stored)]_vars

(***************************************************************************)
(* A listing ends: while the client reads, it eventually receives end of   *)
(* directory or an error, as long as the worker runs its calls through.    *)
(***************************************************************************)
ListingEnds == status = "reading" ~> status # "reading"

(***************************************************************************)
(* Spec 4.5: every entry is produced exactly once across the calls of a    *)
(* listing; an error on the first record of a call is returned to the     *)
(* client.  When the client sees end of directory it has every entry that *)
(* stayed in the directory throughout.                                     *)
(***************************************************************************)
CompleteListing ==
    status = "done" => listed0 \ removed \subseteq received
=============================================================================
