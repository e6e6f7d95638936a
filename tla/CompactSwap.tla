----------------------------- MODULE CompactSwap -----------------------------
(***************************************************************************)
(* The lock of an archive and the swap at the end of `compact` (archive.rs *)
(* 515-530, 1400-1484): several processes that update or compact the       *)
(* archive at one path. A lock belongs to a file, not to a path; compact   *)
(* has to let go of the file, and with it of the lock, before it can put   *)
(* the copy in its place.                                                  *)
(*                                                                         *)
(* ArchiveLog has what is in a file and takes the lock for granted. Here a *)
(* file is the set of the updates it has, and a commit is one step.        *)
(***************************************************************************)
EXTENDS Integers, FiniteSets

CONSTANTS Procs,       \* the processes
          Nobody,      \* holds the lock of a file that is not locked
          MaxUpdates,  \* bound: updates that are committed
          MaxCopies    \* bound: copies that compact begins

ASSUME SwapAssumption ==
    /\ Nobody \notin Procs
    /\ MaxUpdates \in Nat /\ MaxCopies \in Nat

VARIABLES
    path,     \* the file that has the archive's path
    content,  \* the updates in each file
    holder,   \* who has the lock of it
    pc,       \* where each process is,
    handle,   \* the file it has open,
    mem,      \* the manifest it has read from it,
    copy,     \* and the copy it is making
    updates,  \* updates committed, and acknowledged; 1..updates are their names
    copies    \* copies made; file 0 is the one there was first

vars == <<path, content, holder, pc, handle, mem, copy, updates, copies>>

Files == 0..MaxCopies
Updates == 1..MaxUpdates

SwapTypeOK ==
    /\ path \in Files
    /\ content \in [Files -> SUBSET Updates]
    /\ holder \in [Files -> Procs \cup {Nobody}]
    /\ pc \in [Procs -> {"closed", "opened", "locked", "copied", "released"}]
    /\ handle \in [Procs -> Files] /\ copy \in [Procs -> Files]
    /\ mem \in [Procs -> SUBSET Updates]
    /\ updates \in 0..MaxUpdates /\ copies \in Files

Init ==
    /\ path = 0
    /\ content = [f \in Files |-> {}]
    /\ holder = [f \in Files |-> Nobody]
    /\ pc = [p \in Procs |-> "closed"]
    /\ handle = [p \in Procs |-> 0] /\ copy = [p \in Procs |-> 0]
    /\ mem = [p \in Procs |-> {}]
    /\ updates = 0 /\ copies = 0

\* A file that is closed and stays locked.
LocksWith(p) == holder

\* The locks that are left when p closes its file.
LocksWithout(p) == [f \in Files |-> IF holder[f] = p THEN Nobody ELSE holder[f]]

At(p, state) == pc' = [pc EXCEPT ![p] = state]

\* Archive::open, up to the lock.
OpenFile(p) ==
    /\ pc[p] = "closed"
    /\ handle' = [handle EXCEPT ![p] = path]
    /\ At(p, "opened")
    /\ UNCHANGED <<path, content, holder, mem, copy, updates, copies>>

\* No process is kept out.
LockAnyway(p) == TRUE

Lockable(p) == holder[handle[p]] = Nobody

\* lock_exclusive, and the manifest is read; or the archive "is already open".
Lock(p) ==
    /\ pc[p] = "opened"
    /\ \/ /\ Lockable(p)
          /\ holder' = [holder EXCEPT ![handle[p]] = p]
          /\ mem' = [mem EXCEPT ![p] = content[handle[p]]]
          /\ At(p, "locked")
       \/ /\ ~Lockable(p)
          /\ At(p, "closed")
          /\ UNCHANGED <<holder, mem>>
    /\ UNCHANGED <<path, content, handle, copy, updates, copies>>

\* An update commits what the handle has in memory and itself, and is acknowledged.
Update(p) ==
    /\ pc[p] = "locked" /\ updates < MaxUpdates
    /\ updates' = updates + 1
    /\ mem' = [mem EXCEPT ![p] = @ \cup {updates + 1}]
    /\ content' = [content EXCEPT ![handle[p]] = mem'[p]]
    /\ UNCHANGED <<path, holder, pc, handle, copy, copies>>

\* A copy that leaves out what the handle has committed itself.
CarriedAsOpened(p) == mem[p] \ {updates}

\* What the copy has of the manifest in memory.
Carried(p) == mem[p]

\* compact, up to write_tail on the copy.
Copy(p) ==
    /\ pc[p] = "locked" /\ copies < MaxCopies
    /\ copies' = copies + 1
    /\ copy' = [copy EXCEPT ![p] = copies + 1]
    /\ content' = [content EXCEPT ![copies + 1] = Carried(p)]
    /\ At(p, "copied")
    /\ UNCHANGED <<path, holder, handle, mem, updates>>

\* "close the original handle before replacing (Windows)"
Release(p) ==
    /\ pc[p] = "copied"
    /\ holder' = LocksWithout(p)
    /\ At(p, "released")
    /\ UNCHANGED <<path, content, handle, mem, copy, updates, copies>>

\* replace_file takes the archive's path, or fails and the copy is removed.
Replace(p) ==
    /\ pc[p] = "released"
    /\ path' \in {copy[p], path}
    /\ At(p, "closed")
    /\ UNCHANGED <<content, holder, handle, mem, copy, updates, copies>>

\* The handle is dropped, an operation fails, or the process is killed.
Close(p) ==
    /\ pc[p] # "closed"
    /\ holder' = LocksWithout(p)
    /\ At(p, "closed")
    /\ UNCHANGED <<path, content, handle, mem, copy, updates, copies>>

Next ==
    \E p \in Procs :
        \/ OpenFile(p) \/ Lock(p) \/ Update(p) \/ Copy(p) \/ Release(p) \/ Replace(p)
        \/ Close(p)

Spec == Init /\ [][Next]_vars

----------------------------------------------------------------------------
(* Properties. *)

\* The processes that may write to file f.
Writers(f) == { p \in Procs : pc[p] \in {"locked", "copied"} /\ handle[p] = f }

\* A process that may write to a file has its lock, and a lock never outlives the handle
\* that took it, however the operation ends.
LockedIffWriting == \A f \in Files : \A p \in Procs : holder[f] = p <=> p \in Writers(f)

\* Nobody writes to a file with a manifest older than what the file has, and an update
\* never ends another one: a commit describes "only what the opened manifest knows".
MemoryIsCurrent ==
    \A f \in Files : \A p, q \in Writers(f) : p = q /\ mem[p] = content[f]

\* A step after which u is acknowledged and not at the path: it takes u away from there, or
\* it acknowledges u and has put it elsewhere.
Loses(u) ==
    /\ u <= updates' /\ u \notin content'[path']
    /\ u \in content[path] \/ u > updates

\* The swap of a compact that has not seen u: another process committed u to the file after
\* the compact had let go of its lock, or to the file that had taken the path meanwhile.
SwappedAway(u) ==
    \E p \in Procs : pc[p] = "released" /\ path' = copy[p] /\ u \notin mem[p]

\* A commit to a file that a swap had taken from the path after it was opened.
PutIntoReplaced(u) ==
    \E p \in Procs : handle[p] # path /\ content'[handle[p]] = content[handle[p]] \cup {u}

\* "writers are mutually exclusive" (archive.rs 522) as far as it goes: an acknowledged
\* update, whichever file it was committed to, is lost to the archive's path in two ways
\* only, and both need the swap of a compact, before the update or behind it.
LostOnlyBySwap ==
    [][\A u \in Updates : Loses(u) => SwappedAway(u) \/ PutIntoReplaced(u)]_vars
=============================================================================
