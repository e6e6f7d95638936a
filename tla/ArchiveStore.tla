---------------------------- MODULE ArchiveStore ----------------------------
(***************************************************************************)
(* What a .nva file promises to whoever keeps data in it, with no word     *)
(* about blocks, footers or fsync: the archive holds one tree of files, an *)
(* operation replaces that tree in one step, and a power loss in the       *)
(* middle of one leaves the tree before it or the tree after it.           *)
(* ArchiveLog is the append-only file that has to keep this promise.       *)
(***************************************************************************)
CONSTANTS Paths,      \* the paths an entry may have
          Contents,   \* the contents a file may have
          Absent,     \* marks a path that holds no entry
          NoArchive   \* there is no archive (yet)

VARIABLES shown,      \* the tree that opening the archive now would show
          stored      \* the tree that opening it after a power loss shows

storeVars == <<shown, stored>>

Trees == [Paths -> Contents \cup {Absent}]

EmptyTree == [p \in Paths |-> Absent]

StoreTypeOK ==
    /\ shown \in Trees \cup {NoArchive}
    /\ stored \in Trees \cup {NoArchive}

\* `add`: some paths get new contents, the others keep theirs.
Added(t) ==
    UNION { { [p \in Paths |-> IF p \in S THEN a[p] ELSE t[p]] : a \in [S -> Contents] }
            : S \in SUBSET Paths \ {{}} }

\* `remove`: some of the entries disappear.
Removed(t) ==
    { [p \in Paths |-> IF p \in S THEN Absent ELSE t[p]]
      : S \in SUBSET { p \in Paths : t[p] # Absent } \ {{}} }

\* `rename`: one entry moves to a path that is free.
Moved(t, p, q) == [t EXCEPT ![p] = Absent, ![q] = t[p]]

Renamed(t) ==
    { Moved(t, r[1], r[2]) :
      r \in { s \in Paths \X Paths : t[s[1]] # Absent /\ t[s[2]] = Absent } }

Edits(t) == Added(t) \cup Removed(t) \cup Renamed(t)

----------------------------------------------------------------------------
StoreInit == shown = NoArchive /\ stored = NoArchive

\* The archive comes into being, empty.
Found ==
    /\ shown = NoArchive
    /\ shown' = EmptyTree
    /\ UNCHANGED stored

\* An operation shows its result, all of it at once. The one before it is
\* stored by then, so a power loss costs one operation at the most.
Publish ==
    /\ shown # NoArchive
    /\ stored = shown
    /\ shown' \in Edits(shown)
    /\ UNCHANGED stored

\* What is shown can no longer be lost.
Settle == stored' = shown /\ UNCHANGED shown

\* The power fails: what was stored comes back, or what was shown stays.
PowerFails ==
    /\ shown' \in {shown, stored}
    /\ stored' = shown'

StoreNext == Found \/ Publish \/ Settle \/ PowerFails

StoreSpec == StoreInit /\ [][StoreNext]_storeVars
=============================================================================
