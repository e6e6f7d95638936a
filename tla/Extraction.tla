----------------------------- MODULE Extraction -----------------------------
(***************************************************************************)
(* Archive::extract_reporting (archive.rs 798-1032, 1583-1672): threads    *)
(* that take the selected entries from a shared counter and write each to  *)
(* a file of its own, beside other programs that put files in the same     *)
(* place, with units that do not verify and files that cannot be written.  *)
(*                                                                         *)
(* The entries are those that are left after selection, sanitizing and the *)
(* check for colliding names: no two have the same target. How a unit is   *)
(* found and decoded is left out; an entry can be read or it can not.      *)
(***************************************************************************)
EXTENDS Integers, Sequences, FiniteSets

CONSTANTS Workers,   \* the extraction threads
          Entries,   \* the sequence of file entries, `work`
          Dirs,      \* the directory entries
          Parent,    \* the directory that an entry lies in
          MaxOthers, \* bound: files that other programs create
          MaxFaults  \* bound: opens and writes that fail

ASSUME ExtractionAssumption ==
    /\ IsFiniteSet(Workers) /\ Workers # {}
    /\ Entries \in Seq({ Entries[i] : i \in DOMAIN Entries })
    /\ \A i, j \in DOMAIN Entries : Entries[i] = Entries[j] => i = j
    /\ Parent \in [{ Entries[i] : i \in DOMAIN Entries } -> Dirs]
    /\ MaxOthers \in Nat /\ MaxFaults \in Nat

Targets == { Entries[i] : i \in DOMAIN Entries }

Policies == {"Fail", "Skip", "Force"}

VARIABLES
    policy,   \* Overwrite
    damaged,  \* entries of which some unit does not verify
    file,     \* what is at each target
    stamped,  \* directories whose clock is as the archive has it
    phase,    \* where extract_reporting is
    next,     \* the shared counter: entries taken
    stop,     \* the flag, set with `failure`
    worker,   \* where each thread is,
    entry,    \* and the entry it has
    whole,    \* entries counted as extracted,
    kept,     \* as skipped,
    failed,   \* and as failed
    told,     \* ExtractStats::failed: the failures that the caller hears of
    lost,     \* files of other programs that are gone or overwritten
    stuck,    \* targets that remove_file could not remove
    others, faults   \* spent of the two bounds

tally == <<whole, kept, failed, told>>
vars == <<policy, damaged, file, stamped, phase, next, stop, worker, entry, whole, kept,
          failed, told, lost, stuck, others, faults>>

ExtractTypeOK ==
    /\ policy \in Policies /\ damaged \subseteq Targets
    /\ file \in [Targets -> {"none", "foreign", "partial", "whole"}]
    /\ stamped \subseteq Dirs
    /\ phase \in {"dirs", "check", "work", "stamp", "refused", "error", "ok"}
    /\ next \in 0..(Len(Entries) + Cardinality(Workers)) /\ stop \in BOOLEAN
    /\ worker \in [Workers -> {"start", "take", "create", "truncate", "write", "remove", "gone"}]
    /\ entry \in [Workers -> Targets]
    /\ whole \subseteq Targets /\ kept \subseteq Targets /\ failed \subseteq Targets
    /\ told \subseteq Targets
    /\ lost \subseteq Targets /\ stuck \subseteq Targets
    /\ others \in 0..MaxOthers /\ faults \in 0..MaxFaults

Init ==
    /\ policy \in Policies /\ damaged \in SUBSET Targets
    /\ file \in [Targets -> {"none", "foreign"}]
    /\ stamped = {} /\ phase = "dirs" /\ next = 0 /\ stop = FALSE
    /\ worker = [w \in Workers |-> "start"]
    /\ entry = [w \in Workers |-> CHOOSE t \in Targets : TRUE]
    /\ whole = {} /\ kept = {} /\ failed = {} /\ told = {}
    /\ lost = {} /\ stuck = {}
    /\ others = 0 /\ faults = 0

\* A file is created, truncated or removed, which moves the clock of its directory. What
\* was there and was not ours is lost.
Put(t, state) ==
    /\ file' = [file EXCEPT ![t] = state]
    /\ stamped' = stamped \ {Parent[t]}
    /\ lost' = IF file[t] = "foreign" THEN lost \cup {t} ELSE lost

Fault == faults < MaxFaults /\ faults' = faults + 1

Goes(w, state) == worker' = [worker EXCEPT ![w] = state]

----------------------------------------------------------------------------
(* The calling thread. *)

\* create_dir_all; the clocks are whatever they are now.
MakeDirs ==
    /\ phase = "dirs"
    /\ stamped' = {}
    /\ phase' = "check"
    /\ UNCHANGED <<policy, damaged, file, next, stop, worker, entry, tally, lost, stuck,
                   others, faults>>

\* "a refused extraction should not leave half a tree behind"
Check ==
    /\ phase = "check"
    /\ phase' = IF policy = "Fail" /\ \E t \in Targets : file[t] # "none"
                THEN "refused" ELSE "work"
    /\ UNCHANGED <<policy, damaged, file, stamped, next, stop, worker, entry, tally, lost,
                   stuck, others, faults>>

\* No entry will be taken, though some may be being written.
NoMoreToTake == stop \/ next >= Len(Entries)

AllGone == \A w \in Workers : worker[w] = "gone"

\* The scope joins its threads. An archive that a thread could not open is an error of the
\* call, which takes the place of all that the threads have counted.
Joined ==
    /\ phase = "work"
    /\ AllGone
    /\ \/ stop /\ phase' = "error" /\ UNCHANGED told
       \/ ~stop /\ phase' = "stamp" /\ told' = failed
    /\ UNCHANGED <<policy, damaged, file, stamped, next, stop, worker, entry, whole, kept,
                   failed, lost, stuck, others, faults>>

\* restore_metadata on the directories, last of all.
StampDirs ==
    /\ phase = "stamp"
    /\ stamped' = Dirs
    /\ phase' = "ok"
    /\ UNCHANGED <<policy, damaged, file, next, stop, worker, entry, tally, lost, stuck,
                   others, faults>>

----------------------------------------------------------------------------
(* A thread. *)

\* File::open of the archive, once more for each thread.
OpenArchive(w) ==
    /\ phase = "work" /\ worker[w] = "start"
    /\ \/ Goes(w, "take") /\ UNCHANGED <<stop, faults>>
       \/ Goes(w, "gone") /\ stop' = TRUE /\ Fault
    /\ UNCHANGED <<policy, damaged, file, stamped, phase, next, entry, tally, lost,
                   stuck, others>>

\* The counter is read and not moved.
NextRead == next

\* fetch_add: nobody else gets this number.
NextFetched == next + 1

EndsItself(w) == Goes(w, "gone")

\* The counter moves past the end once for every thread that finds nothing there.
TakeEntry(w) ==
    /\ worker[w] = "take"
    /\ \/ /\ stop
          /\ Goes(w, "gone")
          /\ UNCHANGED <<next, entry>>
       \/ /\ ~stop /\ next < Len(Entries)
          /\ next' = NextFetched
          /\ entry' = [entry EXCEPT ![w] = Entries[next + 1]]
          /\ Goes(w, "create")
       \/ /\ ~stop /\ next >= Len(Entries)
          /\ next' = NextFetched
          /\ EndsItself(w)
          /\ UNCHANGED entry
    /\ UNCHANGED <<policy, damaged, file, stamped, phase, stop, tally, lost, stuck, others,
                   faults>>

\* Skip overwrites too.
UnlessFail == policy # "Fail"

MayOverwrite == policy = "Force"

\* create_new, which fails where a file is, whoever put it there; or on its own account,
\* by which an error is returned under every policy.
CreateFile(w) ==
    LET t == entry[w] IN
    /\ worker[w] = "create"
    /\ \/ /\ file[t] = "none"
          /\ Put(t, "partial") /\ Goes(w, "write")
          /\ UNCHANGED <<kept, faults>>
       \/ /\ Fault /\ Goes(w, "remove")
          /\ UNCHANGED <<file, stamped, lost, kept>>
       \/ /\ file[t] # "none"
          /\ \/ policy = "Skip" /\ kept' = kept \cup {t} /\ Goes(w, "take")
             \/ MayOverwrite /\ Goes(w, "truncate") /\ UNCHANGED kept
             \/ policy = "Fail" /\ Goes(w, "remove") /\ UNCHANGED kept
          /\ UNCHANGED <<file, stamped, lost, faults>>
    /\ UNCHANGED <<policy, damaged, phase, next, stop, entry, whole, failed, told, stuck,
                   others>>

\* File::create.
Truncate(w) ==
    /\ worker[w] = "truncate"
    /\ \/ Put(entry[w], "partial") /\ Goes(w, "write") /\ UNCHANGED faults
       \/ Fault /\ Goes(w, "remove") /\ UNCHANGED <<file, stamped, lost>>
    /\ UNCHANGED <<policy, damaged, phase, next, stop, entry, tally, stuck, others>>

\* The units are read, verified and written, and the sizes compared.
WriteFile(w) ==
    /\ worker[w] = "write"
    /\ \/ /\ entry[w] \notin damaged
          /\ file' = [file EXCEPT ![entry[w]] = "whole"]
          /\ whole' = whole \cup {entry[w]}
          /\ Goes(w, "take")
          /\ UNCHANGED faults
       \/ /\ entry[w] \in damaged
          /\ Goes(w, "remove")
          /\ UNCHANGED <<file, whole, faults>>
       \/ /\ Fault
          /\ Goes(w, "remove")
          /\ UNCHANGED <<file, whole>>
    /\ UNCHANGED <<policy, damaged, stamped, phase, next, stop, entry, kept, failed, told,
                   lost, stuck, others>>

\* A file that was begun stays.
LeftAsIs(w) == UNCHANGED <<file, stamped, lost, stuck, faults>>

\* "The partial file goes with it": remove_file of whatever has the name, whose own
\* failure is ignored.
Removed(w) ==
    LET t == entry[w] IN
    \/ file[t] # "none" /\ Put(t, "none") /\ UNCHANGED <<stuck, faults>>
    \/ file[t] # "none" /\ Fault /\ stuck' = stuck \cup {t} /\ UNCHANGED <<file, stamped, lost>>
    \/ file[t] = "none" /\ UNCHANGED <<file, stamped, lost, stuck, faults>>

RemoveFile(w) ==
    /\ worker[w] = "remove"
    /\ Removed(w)
    /\ failed' = failed \cup {entry[w]}
    /\ Goes(w, "take")
    /\ UNCHANGED <<policy, damaged, phase, next, stop, entry, whole, kept, told, others>>

Thread(w) ==
    \/ OpenArchive(w) \/ TakeEntry(w) \/ CreateFile(w) \/ Truncate(w) \/ WriteFile(w)
    \/ RemoveFile(w)

----------------------------------------------------------------------------

\* Another program creates a file where there is none.
OtherCreates(t) ==
    /\ others < MaxOthers /\ file[t] = "none"
    /\ others' = others + 1
    /\ file' = [file EXCEPT ![t] = "foreign"]
    /\ stamped' = stamped \ {Parent[t]}
    /\ UNCHANGED <<policy, damaged, phase, next, stop, worker, entry, tally, lost, stuck, faults>>

Over == phase \in {"refused", "error", "ok"}

Extract == MakeDirs \/ Check \/ Joined \/ StampDirs \/ \E w \in Workers : Thread(w)

Next ==
    \/ Extract
    \/ \E t \in Targets : OtherCreates(t)
    \/ Over /\ UNCHANGED vars

\* Every thread of the extraction runs, and its calls return.
Fairness ==
    /\ WF_vars(MakeDirs \/ Check \/ Joined \/ StampDirs)
    /\ \A w \in Workers : WF_vars(Thread(w))

Spec == Init /\ [][Next]_vars /\ Fairness

----------------------------------------------------------------------------
(* Properties. *)

\* "a short file that looks whole is worse than no file": when the extraction is over, a
\* file is there in part only if it could not be removed, and the caller has been told of
\* its entry, or got an error instead of the list of failures. What is counted as extracted
\* is there, and no damaged entry is among it.
NothingPartial ==
    Over =>
        /\ \A t \in Targets : file[t] = "partial" =>
               t \in stuck \cap failed /\ (t \in told \/ phase = "error")
        /\ \A t \in whole : file[t] = "whole" /\ t \notin damaged

\* Every selected entry is reported, once: extracted, kept or failed, however the threads
\* share them out.
EachIsReportedOnce ==
    /\ whole \cap kept = {} /\ whole \cap failed = {} /\ kept \cap failed = {}
    /\ phase = "ok" => whole \cup kept \cup failed = Targets

\* Without Force a file of another program is lost only by an entry that failed, and a call
\* that succeeds names that entry to its caller; one that returns an error names none. A file
\* that was kept is still there, though other programs create files while the extraction
\* runs ("Leave the existing file alone").
LossIsReported ==
    policy # "Force" =>
        /\ lost \subseteq failed
        /\ phase = "ok" => lost \subseteq told
        /\ \A t \in kept : file[t] = "foreign"

\* A directory's clock is right at the end, though every file written into it has moved
\* it, unless another program writes there too.
ClocksAreRestored == phase = "ok" /\ others = 0 => stamped = Dirs

\* Whatever fails, the extraction comes to an end.
ExtractionEnds == <>Over
=============================================================================
