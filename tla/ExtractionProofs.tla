-------------------------- MODULE ExtractionProofs --------------------------
(***************************************************************************)
(* Extraction for any number of threads, entries, directories, faults and  *)
(* files of other programs.                                                *)
(***************************************************************************)
EXTENDS Extraction, TLAPS

Busy == {"create", "truncate", "write", "remove"}
Places == Busy \cup {"start", "take", "gone"}
Phases == {"dirs", "check", "work", "stamp", "refused", "error", "ok"}

\* The entries whose numbers have been given out.
Taken == { Entries[i] : i \in { k \in 1..Len(Entries) : k <= next } }
Reported == whole \cup kept \cup failed

ExtractTypes ==
    /\ policy \in Policies
    /\ file \in [Targets -> {"none", "foreign", "partial", "whole"}]
    /\ stamped \subseteq Dirs /\ phase \in Phases
    /\ next \in Nat /\ stop \in BOOLEAN /\ others \in Nat
    /\ worker \in [Workers -> Places]
    /\ entry = [w \in Workers |-> entry[w]]
    /\ whole \subseteq Targets /\ kept \subseteq Targets /\ failed \subseteq Targets
    /\ told \subseteq Targets /\ lost \subseteq Targets

\* An entry is in the hands of one thread from its number until its report, and of
\* nobody else.
ShareInv ==
    /\ \A w \in Workers : worker[w] \in Busy => entry[w] \in Taken \ Reported
    /\ \A v, w \in Workers :
           worker[v] \in Busy /\ worker[w] \in Busy /\ entry[v] = entry[w] => v = w
    /\ Reported \subseteq Taken
    /\ whole \cap kept = {} /\ whole \cap failed = {} /\ kept \cap failed = {}
    /\ \A t \in Taken \ Reported : \E w \in Workers : worker[w] \in Busy /\ entry[w] = t

\* What becomes of other programs' files while nobody has been told of anything yet.
LossInv ==
    policy # "Force" => lost \subseteq failed /\ \A t \in kept : file[t] = "foreign"

\* A file in part belongs to a thread that has yet to finish or remove it.
FileInv ==
    /\ \A t \in Targets : file[t] = "partial" =>
           \/ t \in stuck \cap failed
           \/ \E w \in Workers : worker[w] \in {"write", "remove"} /\ entry[w] = t
    /\ \A t \in Targets : file[t] = "whole" => t \in whole
    /\ \A t \in whole : file[t] = "whole" /\ t \notin damaged
    /\ \A w \in Workers : worker[w] = "write" => file[entry[w]] = "partial"
    /\ \A w \in Workers : worker[w] = "truncate" => policy = "Force"

PhaseInv ==
    /\ phase \in {"dirs", "check", "refused"} => \A w \in Workers : worker[w] = "start"
    /\ phase \in {"stamp", "error", "ok"} => AllGone
    /\ phase \in {"stamp", "ok"} => ~stop
    /\ \A w \in Workers : worker[w] = "gone" => stop \/ next >= Len(Entries)
    /\ phase \in {"stamp", "ok"} => told = failed
    /\ phase \in {"dirs", "check", "refused"} => failed = {}

ExtractInv ==
    /\ ExtractTypes /\ ShareInv /\ FileInv /\ PhaseInv
    /\ LossInv /\ ClocksAreRestored

--------------------------------------------------------------------------------
(* Entries and their numbers.                                                  *)

LEMMA EntriesAreTargets == /\ Len(Entries) \in Nat
                           /\ \A i \in 1..Len(Entries) : Entries[i] \in Targets
                           /\ \A i, j \in 1..Len(Entries) : Entries[i] = Entries[j] => i = j
                           /\ Targets = { Entries[i] : i \in 1..Len(Entries) }
<1>1. DOMAIN Entries = 1..Len(Entries) /\ Len(Entries) \in Nat
  BY ExtractionAssumption
<1> QED BY <1>1, ExtractionAssumption DEF Targets

LEMMA NothingTaken == next = 0 => Taken = {}
BY EntriesAreTargets DEF Taken

LEMMA OneMoreTaken == ASSUME next \in Nat, next < Len(Entries), next' = next + 1
                      PROVE  /\ Taken' = Taken \cup {Entries[next + 1]}
                             /\ Entries[next + 1] \notin Taken
                             /\ Entries[next + 1] \in Targets
BY EntriesAreTargets DEF Taken

LEMMA AllTaken == ASSUME next \in Nat, next >= Len(Entries) PROVE Taken = Targets
BY EntriesAreTargets DEF Taken

LEMMA TakenAreTargets == Taken \subseteq Targets
BY EntriesAreTargets DEF Taken

LEMMA ParentsAreDirs == \A t \in Targets : Parent[t] \in Dirs
BY ExtractionAssumption DEF Targets

LEMMA ExtractInit == Init => ExtractInv
<1> SUFFICES ASSUME Init PROVE ExtractInv
  OBVIOUS
<1>1. ExtractTypes
  BY ExtractionAssumption DEF Init, ExtractTypes, Places, Phases, Busy
<1>2. ShareInv
  BY NothingTaken DEF Init, ShareInv, Reported, Busy
<1>3. FileInv /\ PhaseInv
  BY DEF Init, FileInv, PhaseInv, Busy
<1> QED BY <1>1, <1>2, <1>3 DEF Init, ExtractInv, LossInv, ClocksAreRestored

--------------------------------------------------------------------------------
(* What a thread's step does to the shares, by its kind.                       *)

\* A thread goes on with its entry.
LEMMA EntryStays == ASSUME ExtractTypes, ShareInv, NEW w \in Workers, NEW s \in Busy,
                           worker[w] \in Busy, Goes(w, s), UNCHANGED <<entry, next, tally>>
                    PROVE  ShareInv'
<1>1. Taken' = Taken /\ Reported' = Reported
  BY DEF Taken, Reported, tally
<1>2. \A v \in Workers : worker'[v] \in Busy <=> worker[v] \in Busy
  BY DEF ExtractTypes, Goes
<1> QED BY <1>1, <1>2 DEF ShareInv, tally

\* A thread has reported its entry and asks for another.
LEMMA EntryGoes == ASSUME ExtractTypes, ShareInv, NEW w \in Workers, worker[w] \in Busy,
                          Goes(w, "take"), UNCHANGED <<entry, next>>,
                          Reported' = Reported \cup {entry[w]},
                          (whole \cap kept = {} /\ whole \cap failed = {} /\ kept \cap failed = {})'
                   PROVE  ShareInv'
<1>1. Taken' = Taken
  BY DEF Taken
<1>2. \A v \in Workers : worker'[v] \in Busy <=> worker[v] \in Busy /\ v # w
  BY DEF ExtractTypes, Goes, Busy
<1>3. ASSUME NEW v \in Workers, worker'[v] \in Busy PROVE entry'[v] \in (Taken \ Reported)'
  BY <1>1, <1>2, <1>3 DEF ShareInv
<1>4. ASSUME NEW t \in (Taken \ Reported)' PROVE \E v \in Workers : worker'[v] \in Busy /\ entry'[v] = t
  <2>1. t \in Taken \ Reported /\ t # entry[w]
    BY <1>1
  <2>2. PICK v \in Workers : worker[v] \in Busy /\ entry[v] = t
    BY <2>1 DEF ShareInv
  <2> QED BY <1>2, <2>1, <2>2
<1>5. Reported' \subseteq Taken'
  BY <1>1 DEF ShareInv
<1>6. \A u, v \in Workers :
          worker'[u] \in Busy /\ worker'[v] \in Busy /\ entry'[u] = entry'[v] => u = v
  BY <1>2 DEF ShareInv
<1> QED BY <1>3, <1>4, <1>5, <1>6 DEF ShareInv

\* A thread without an entry stays without one.
LEMMA NoEntry == ASSUME ExtractTypes, ShareInv, NEW w \in Workers, NEW s \in {"take", "gone"},
                        worker[w] \in {"start", "take"}, Goes(w, s), UNCHANGED <<entry, tally>>,
                        Taken' = Taken
                 PROVE  ShareInv'
<1>1. Reported' = Reported
  BY DEF Reported, tally
<1>2. \A v \in Workers : worker'[v] \in Busy <=> worker[v] \in Busy
  BY DEF ExtractTypes, Goes, Busy
<1> QED BY <1>1, <1>2 DEF ShareInv, tally

\* A thread gets the next entry of the list.
LEMMA EntryComes == ASSUME ExtractTypes, ShareInv, NEW w \in Workers, worker[w] = "take",
                           next < Len(Entries), next' = NextFetched,
                           entry' = [entry EXCEPT ![w] = Entries[next + 1]],
                           Goes(w, "create"), UNCHANGED tally
                    PROVE  ShareInv'
<1> DEFINE e == Entries[next + 1]
<1>1. Taken' = Taken \cup {e} /\ e \notin Taken
  BY OneMoreTaken DEF ExtractTypes, NextFetched
<1>2. Reported' = Reported
  BY DEF Reported, tally
<1>3. entry'[w] = e /\ \A v \in Workers : v # w => entry'[v] = entry[v]
  BY DEF ExtractTypes
<1>4. /\ worker'[w] = "create" /\ worker[w] \notin Busy
      /\ \A v \in Workers : v # w => worker'[v] = worker[v]
  BY DEF ExtractTypes, Goes, Busy
<1> HIDE DEF e
<1>5. ASSUME NEW v \in Workers, worker'[v] \in Busy PROVE entry'[v] \in (Taken \ Reported)'
  BY <1>1, <1>2, <1>3, <1>4, <1>5 DEF ShareInv
<1>6. \A u, v \in Workers :
          worker'[u] \in Busy /\ worker'[v] \in Busy /\ entry'[u] = entry'[v] => u = v
  BY <1>1, <1>3, <1>4 DEF ShareInv
<1>7. ASSUME NEW t \in (Taken \ Reported)' PROVE \E v \in Workers : worker'[v] \in Busy /\ entry'[v] = t
  <2>1. CASE t = e
    BY <2>1, <1>3, <1>4 DEF Busy
  <2>2. CASE t \in Taken \ Reported
    BY <2>2, <1>3, <1>4 DEF ShareInv
  <2> QED BY <1>1, <1>2, <2>1, <2>2
<1> QED BY <1>1, <1>2, <1>5, <1>6, <1>7 DEF ShareInv, tally

--------------------------------------------------------------------------------
(* The actions.                                                                *)

LEMMA OpenArchiveKeeps == ASSUME ExtractInv, NEW w \in Workers, OpenArchive(w) PROVE ExtractInv'
<1>1. Taken' = Taken
  BY DEF OpenArchive, Taken
<1>2. PICK s \in {"take", "gone"} : Goes(w, s) /\ (s = "gone" => stop') /\ (stop' # stop => stop')
  BY DEF OpenArchive, ExtractInv, ExtractTypes
<1>3. ExtractTypes'
  BY <1>2 DEF OpenArchive, Goes, ExtractInv, ExtractTypes, Places, Busy, tally
<1>4. ShareInv'
  BY <1>1, <1>2, NoEntry DEF OpenArchive, ExtractInv
<1>5. FileInv'
  BY <1>2 DEF OpenArchive, Goes, ExtractInv, ExtractTypes, FileInv, tally
<1>6. PhaseInv'
  BY <1>2 DEF OpenArchive, Goes, ExtractInv, ExtractTypes, PhaseInv, AllGone, tally
<1> QED BY <1>3, <1>4, <1>5, <1>6 DEF OpenArchive, ExtractInv, LossInv, ClocksAreRestored,
           tally

LEMMA TakeEntryKeeps == ASSUME ExtractInv, NEW w \in Workers, TakeEntry(w) PROVE ExtractInv'
<1>1. CASE stop /\ Goes(w, "gone") /\ UNCHANGED <<next, entry>>
  <2>1. Taken' = Taken
    BY <1>1 DEF Taken
  <2>2. ExtractTypes'
    BY <1>1 DEF TakeEntry, Goes, ExtractInv, ExtractTypes, Places, Busy, tally
  <2>3. ShareInv'
    BY <1>1, <2>1, NoEntry DEF TakeEntry, ExtractInv
  <2>4. FileInv'
    BY <1>1 DEF TakeEntry, Goes, ExtractInv, ExtractTypes, FileInv, tally
  <2>5. PhaseInv'
    BY <1>1 DEF TakeEntry, Goes, ExtractInv, ExtractTypes, PhaseInv, AllGone, tally
  <2> QED BY <2>2, <2>3, <2>4, <2>5
          DEF TakeEntry, ExtractInv, LossInv, ClocksAreRestored, tally
<1>2. CASE /\ next < Len(Entries) /\ next' = NextFetched
           /\ entry' = [entry EXCEPT ![w] = Entries[next + 1]] /\ Goes(w, "create")
  <2>1. ExtractTypes'
    BY <1>2 DEF TakeEntry, NextFetched, Goes, ExtractInv, ExtractTypes, Places, Busy, tally
  <2>2. ShareInv'
    BY <1>2, EntryComes DEF TakeEntry, ExtractInv
  <2>3. /\ worker[w] = "take" /\ worker'[w] = "create"
        /\ \A v \in Workers : v # w => worker'[v] = worker[v] /\ entry'[v] = entry[v]
    BY <1>2 DEF TakeEntry, Goes, ExtractInv, ExtractTypes
  <2>4. FileInv'
    <3>1. UNCHANGED <<file, stuck, failed, whole, damaged, policy>> /\ FileInv
      BY DEF TakeEntry, ExtractInv, tally
    <3>2. ASSUME NEW t \in Targets, file[t] = "partial", t \notin stuck \cap failed
          PROVE  \E v \in Workers : worker'[v] \in {"write", "remove"} /\ entry'[v] = t
      <4>1. PICK v \in Workers : worker[v] \in {"write", "remove"} /\ entry[v] = t
        BY <3>1, <3>2 DEF FileInv
      <4> QED BY <4>1, <2>3
    <3> QED BY <2>3, <3>1, <3>2 DEF FileInv
  <2>5. PhaseInv'
    <3>1. UNCHANGED <<phase, stop>> /\ PhaseInv
      BY DEF TakeEntry, ExtractInv, tally
    <3>2. phase \notin {"dirs", "check", "refused", "stamp", "error", "ok"}
      BY <2>3, <3>1 DEF PhaseInv, AllGone, tally
    <3>3. ~(next >= Len(Entries))
      BY <1>2, EntriesAreTargets DEF ExtractInv, ExtractTypes
    <3>4. ASSUME NEW v \in Workers, worker'[v] = "gone" PROVE stop'
      BY <2>3, <3>1, <3>3, <3>4 DEF PhaseInv
    <3> QED BY <3>1, <3>2, <3>4 DEF PhaseInv
  <2> QED BY <2>1, <2>2, <2>4, <2>5
          DEF TakeEntry, ExtractInv, LossInv, ClocksAreRestored, tally
<1>3. CASE next >= Len(Entries) /\ next' = NextFetched /\ EndsItself(w) /\ UNCHANGED entry
  <2>1. next' \in Nat /\ next' >= Len(Entries)
    BY <1>3, EntriesAreTargets DEF NextFetched, ExtractInv, ExtractTypes
  <2>2. Taken' = Taken
    <3>1. Taken = Targets
      BY <1>3, AllTaken DEF ExtractInv, ExtractTypes
    <3>2. Taken' = Targets
      BY <2>1, EntriesAreTargets DEF Taken
    <3> QED BY <3>1, <3>2
  <2>3. ExtractTypes'
    BY <1>3, <2>1 DEF TakeEntry, EndsItself, Goes, ExtractInv, ExtractTypes, Places, Busy,
       tally
  <2>4. ShareInv'
    BY <1>3, <2>2, NoEntry DEF TakeEntry, EndsItself, ExtractInv
  <2>5. FileInv'
    BY <1>3 DEF TakeEntry, EndsItself, Goes, ExtractInv, ExtractTypes, FileInv, tally
  <2>6. PhaseInv'
    BY <1>3, <2>1, EntriesAreTargets
       DEF TakeEntry, EndsItself, Goes, ExtractInv, ExtractTypes, PhaseInv, AllGone, tally
  <2> QED BY <2>3, <2>4, <2>5, <2>6
          DEF TakeEntry, ExtractInv, LossInv, ClocksAreRestored, tally
<1> QED BY <1>1, <1>2, <1>3 DEF TakeEntry

\* The holder of an entry is the only one to change what is at its target.
LEMMA HolderIsAlone == ASSUME ExtractInv, NEW w \in Workers, worker[w] \in Busy
                       PROVE  /\ entry[w] \in Targets /\ entry[w] \notin Reported
                              /\ \A v \in Workers \ {w} : worker[v] \in Busy => entry[v] # entry[w]
                              /\ file[entry[w]] # "whole"
                              /\ worker[w] \in {"create", "truncate"} => file[entry[w]] # "partial"
                              /\ phase = "work"
<1>1. entry[w] \in Targets /\ entry[w] \notin Reported
  BY TakenAreTargets DEF ExtractInv, ShareInv
<1>2. \A v \in Workers \ {w} : worker[v] \in Busy => entry[v] # entry[w]
  BY DEF ExtractInv, ShareInv
<1>3. file[entry[w]] # "whole"
  BY <1>1 DEF ExtractInv, FileInv, Reported
<1>4. worker[w] \in {"create", "truncate"} => file[entry[w]] # "partial"
  BY <1>1, <1>2 DEF ExtractInv, FileInv, Reported, Busy
<1>5. phase = "work"
  BY DEF ExtractInv, ExtractTypes, PhaseInv, AllGone, Phases, Busy
<1> QED BY <1>1, <1>2, <1>3, <1>4, <1>5

\* Whoever holds an entry and changes its file says so in the same step.
LEMMA OwnFile == ASSUME ExtractInv, NEW w \in Workers, worker[w] \in Busy,
                        NEW s \in Busy, NEW state \in {"none", "partial"},
                        Goes(w, s), Put(entry[w], state),
                        state = "partial" => s = "write", s = "write" => state = "partial",
                        s # "truncate",
                        UNCHANGED <<policy, damaged, entry, tally, stuck>>
                 PROVE  FileInv'
<1> DEFINE t == entry[w]
<1>1. t \in Targets /\ t \notin whole
  BY HolderIsAlone DEF Reported
<1>2. file'[t] = state /\ \A u \in Targets : u # t => file'[u] = file[u]
  BY <1>1 DEF Put, ExtractInv, ExtractTypes
<1>3. worker'[w] = s /\ \A v \in Workers : v # w => worker'[v] = worker[v]
  BY DEF Goes, ExtractInv, ExtractTypes
<1>4. \A v \in Workers \ {w} : worker[v] \in Busy => entry[v] # t
  BY HolderIsAlone
<1>5. \A v \in Workers : worker[v] \in Busy => entry[v] \in Targets
  BY HolderIsAlone
<1> HIDE DEF t
<1>6. ASSUME NEW u \in Targets, file'[u] = "partial"
      PROVE  \/ u \in (stuck \cap failed)'
             \/ \E v \in Workers : worker'[v] \in {"write", "remove"} /\ entry'[v] = u
  <2>1. CASE u = t
    BY <1>2, <1>3, <1>6, <2>1 DEF t
  <2>2. CASE u # t
    <3>1. CASE u \in stuck \cap failed
      BY <3>1 DEF tally
    <3>2. CASE \E v \in Workers : worker[v] \in {"write", "remove"} /\ entry[v] = u
      BY <1>3, <2>2, <3>2 DEF t
    <3> QED BY <1>2, <1>6, <2>2, <3>1, <3>2 DEF ExtractInv, FileInv
  <2> QED BY <2>1, <2>2
<1>7. \A v \in Workers : worker'[v] = "write" => file'[entry'[v]] = "partial"
  BY <1>2, <1>3, <1>4, <1>5 DEF ExtractInv, FileInv, Busy, t
<1>8. \A v \in Workers : worker'[v] = "truncate" => policy' = "Force"
  BY <1>3 DEF ExtractInv, FileInv
<1>9. \A u \in Targets : file'[u] = "whole" => u \in whole'
  BY <1>2 DEF ExtractInv, FileInv, tally
<1>10. \A u \in whole' : file'[u] = "whole" /\ u \notin damaged'
  BY <1>1, <1>2 DEF ExtractInv, ExtractTypes, FileInv, tally
<1> QED BY <1>6, <1>7, <1>8, <1>9, <1>10 DEF FileInv

\* A thread moves on and leaves all files alone.
LEMMA NoFile == ASSUME ExtractInv, NEW w \in Workers, worker[w] \in Busy,
                       NEW s \in {"remove", "truncate"},
                       Goes(w, s), s = "truncate" => policy = "Force" /\ worker[w] = "create",
                       UNCHANGED <<policy, damaged, entry, file, tally, stuck>>
                PROVE  FileInv'
<1>1. worker'[w] = s /\ \A v \in Workers : v # w => worker'[v] = worker[v]
  BY DEF Goes, ExtractInv, ExtractTypes
<1>2. ASSUME NEW u \in Targets, file[u] = "partial", u \notin stuck \cap failed
      PROVE  \E v \in Workers : worker'[v] \in {"write", "remove"} /\ entry[v] = u
  BY <1>1, <1>2, HolderIsAlone DEF ExtractInv, FileInv, Busy
<1> QED BY <1>1, <1>2 DEF ExtractInv, FileInv, tally

\* A busy thread's step leaves the phase alone, and nobody is gone by it.
LEMMA PhaseStays == ASSUME ExtractInv, NEW w \in Workers, worker[w] \in Busy,
                           NEW s \in Busy \cup {"take"}, Goes(w, s),
                           UNCHANGED <<phase, stop, next>>
                    PROVE  PhaseInv'
<1>1. phase = "work"
  BY HolderIsAlone
<1>2. \A v \in Workers : worker'[v] = "gone" => worker[v] = "gone"
  BY DEF Goes, ExtractInv, ExtractTypes, Busy
<1> QED BY <1>1, <1>2 DEF ExtractInv, PhaseInv

LEMMA CreateFileKeeps == ASSUME ExtractInv, NEW w \in Workers, CreateFile(w) PROVE ExtractInv'
<1> DEFINE t == entry[w]
<1>1. worker[w] = "create" /\ worker[w] \in Busy /\ phase' = "work" /\ phase = "work"
  BY HolderIsAlone DEF CreateFile, Busy
<1>2. ClocksAreRestored'
  BY <1>1 DEF ClocksAreRestored
<1>3. CASE file[t] = "none" /\ Put(t, "partial") /\ Goes(w, "write") /\ UNCHANGED kept
  <2>1. ExtractTypes'
    BY <1>1, <1>3, ParentsAreDirs, HolderIsAlone
       DEF CreateFile, Put, Goes, ExtractInv, ExtractTypes, Places, Busy
  <2>2. ShareInv' /\ FileInv' /\ PhaseInv'
    BY <1>1, <1>3, EntryStays, OwnFile, PhaseStays DEF CreateFile, ExtractInv, tally, Busy
  <2>3. LossInv'
    BY <1>1, <1>3, HolderIsAlone
       DEF CreateFile, Put, ExtractInv, ExtractTypes, LossInv, Reported
  <2> QED BY <1>2, <2>1, <2>2, <2>3 DEF ExtractInv
<1>4. CASE \E s \in {"remove", "truncate"} :
               /\ Goes(w, s) /\ (s = "truncate" => MayOverwrite)
               /\ UNCHANGED <<file, stamped, lost, kept>>
  <2>1. PICK s \in {"remove", "truncate"} :
               /\ Goes(w, s) /\ (s = "truncate" => MayOverwrite)
               /\ UNCHANGED <<file, stamped, lost, kept>>
    BY <1>4
  <2>2. ExtractTypes'
    BY <1>1, <2>1 DEF CreateFile, Goes, ExtractInv, ExtractTypes, Places, Busy
  <2>3. ShareInv' /\ PhaseInv'
    BY <1>1, <2>1, EntryStays, PhaseStays DEF CreateFile, ExtractInv, tally, Busy
  <2>4. FileInv'
    BY <1>1, <2>1, NoFile DEF CreateFile, MayOverwrite, tally
  <2>5. LossInv'
    BY <2>1 DEF CreateFile, ExtractInv, LossInv
  <2> QED BY <1>2, <2>2, <2>3, <2>4, <2>5 DEF ExtractInv
<1>5. CASE /\ file[t] # "none" /\ policy = "Skip" /\ kept' = kept \cup {t} /\ Goes(w, "take")
           /\ UNCHANGED <<file, stamped, lost>>
  <2>1. t \in Targets /\ t \notin Reported /\ file[t] = "foreign"
    BY <1>1, <1>5, HolderIsAlone DEF ExtractInv, ExtractTypes
  <2>2. ExtractTypes'
    BY <1>1, <1>5, <2>1 DEF CreateFile, Goes, ExtractInv, ExtractTypes, Places, Busy
  <2>3. ShareInv'
    <3>1. Reported' = Reported \cup {t}
      BY <1>5 DEF CreateFile, Reported
    <3>2. (whole \cap kept = {} /\ whole \cap failed = {} /\ kept \cap failed = {})'
      BY <1>5, <2>1 DEF CreateFile, Reported, ExtractInv, ShareInv
    <3> QED BY <1>1, <1>5, <3>1, <3>2, EntryGoes DEF CreateFile, ExtractInv
  <2>4. FileInv'
    <3>1. worker'[w] = "take" /\ \A v \in Workers : v # w => worker'[v] = worker[v]
      BY <1>5 DEF Goes, ExtractInv, ExtractTypes
    <3> QED BY <1>1, <1>5, <3>1 DEF CreateFile, ExtractInv, FileInv
  <2>5. PhaseInv'
    BY <1>1, <1>5, PhaseStays DEF CreateFile
  <2>6. LossInv'
    BY <1>5, <2>1 DEF CreateFile, ExtractInv, LossInv
  <2> QED BY <1>2, <2>2, <2>3, <2>4, <2>5, <2>6 DEF ExtractInv
<1> QED BY <1>3, <1>4, <1>5 DEF CreateFile

LEMMA TruncateKeeps == ASSUME ExtractInv, NEW w \in Workers, Truncate(w) PROVE ExtractInv'
<1>1. worker[w] = "truncate" /\ worker[w] \in Busy /\ phase' = "work" /\ phase = "work"
  BY HolderIsAlone DEF Truncate, Busy
<1>2. policy = "Force" /\ policy' = "Force"
  BY <1>1 DEF Truncate, ExtractInv, FileInv
<1>3. ClocksAreRestored' /\ LossInv'
  BY <1>1, <1>2 DEF ClocksAreRestored, LossInv
<1>4. CASE Put(entry[w], "partial") /\ Goes(w, "write")
  <2>1. ExtractTypes'
    BY <1>1, <1>4, ParentsAreDirs, HolderIsAlone
       DEF Truncate, Put, Goes, ExtractInv, ExtractTypes, Places, Busy, tally
  <2>2. ShareInv' /\ FileInv' /\ PhaseInv'
    BY <1>1, <1>4, EntryStays, OwnFile, PhaseStays DEF Truncate, ExtractInv, Busy
  <2> QED BY <1>3, <2>1, <2>2 DEF ExtractInv
<1>5. CASE Goes(w, "remove") /\ UNCHANGED <<file, stamped, lost>>
  <2>1. ExtractTypes'
    BY <1>1, <1>5 DEF Truncate, Goes, ExtractInv, ExtractTypes, Places, Busy, tally
  <2>2. ShareInv' /\ FileInv' /\ PhaseInv'
    BY <1>1, <1>5, EntryStays, NoFile, PhaseStays DEF Truncate, ExtractInv, Busy
  <2> QED BY <1>3, <2>1, <2>2 DEF ExtractInv
<1> QED BY <1>4, <1>5 DEF Truncate

\* A thread reports the entry it has, and what is at the target is then nobody's: the
\* whole file, or nothing, or what could not be removed.
LEMMA FileLetGo == ASSUME ExtractInv, NEW w \in Workers, worker[w] \in Busy, Goes(w, "take"),
                          UNCHANGED <<policy, damaged, entry>>,
                          whole \subseteq whole', whole' \subseteq whole \cup {entry[w]},
                          stuck \subseteq stuck', failed \subseteq failed',
                          file' \in [Targets -> {"none", "foreign", "partial", "whole"}],
                          \A u \in Targets : u # entry[w] => file'[u] = file[u],
                          file'[entry[w]] = "partial" => entry[w] \in (stuck \cap failed)',
                          file'[entry[w]] = "whole" <=> entry[w] \in whole',
                          entry[w] \in whole' => entry[w] \notin damaged
                   PROVE  FileInv'
<1> DEFINE t == entry[w]
<1>1. worker'[w] = "take" /\ \A v \in Workers : v # w => worker'[v] = worker[v]
  BY DEF Goes, ExtractInv, ExtractTypes
<1>2. \A v \in Workers \ {w} : worker[v] \in Busy => entry[v] # t /\ entry[v] \in Targets
  BY HolderIsAlone
<1>3. FileInv /\ t \in Targets
  BY HolderIsAlone DEF ExtractInv
<1>4. ASSUME NEW u \in Targets, file'[u] = "partial"
      PROVE  \/ u \in (stuck \cap failed)'
             \/ \E v \in Workers : worker'[v] \in {"write", "remove"} /\ entry'[v] = u
  <2>1. CASE u = t
    BY <1>4, <2>1
  <2>2. CASE u # t
    BY <1>1, <1>3, <1>4, <2>2 DEF FileInv
  <2> QED BY <2>1, <2>2
<1>5. \A v \in Workers : worker'[v] = "write" => file'[entry'[v]] = "partial"
  BY <1>1, <1>2, <1>3 DEF FileInv, Busy
<1>6. \A v \in Workers : worker'[v] = "truncate" => policy' = "Force"
  BY <1>1, <1>3 DEF FileInv
<1>7. \A u \in Targets : file'[u] = "whole" => u \in whole'
  BY <1>3 DEF FileInv
<1>8. whole \subseteq Targets
  BY DEF ExtractInv, ExtractTypes
<1>9. \A u \in whole' : file'[u] = "whole" /\ u \notin damaged'
  BY <1>3, <1>8 DEF FileInv
<1> QED BY <1>4, <1>5, <1>6, <1>7, <1>9 DEF FileInv

LEMMA WriteFileKeeps == ASSUME ExtractInv, NEW w \in Workers, WriteFile(w) PROVE ExtractInv'
<1> DEFINE t == entry[w]
<1>1. worker[w] = "write" /\ worker[w] \in Busy /\ phase' = "work" /\ phase = "work"
  BY HolderIsAlone DEF WriteFile, Busy
<1>2. ClocksAreRestored'
  BY <1>1 DEF ClocksAreRestored
<1>3. t \in Targets /\ t \notin Reported /\ file[t] = "partial"
  BY <1>1, HolderIsAlone DEF ExtractInv, FileInv
<1>4. CASE /\ t \notin damaged /\ file' = [file EXCEPT ![t] = "whole"]
           /\ whole' = whole \cup {t} /\ Goes(w, "take")
  <2>1. ExtractTypes'
    BY <1>1, <1>3, <1>4 DEF WriteFile, Goes, ExtractInv, ExtractTypes, Places, Busy
  <2>2. ShareInv'
    <3>1. Reported' = Reported \cup {t}
      BY <1>4 DEF WriteFile, Reported
    <3>2. (whole \cap kept = {} /\ whole \cap failed = {} /\ kept \cap failed = {})'
      BY <1>3, <1>4 DEF WriteFile, Reported, ExtractInv, ShareInv
    <3> QED BY <1>1, <1>4, <3>1, <3>2, EntryGoes DEF WriteFile, ExtractInv
  <2>3. FileInv'
    <3>1. file'[t] = "whole" /\ \A u \in Targets : u # t => file'[u] = file[u]
      BY <1>3, <1>4 DEF ExtractInv, ExtractTypes
    <3>2. file' \in [Targets -> {"none", "foreign", "partial", "whole"}]
      BY <2>1 DEF ExtractTypes
    <3> QED BY <1>1, <1>4, <3>1, <3>2, FileLetGo DEF WriteFile
  <2>4. PhaseInv'
    BY <1>1, <1>4, PhaseStays DEF WriteFile
  <2>5. LossInv'
    <3>1. \A u \in kept : u # t /\ u \in Targets
      BY <1>3 DEF Reported, ExtractInv, ExtractTypes
    <3> QED BY <1>4, <3>1 DEF WriteFile, ExtractInv, ExtractTypes, LossInv
  <2> QED BY <1>2, <2>1, <2>2, <2>3, <2>4, <2>5 DEF ExtractInv
<1>5. CASE Goes(w, "remove") /\ UNCHANGED <<file, whole>>
  <2>1. ExtractTypes'
    BY <1>1, <1>5 DEF WriteFile, Goes, ExtractInv, ExtractTypes, Places, Busy
  <2>2. ShareInv' /\ FileInv' /\ PhaseInv'
    BY <1>1, <1>5, EntryStays, NoFile, PhaseStays DEF WriteFile, ExtractInv, tally, Busy
  <2>3. LossInv'
    BY <1>5 DEF WriteFile, ExtractInv, LossInv
  <2> QED BY <1>2, <2>1, <2>2, <2>3 DEF ExtractInv
<1> QED BY <1>4, <1>5 DEF WriteFile

LEMMA RemoveFileKeeps == ASSUME ExtractInv, NEW w \in Workers, RemoveFile(w) PROVE ExtractInv'
<1> DEFINE t == entry[w]
<1>1. worker[w] = "remove" /\ worker[w] \in Busy /\ phase' = "work" /\ phase = "work"
  BY HolderIsAlone DEF RemoveFile, Busy
<1>2. t \in Targets /\ t \notin Reported /\ file[t] # "whole"
  BY <1>1, HolderIsAlone
<1>3. /\ \A u \in Targets : u # t => file'[u] = file[u]
      /\ file'[t] # "whole"
      /\ file'[t] = "partial" => t \in stuck'
      /\ file' \in [Targets -> {"none", "foreign", "partial", "whole"}]
      /\ stuck \subseteq stuck'
  BY <1>2 DEF RemoveFile, Removed, Put, ExtractInv, ExtractTypes
<1>4. lost' \subseteq lost \cup {t} /\ stamped' \subseteq stamped
  BY DEF RemoveFile, Removed, Put
<1>5. Goes(w, "take") /\ failed' = failed \cup {t}
  BY DEF RemoveFile
<1>6. ExtractTypes'
  BY <1>1, <1>2, <1>3, <1>4 DEF RemoveFile, Goes, ExtractInv, ExtractTypes, Places, Busy
<1>7. ShareInv'
  <2>1. Reported' = Reported \cup {t}
    BY <1>5 DEF RemoveFile, Reported
  <2>2. (whole \cap kept = {} /\ whole \cap failed = {} /\ kept \cap failed = {})'
    BY <1>2, <1>5 DEF RemoveFile, Reported, ExtractInv, ShareInv
  <2> QED BY <1>1, <1>5, <2>1, <2>2, EntryGoes DEF RemoveFile, ExtractInv
<1>8. FileInv'
  <2>1. t \notin whole' /\ whole' = whole
    BY <1>2 DEF RemoveFile, Reported
  <2> QED BY <1>1, <1>3, <1>5, <2>1, FileLetGo DEF RemoveFile
<1>9. PhaseInv'
  BY <1>1, <1>5, PhaseStays DEF RemoveFile
<1>10. LossInv' /\ ClocksAreRestored'
  <2>1. \A u \in kept : u # t /\ u \in Targets
    BY <1>2 DEF Reported, ExtractInv, ExtractTypes
  <2> QED BY <1>1, <1>3, <1>4, <1>5, <2>1
          DEF RemoveFile, ExtractInv, LossInv, ClocksAreRestored
<1> QED BY <1>6, <1>7, <1>8, <1>9, <1>10 DEF ExtractInv

\* The calling thread and the other programs.
LEMMA CallerKeeps == ASSUME ExtractInv, MakeDirs \/ Check \/ Joined \/ StampDirs
                     PROVE  ExtractInv'
<1>1. UNCHANGED <<policy, damaged, file, next, stop, worker, entry, whole, kept, failed, lost,
                  stuck, others>>
  BY DEF MakeDirs, Check, Joined, StampDirs, tally
<1>2. phase' \in Phases /\ stamped' \subseteq Dirs /\ told' \subseteq Targets
  BY DEF tally, MakeDirs, Check, Joined, StampDirs, ExtractInv, ExtractTypes, Phases
<1>3. ExtractTypes'
  BY <1>1, <1>2 DEF ExtractInv, ExtractTypes, tally
<1>4. ShareInv'
  BY <1>1 DEF ExtractInv, ShareInv, Taken, Reported, tally
<1>5. FileInv' /\ LossInv'
  BY <1>1 DEF ExtractInv, FileInv, LossInv, tally
<1>6. PhaseInv'
  BY <1>1 DEF MakeDirs, Check, Joined, StampDirs, ExtractInv, PhaseInv, AllGone, tally
<1>7. ClocksAreRestored'
  BY DEF MakeDirs, Check, Joined, StampDirs, ClocksAreRestored
<1> QED BY <1>3, <1>4, <1>5, <1>6, <1>7 DEF ExtractInv

LEMMA OtherCreatesKeeps == ASSUME ExtractInv, NEW t \in Targets, OtherCreates(t)
                           PROVE  ExtractInv'
<1>1. /\ file[t] = "none" /\ file'[t] = "foreign"
      /\ \A u \in Targets : u # t => file'[u] = file[u]
  BY DEF OtherCreates, ExtractInv, ExtractTypes
<1>2. others' \in Nat /\ others' # 0
  BY DEF OtherCreates, ExtractInv, ExtractTypes
<1>3. ExtractTypes'
  BY <1>2 DEF OtherCreates, ExtractInv, ExtractTypes, tally
<1>4. ShareInv'
  BY DEF OtherCreates, ExtractInv, ShareInv, Taken, Reported, tally
<1>5. FileInv'
  <2>1. \A v \in Workers : worker[v] \in Busy => entry[v] \in Targets
    BY HolderIsAlone
  <2> QED BY <1>1, <2>1 DEF OtherCreates, ExtractInv, ExtractTypes, FileInv, tally, Busy
<1>6. PhaseInv'
  BY DEF OtherCreates, ExtractInv, PhaseInv, AllGone, tally
<1>7. LossInv' /\ ClocksAreRestored'
  BY <1>1, <1>2 DEF OtherCreates, ExtractInv, ExtractTypes, LossInv, ClocksAreRestored, tally
<1> QED BY <1>3, <1>4, <1>5, <1>6, <1>7 DEF ExtractInv

--------------------------------------------------------------------------------
(* The theorems.                                                               *)

\* The invariant holds of every state that is reached: entries are shared out without
\* overlap, and files in part have an owner (archive.rs 911-1032).
LEMMA ExtractInvHolds == Spec => []ExtractInv
<1>1. ASSUME ExtractInv, [Next]_vars PROVE ExtractInv'
  <2>1. CASE MakeDirs \/ Check \/ Joined \/ StampDirs
    BY <1>1, <2>1, CallerKeeps
  <2>2. ASSUME NEW w \in Workers, Thread(w) PROVE ExtractInv'
    BY <1>1, <2>2, OpenArchiveKeeps, TakeEntryKeeps, CreateFileKeeps, TruncateKeeps,
       WriteFileKeeps, RemoveFileKeeps DEF Thread
  <2>3. ASSUME NEW t \in Targets, OtherCreates(t) PROVE ExtractInv'
    BY <1>1, <2>3, OtherCreatesKeeps
  <2>4. CASE UNCHANGED vars
    BY <1>1, <2>4 DEF vars, tally, ExtractInv, ExtractTypes, ShareInv, FileInv, PhaseInv,
                      LossInv, ClocksAreRestored, Taken, Reported, AllGone
  <2> QED BY <1>1, <2>1, <2>2, <2>3, <2>4 DEF Next, Extract
<1> QED BY ExtractInit, <1>1, PTL DEF Spec

\* When an extraction is over a file is left in part only where it could not be removed,
\* and the caller knows its entry, or has an error in place of the list; what is counted as
\* extracted is there, whole and undamaged (archive.rs 977-1017, 1583-1672).
THEOREM NothingPartialHolds == Spec => []NothingPartial
<1>1. ExtractInv => NothingPartial
  <2> SUFFICES ASSUME ExtractInv, Over PROVE NothingPartial
    BY DEF NothingPartial
  <2>1. \A w \in Workers : worker[w] \notin {"write", "remove"}
    BY DEF Over, ExtractInv, PhaseInv, AllGone, tally
  <2>2. phase = "ok" => told = failed
    BY DEF ExtractInv, PhaseInv
  <2>3. phase = "refused" => failed = {}
    BY DEF ExtractInv, PhaseInv
  <2> QED BY <2>1, <2>2, <2>3 DEF Over, ExtractInv, FileInv, NothingPartial
<1> QED BY ExtractInvHolds, <1>1, PTL

\* Every selected entry is reported exactly once by an extraction that succeeds, however
\* its threads interleave (archive.rs 911-1032).
THEOREM EachIsReportedOnceHolds == Spec => []EachIsReportedOnce
<1>1. ExtractInv => EachIsReportedOnce
  <2> SUFFICES ASSUME ExtractInv PROVE EachIsReportedOnce
    OBVIOUS
  <2>1. ASSUME phase = "ok" PROVE Reported = Targets
    <3>1. AllGone /\ ~stop
      BY <2>1 DEF ExtractInv, PhaseInv
    <3>2. next >= Len(Entries)
      BY <3>1, ExtractionAssumption DEF AllGone, ExtractInv, PhaseInv
    <3>3. Taken = Targets
      BY <3>2, AllTaken DEF ExtractInv, ExtractTypes
    <3> QED BY <3>1, <3>3 DEF AllGone, ExtractInv, ShareInv, Busy
  <2> QED BY <2>1 DEF ExtractInv, ShareInv, EachIsReportedOnce, Reported
<1> QED BY ExtractInvHolds, <1>1, PTL

\* Without Force another program's file is lost only by an entry that failed, which a call
\* that succeeds names to its caller and one that returns an error does not; a file that was
\* kept stays as it is (archive.rs 1008-1017, 1583-1626).
THEOREM LossIsReportedHolds == Spec => []LossIsReported
<1>1. ExtractInv => LossIsReported
  BY DEF ExtractInv, LossInv, PhaseInv, LossIsReported
<1> QED BY ExtractInvHolds, <1>1, PTL

\* The directories' clocks are the archive's when the extraction has succeeded, unless
\* another program wrote there (archive.rs 1005-1032).
THEOREM ClocksAreRestoredHolds == Spec => []ClocksAreRestored
<1>1. ExtractInv => ClocksAreRestored
  BY DEF ExtractInv
<1> QED BY ExtractInvHolds, <1>1, PTL
=============================================================================
