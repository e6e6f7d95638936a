-------------------------- MODULE CompactSwapProofs --------------------------
(***************************************************************************)
(* CompactSwap for any number of processes, updates and copies.            *)
(***************************************************************************)
EXTENDS CompactSwap, TLAPS

\* What a lock gives as long as nobody swaps: its holder's manifest is the file's. And a
\* copy that is not at the path yet has all that its maker had in memory.
SwapInv ==
    /\ SwapTypeOK
    /\ path <= copies
    /\ \A p \in Procs :
        /\ handle[p] <= copies
        /\ pc[p] \in {"locked", "copied"} => mem[p] = content[handle[p]]
        /\ pc[p] \in {"copied", "released"} =>
            copy[p] <= copies /\ mem[p] \subseteq content[copy[p]]
    /\ LockedIffWriting

LEMMA SwapInit == Init => SwapInv
<1> SUFFICES ASSUME Init PROVE SwapInv
  OBVIOUS
<1>1. 0 \in Files /\ 0 \in 0..MaxUpdates
  BY SwapAssumption DEF Files
<1>2. SwapTypeOK
  BY <1>1 DEF Init, SwapTypeOK
<1>3. LockedIffWriting
  BY SwapAssumption DEF Init, LockedIffWriting, Writers
<1> QED BY <1>2, <1>3 DEF Init, SwapInv

LEMMA FilesAreNat == Files \subseteq Nat /\ Updates \subseteq Nat /\ MaxCopies \in Nat
                     /\ MaxUpdates \in Nat
BY SwapAssumption DEF Files, Updates

LEMMA OpenFileKeeps == ASSUME SwapInv, NEW p \in Procs, OpenFile(p) PROVE SwapInv'
BY FilesAreNat DEF OpenFile, At, SwapInv, SwapTypeOK, LockedIffWriting, Writers

LEMMA LockKeeps == ASSUME SwapInv, NEW p \in Procs, Lock(p) PROVE SwapInv'
<1>1. CASE Lockable(p) /\ holder' = [holder EXCEPT ![handle[p]] = p]
           /\ mem' = [mem EXCEPT ![p] = content[handle[p]]] /\ At(p, "locked")
  <2>1. SwapTypeOK'
    BY <1>1 DEF Lock, At, SwapInv, SwapTypeOK
  <2>2. LockedIffWriting'
    BY <1>1, SwapAssumption
       DEF Lock, Lockable, At, SwapInv, SwapTypeOK, LockedIffWriting, Writers
  <2> QED BY <1>1, <2>1, <2>2 DEF Lock, At, SwapInv, SwapTypeOK
<1>2. CASE At(p, "closed") /\ UNCHANGED <<holder, mem>>
  BY <1>2 DEF Lock, At, SwapInv, SwapTypeOK, LockedIffWriting, Writers
<1> QED BY <1>1, <1>2 DEF Lock

LEMMA UpdateKeeps == ASSUME SwapInv, NEW p \in Procs, Update(p) PROVE SwapInv'
<1>1. /\ pc[p] = "locked" /\ updates < MaxUpdates /\ updates' = updates + 1
      /\ mem' = [mem EXCEPT ![p] = @ \cup {updates + 1}]
      /\ content' = [content EXCEPT ![handle[p]] = mem'[p]]
      /\ UNCHANGED <<path, holder, pc, handle, copy, copies>>
  BY DEF Update
<1>2. updates + 1 \in Updates /\ updates' \in 0..MaxUpdates
  BY <1>1, FilesAreNat DEF SwapInv, SwapTypeOK, Updates
<1>3. SwapTypeOK'
  BY <1>1, <1>2 DEF SwapInv, SwapTypeOK
<1>4. LockedIffWriting'
  BY <1>1 DEF SwapInv, LockedIffWriting, Writers
<1>5. mem[p] = content[handle[p]] /\ holder[handle[p]] = p
  BY <1>1 DEF SwapInv, SwapTypeOK, LockedIffWriting, Writers
<1>6. \A f \in Files : content[f] \subseteq content'[f]
  BY <1>1, <1>5 DEF SwapInv, SwapTypeOK
<1>7. ASSUME NEW q \in Procs, pc'[q] \in {"locked", "copied"} PROVE mem'[q] = content'[handle'[q]]
  <2>1. q = p \/ handle[q] # handle[p]
    <3>1. holder[handle[q]] = q
      BY <1>1, <1>7 DEF SwapInv, SwapTypeOK, LockedIffWriting, Writers
    <3> QED BY <1>5, <3>1
  <2> QED BY <1>1, <1>7, <2>1 DEF SwapInv, SwapTypeOK
<1>8. ASSUME NEW q \in Procs, pc'[q] \in {"copied", "released"}
      PROVE  copy'[q] <= copies' /\ mem'[q] \subseteq content'[copy'[q]]
  BY <1>1, <1>6, <1>8 DEF SwapInv, SwapTypeOK
<1> QED BY <1>1, <1>3, <1>4, <1>7, <1>8 DEF SwapInv

LEMMA CopyKeeps == ASSUME SwapInv, NEW p \in Procs, Copy(p) PROVE SwapInv'
<1>1. /\ pc[p] = "locked" /\ copies < MaxCopies /\ copies' = copies + 1
      /\ copy' = [copy EXCEPT ![p] = copies + 1]
      /\ content' = [content EXCEPT ![copies + 1] = mem[p]]
      /\ pc' = [pc EXCEPT ![p] = "copied"]
      /\ UNCHANGED <<path, holder, handle, mem, updates>>
  BY DEF Copy, Carried, At
<1>2. copies \in Nat /\ copies + 1 \in Files /\ copies' \in Nat
  BY <1>1, FilesAreNat DEF SwapInv, SwapTypeOK, Files
<1>3. SwapTypeOK'
  BY <1>1, <1>2 DEF SwapInv, SwapTypeOK
<1>4. LockedIffWriting'
  BY <1>1 DEF SwapInv, SwapTypeOK, LockedIffWriting, Writers
<1>5. \A f \in Files : f <= copies => content'[f] = content[f] /\ f <= copies'
  BY <1>1, <1>2, FilesAreNat DEF SwapInv, SwapTypeOK
<1>6. path \in Files /\ path <= copies /\ \A q \in Procs : handle[q] \in Files /\ handle[q] <= copies
  BY DEF SwapInv, SwapTypeOK
<1>7. ASSUME NEW q \in Procs, pc'[q] \in {"copied", "released"}
      PROVE  copy'[q] <= copies' /\ mem'[q] \subseteq content'[copy'[q]]
  <2>1. CASE q = p
    BY <1>1, <1>2, <2>1 DEF SwapInv, SwapTypeOK
  <2>2. CASE q # p
    BY <1>1, <1>5, <1>7, <2>2 DEF SwapInv, SwapTypeOK
  <2> QED BY <2>1, <2>2
<1>8. ASSUME NEW q \in Procs, pc'[q] \in {"locked", "copied"} PROVE mem'[q] = content'[handle'[q]]
  <2>1. pc[q] \in {"locked", "copied"}
    BY <1>1, <1>8 DEF SwapInv, SwapTypeOK
  <2> QED BY <1>1, <1>5, <1>6, <2>1 DEF SwapInv
<1> QED BY <1>1, <1>3, <1>4, <1>5, <1>6, <1>7, <1>8 DEF SwapInv

LEMMA LetGo == ASSUME SwapInv, NEW p \in Procs, NEW s \in {"closed", "released"},
                      holder' = LocksWithout(p), At(p, s), UNCHANGED handle
               PROVE  /\ LockedIffWriting'
                      /\ holder' \in [Files -> Procs \cup {Nobody}]
BY SwapAssumption DEF LocksWithout, At, SwapInv, SwapTypeOK, LockedIffWriting, Writers

LEMMA ReleaseKeeps == ASSUME SwapInv, NEW p \in Procs, Release(p) \/ Close(p) PROVE SwapInv'
<1>1. CASE Release(p)
  <2>1. LockedIffWriting' /\ holder' \in [Files -> Procs \cup {Nobody}]
    BY <1>1, LetGo DEF Release
  <2> QED BY <1>1, <2>1 DEF Release, At, SwapInv, SwapTypeOK
<1>2. CASE Close(p)
  <2>1. LockedIffWriting' /\ holder' \in [Files -> Procs \cup {Nobody}]
    BY <1>2, LetGo DEF Close
  <2> QED BY <1>2, <2>1 DEF Close, At, SwapInv, SwapTypeOK
<1> QED BY <1>1, <1>2

LEMMA ReplaceKeeps == ASSUME SwapInv, NEW p \in Procs, Replace(p) PROVE SwapInv'
BY DEF Replace, At, SwapInv, SwapTypeOK, LockedIffWriting, Writers

LEMMA SwapStep == SwapInv /\ [Next]_vars => SwapInv'
<1> SUFFICES ASSUME SwapInv, [Next]_vars PROVE SwapInv'
  OBVIOUS
<1>1. CASE UNCHANGED vars
  BY <1>1 DEF vars, SwapInv, SwapTypeOK, LockedIffWriting, Writers
<1> QED BY <1>1, OpenFileKeeps, LockKeeps, UpdateKeeps, CopyKeeps, ReleaseKeeps, ReplaceKeeps
        DEF Next

LEMMA SwapInvHolds == Spec => []SwapInv
BY SwapInit, SwapStep, PTL DEF Spec

\* The lock of a file is held by whoever writes to it and by nobody else (archive.rs
\* 523-525, 1467).
THEOREM LockedIffWritingHolds == Spec => []LockedIffWriting
<1>1. SwapInv => LockedIffWriting
  BY DEF SwapInv
<1> QED BY <1>1, SwapInvHolds, PTL

\* For any number of processes, a file has one writer at most, and that one knows every
\* update the file has (archive.rs 521-525).
THEOREM MemoryIsCurrentHolds == Spec => []MemoryIsCurrent
<1>1. SwapInv => MemoryIsCurrent
  BY DEF SwapInv, SwapTypeOK, LockedIffWriting, Writers, MemoryIsCurrent
<1> QED BY <1>1, SwapInvHolds, PTL

\* For any number of processes, updates and copies an acknowledged update is missing at the
\* path only behind a swap that had not seen it, or where it was committed to a file that a
\* swap had replaced (archive.rs 515-525, 606-612, 1467-1484).
THEOREM LostOnlyBySwapHolds == Spec => LostOnlyBySwap
<1> DEFINE OnlyBySwap == \A u \in Updates : Loses(u) => SwappedAway(u) \/ PutIntoReplaced(u)
<1>1. SwapInv /\ [Next]_vars => [OnlyBySwap]_vars
  <2> SUFFICES ASSUME SwapInv, Next, NEW u \in Updates, Loses(u)
               PROVE  SwappedAway(u) \/ PutIntoReplaced(u)
    OBVIOUS
  <2>1. PICK p \in Procs :
            OpenFile(p) \/ Lock(p) \/ Update(p) \/ Copy(p) \/ Release(p) \/ Replace(p) \/ Close(p)
    BY DEF Next
  <2>2. u \in Nat /\ updates \in Nat
    BY FilesAreNat DEF SwapInv, SwapTypeOK
  <2>3. CASE OpenFile(p) \/ Lock(p) \/ Release(p) \/ Close(p)
    BY <2>2, <2>3 DEF OpenFile, Lock, Release, Close, Loses
  <2>4. CASE Update(p)
    <3>1. /\ mem[p] = content[handle[p]] /\ handle[p] \in Files /\ path \in Files
          /\ content'[handle[p]] = content[handle[p]] \cup {updates + 1}
          /\ \A f \in Files : content[f] \subseteq content'[f]
          /\ updates' = updates + 1 /\ path' = path
      BY <2>4 DEF Update, SwapInv, SwapTypeOK
    <3>2. u = updates + 1
      BY <2>2, <3>1 DEF Loses
    <3>3. handle[p] # path
      BY <3>1, <3>2 DEF Loses
    <3> QED BY <3>1, <3>2, <3>3 DEF PutIntoReplaced
  <2>5. CASE Copy(p)
    <3>1. copies \in Nat /\ path \in Nat /\ path <= copies /\ path' = path /\ updates' = updates
      BY <2>5, FilesAreNat DEF Copy, SwapInv, SwapTypeOK
    <3>2. content'[path] = content[path]
      BY <2>5, <3>1 DEF Copy, SwapInv, SwapTypeOK
    <3> QED BY <2>2, <3>1, <3>2 DEF Loses
  <2>6. CASE Replace(p)
    BY <2>2, <2>6 DEF Replace, Loses, SwappedAway, SwapInv
  <2> QED BY <2>1, <2>3, <2>4, <2>5, <2>6
<1>2. LostOnlyBySwap <=> [][OnlyBySwap]_vars
  BY DEF LostOnlyBySwap
<1> QED BY <1>1, <1>2, SwapInvHolds, PTL DEF Spec
=============================================================================
