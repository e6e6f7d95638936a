-------------------------- MODULE FooterScanProofs --------------------------
(***************************************************************************)
(* FooterScan for every length of header, footer, window and file. The     *)
(* invariant says at each pc which of the footers that were in the file    *)
(* when the open began can still be ahead of the scan.                     *)
(***************************************************************************)
EXTENDS FooterScan, FiniteSetTheorems, TLAPS

\* Footers lie behind the header and inside the file.
FileOK == len >= H /\ \A v \in valid : v >= H /\ v + F <= len

\* What is known of the file was in it, and it has become no worse since.
KnownOK ==
    pc # "begin" =>
        /\ valid \ good \subseteq known
        /\ \A v \in known : v >= limit => v \notin good
        /\ skipped /\ pc # "none" => \E v \in known \ good : v >= limit
        /\ ~skipped => \A v \in known : v < limit

\* Where the footers are that lie in front of the limit.
AheadOK ==
    /\ pc = "begin" => ~skipped
    /\ pc \in {"begin", "ask"} => tries < MaxTries
    /\ pc = "tail" => \A v \in known : v + F <= size
    /\ pc = "scan" => \A v \in known : v < limit => v + F <= end
    /\ pc \in {"read", "opened"} =>
        hit \in valid /\ hit < limit /\ \A v \in known : v < limit => v <= hit
    /\ pc = "opened" => hit \in good
    /\ pc = "none" => \A v \in known : v \notin good

ScanInv == ScanTypeOK /\ FileOK /\ KnownOK /\ AheadOK

LEMMA ScanInit == Init => ScanInv
<1> SUFFICES ASSUME Init PROVE ScanInv
  OBVIOUS
<1>1. len \in Nat /\ len >= H /\ valid \subseteq Offsets(len) /\ good \subseteq valid
  BY ScanAssumption DEF Init
<1>2. \A v \in valid : v \in Nat /\ v >= H /\ v + F <= len
  BY <1>1, ScanAssumption DEF Offsets
<1>3. /\ pc = "begin" /\ limit = 0 /\ size = 0 /\ end = 0 /\ hit = 0 /\ tries = 0
      /\ skipped = FALSE /\ known = {}
  BY DEF Init
<1>4. 0 \in 0..MaxTries /\ 0 < MaxTries
  BY ScanAssumption
<1> QED
  BY <1>1, <1>2, <1>3, <1>4 DEF ScanInv, ScanTypeOK, FileOK, KnownOK, AheadOK

LEMMA BeginKeeps == ASSUME ScanInv, Begin PROVE ScanInv'
BY ScanAssumption DEF Begin, ScanInv, ScanTypeOK, FileOK, KnownOK, AheadOK

LEMMA AskKeeps == ASSUME ScanInv, Ask PROVE ScanInv'
BY ScanAssumption DEF Ask, Least, ScanInv, ScanTypeOK, FileOK, KnownOK, AheadOK

LEMMA TailKeeps == ASSUME ScanInv, Tail PROVE ScanInv'
<1>1. CASE pc' = "eof"
  BY <1>1, ScanAssumption DEF Tail, ScanInv, ScanTypeOK, FileOK, KnownOK, AheadOK
<1>2. CASE pc' = "read"
  BY <1>2, ScanAssumption
     DEF Tail, TailHit, LooksAtTail, ScanInv, ScanTypeOK, FileOK, KnownOK, AheadOK
<1>3. CASE pc' = "scan"
  BY <1>3, ScanAssumption
     DEF Tail, FirstEnd, Least, ScanInv, ScanTypeOK, FileOK, KnownOK, AheadOK
<1> QED BY <1>1, <1>2, <1>3 DEF Tail

\* One window: what it does not show lies in front of it, or reaches into the
\* next one by at most F - 1 bytes.
LEMMA WindowKeeps == ASSUME ScanInv, Window PROVE ScanInv'
<1>1. Start \in Nat /\ Start >= H /\ NextEnd \in Nat
  BY ScanAssumption DEF Start, Most, NextEnd, ScanInv, ScanTypeOK
<1>2. \A v \in known : v \in Nat /\ v >= H /\ v \in valid
  BY ScanAssumption DEF ScanInv, ScanTypeOK, FileOK
<1>3. pc = "scan" /\ \A v \in known : v < limit => v + F <= end
  BY DEF Window, ScanInv, AheadOK
<1>4. UNCHANGED <<len, valid, good, limit, size, tries, skipped, known>>
  BY DEF Window
<1>5. CASE end <= H /\ pc' = "none" /\ UNCHANGED <<hit, end>>
  <2>1. \A v \in known : ~(v < limit)
    BY <1>2, <1>3, <1>5, ScanAssumption DEF ScanInv, ScanTypeOK
  <2> QED BY <1>3, <1>4, <1>5, <2>1, <1>2 DEF ScanInv, ScanTypeOK, FileOK, KnownOK, AheadOK
<1>6. CASE pc' = "eof" /\ UNCHANGED <<hit, end>>
  BY <1>3, <1>4, <1>6 DEF ScanInv, ScanTypeOK, FileOK, KnownOK, AheadOK
<1>7. CASE pc' = "read" /\ UNCHANGED end
           /\ \E v \in WindowHits : (\A w \in WindowHits : w <= v) /\ hit' = v
  <2>1. hit' \in WindowHits /\ \A w \in WindowHits : w <= hit'
    BY <1>7
  <2>2. hit' \in valid /\ hit' \in Nat /\ hit' < limit /\ Start <= hit'
    BY <2>1 DEF WindowHits, ScanInv, ScanTypeOK
  <2>3. ASSUME NEW v \in known, v < limit PROVE v <= hit'
    <3>1. v < Start \/ v \in WindowHits
      BY <1>1, <1>2, <1>3, <2>3 DEF WindowHits
    <3> QED BY <1>1, <1>2, <2>1, <2>2, <3>1
  <2> QED BY <1>3, <1>4, <1>7, <2>2, <2>3 DEF ScanInv, ScanTypeOK, FileOK, KnownOK, AheadOK
<1>8. CASE WindowHits = {} /\ Start = H /\ pc' = "none" /\ UNCHANGED <<hit, end>>
  <2>1. \A v \in known : ~(v < limit)
    BY <1>2, <1>3, <1>8 DEF WindowHits
  <2> QED BY <1>3, <1>4, <1>8, <2>1, <1>2 DEF ScanInv, ScanTypeOK, FileOK, KnownOK, AheadOK
<1>9. CASE WindowHits = {} /\ end' = NextEnd /\ UNCHANGED <<pc, hit>>
  <2>1. ASSUME NEW v \in known, v < limit PROVE v + F <= NextEnd
    <3>1. v < Start
      BY <1>1, <1>2, <1>3, <1>9, <2>1 DEF WindowHits
    <3> QED BY <1>1, <1>2, <3>1, ScanAssumption DEF NextEnd
  <2> QED BY <1>1, <1>3, <1>4, <1>9, <2>1 DEF ScanInv, ScanTypeOK, FileOK, KnownOK, AheadOK
<1> QED BY <1>5, <1>6, <1>7, <1>8, <1>9 DEF Window

LEMMA AcceptKeeps == ASSUME ScanInv, Accept PROVE ScanInv'
BY DEF Accept, ScanInv, ScanTypeOK, FileOK, KnownOK, AheadOK

LEMMA SkipKeeps == ASSUME ScanInv, Skip PROVE ScanInv'
<1>1. /\ pc = "read" /\ hit \in valid \ good /\ hit \in Nat /\ hit >= H /\ hit < limit
      /\ hit \in known /\ \A v \in known : v < limit => v <= hit
  BY DEF Skip, ScanInv, ScanTypeOK, FileOK, KnownOK, AheadOK
<1>2. \A v \in known : v \in Nat /\ v >= H
  BY ScanAssumption DEF ScanInv, ScanTypeOK, FileOK
<1>3. skipped' = TRUE /\ UNCHANGED <<len, valid, good, size, end, hit, tries, known>>
  BY DEF Skip, SkippedNow
<1>4. ASSUME NEW v \in known, v >= hit PROVE v \notin good
  BY <1>1, <1>2, <1>4 DEF ScanInv, ScanTypeOK, KnownOK
<1>5. CASE pc' = "none" /\ hit <= H /\ UNCHANGED limit
  <2>1. ASSUME NEW v \in known PROVE v \notin good
    <3>1. v >= hit
      BY <1>1, <1>2, <1>5, <2>1, ScanAssumption
    <3> QED BY <1>4, <3>1
  <2> QED BY <1>1, <1>3, <1>5, <2>1 DEF ScanInv, ScanTypeOK, FileOK, KnownOK, AheadOK
<1>6. CASE pc' \in {"tries", "ask"} /\ limit' = hit /\ (pc' = "ask" => tries < MaxTries)
  BY <1>1, <1>3, <1>4, <1>6 DEF ScanInv, ScanTypeOK, FileOK, KnownOK, AheadOK
<1>7. tries # MaxTries => tries < MaxTries
  BY ScanAssumption DEF ScanInv, ScanTypeOK
<1> QED BY <1>5, <1>6, <1>7 DEF Skip, LastTry

\* What a writer appends lies behind every footer there is.
LEMMA GrowKeeps == ASSUME ScanInv, NEW n \in 1..MaxLen, Grow(n) PROVE ScanInv'
<1>1. /\ len' = len + n /\ len' \in Nat
      /\ UNCHANGED <<pc, limit, size, end, hit, tries, skipped, known>>
  BY DEF Grow, ScanInv, ScanTypeOK
<1>2. \A v \in valid : v \in Nat /\ v >= H /\ v + F <= len
  BY DEF ScanInv, ScanTypeOK, FileOK
<1>3. CASE UNCHANGED <<valid, good>>
  <2>1. len' >= H /\ \A v \in valid : v + F <= len'
    BY <1>1, <1>2, ScanAssumption DEF ScanInv, ScanTypeOK, FileOK
  <2> QED BY <1>1, <1>2, <1>3, <2>1 DEF ScanInv, ScanTypeOK, FileOK, KnownOK, AheadOK
<1>4. CASE n >= F /\ valid' = valid \cup {len' - F} /\ good' = good \cup {len' - F}
  <2>0. len \in Nat /\ len >= H
    BY DEF ScanInv, ScanTypeOK, FileOK
  <2>1. len' - F \in Nat /\ len' - F >= len /\ len' - F >= H /\ len' - F + F <= len'
    BY <1>1, <1>4, <2>0, ScanAssumption
  <2> QED BY <1>1, <1>2, <1>4, <2>1, ScanAssumption
          DEF ScanInv, ScanTypeOK, FileOK, KnownOK, AheadOK
<1> QED BY <1>3, <1>4 DEF Grow

\* What a writer cuts off is no footer.
LEMMA CutKeeps == ASSUME ScanInv, Cut PROVE ScanInv'
<1>1. PICK g \in good : (\A v \in valid : v <= g) /\ len' = g + F
  BY DEF Cut
<1>2. \A v \in valid : v \in Nat /\ v >= H
  BY DEF ScanInv, ScanTypeOK, FileOK
<1> QED BY <1>1, <1>2, ScanAssumption
        DEF Cut, ScanInv, ScanTypeOK, FileOK, KnownOK, AheadOK

LEMMA ScanStep == ScanInv /\ [Next]_vars => ScanInv'
<1> SUFFICES ASSUME ScanInv, [Next]_vars PROVE ScanInv'
  OBVIOUS
<1>1. CASE UNCHANGED vars
  BY <1>1 DEF vars, ScanInv, ScanTypeOK, FileOK, KnownOK, AheadOK
<1> QED BY <1>1, BeginKeeps, AskKeeps, TailKeeps, WindowKeeps, AcceptKeeps, SkipKeeps,
           GrowKeeps, CutKeeps
        DEF Next, Open

LEMMA ScanInvHolds == Spec => []ScanInv
BY ScanInit, ScanStep, PTL DEF Spec

\* Whatever the sizes of window and footer are, as long as a footer fits into a
\* window, what is opened is the newest commit that was in the file when the
\* open began, or a newer one (archive.rs 531-565, footer.rs 137-182).
THEOREM OpensTheNewestHolds == Spec => []OpensTheNewest
<1>1. ScanInv => OpensTheNewest
  BY DEF ScanInv, ScanTypeOK, FileOK, KnownOK, AheadOK, OpensTheNewest
<1> QED BY <1>1, ScanInvHolds, PTL

\* Damage is reported exactly if a footer of the file was passed over
\* (archive.rs 557-572).
THEOREM DamageIsTrueHolds == Spec => []DamageIsTrue
<1>1. ScanInv => DamageIsTrue
  BY DEF ScanInv, ScanTypeOK, FileOK, KnownOK, AheadOK, DamageIsTrue
<1> QED BY <1>1, ScanInvHolds, PTL

----------------------------------------------------------------------------
(* The tries. *)

\* The footers that did not read, above the limit.
Passed == { v \in valid \ good : v >= limit }

\* Each try but the running one has passed a footer, and no footer was passed twice.
TriesInv ==
    /\ pc = "begin" => tries = 0
    /\ pc = "ask" => Cardinality(Passed) >= tries
    /\ pc \in {"tail", "scan", "read"} => Cardinality(Passed) + 1 >= tries
    /\ pc = "tries" => Cardinality(Passed) >= MaxTries

LEMMA FinitelyMany ==
    ASSUME ScanInv
    PROVE  IsFiniteSet(Passed) /\ Cardinality(Passed) \in Nat
<1>1. len \in Nat /\ IsFiniteSet(0..len)
  BY FS_Interval DEF ScanInv, ScanTypeOK
<1>2. valid \subseteq 0..len
  BY <1>1, ScanAssumption DEF ScanInv, ScanTypeOK, FileOK
<1>3. Passed \subseteq 0..len
  BY <1>2 DEF Passed
<1>4. IsFiniteSet(Passed)
  BY <1>1, <1>3, FS_Subset
<1> QED BY <1>4, FS_CardinalityType

LEMMA FinitelyManyNext ==
    ASSUME ScanInv'
    PROVE  IsFiniteSet(Passed') /\ Cardinality(Passed') \in Nat
<1>1. len' \in Nat /\ IsFiniteSet(0..len')
  BY FS_Interval DEF ScanInv, ScanTypeOK
<1>2. valid' \subseteq 0..len'
  BY <1>1, ScanAssumption DEF ScanInv, ScanTypeOK, FileOK
<1>3. Passed' \subseteq 0..len'
  BY <1>2 DEF Passed
<1>4. IsFiniteSet(Passed')
  BY <1>1, <1>3, FS_Subset
<1> QED BY <1>4, FS_CardinalityType

\* A footer that is passed stays passed.
LEMMA PassedGrows ==
    ASSUME ScanInv', Passed \subseteq Passed'
    PROVE  IsFiniteSet(Passed') /\ Cardinality(Passed) <= Cardinality(Passed')
BY FinitelyManyNext, FS_Subset

LEMMA TriesStep == ScanInv /\ ScanInv' /\ TriesInv /\ [Next]_vars => TriesInv'
<1> SUFFICES ASSUME ScanInv, ScanInv', TriesInv, [Next]_vars PROVE TriesInv'
  OBVIOUS
<1>0. /\ IsFiniteSet(Passed) /\ Cardinality(Passed) \in Nat
      /\ tries \in Nat /\ MaxTries \in Nat /\ limit \in Nat /\ valid \subseteq Nat
      /\ pc \in {"begin", "ask", "tail", "scan", "read", "opened", "none", "eof", "tries"}
  BY FinitelyMany, ScanAssumption DEF ScanInv, ScanTypeOK
<1>1. CASE Begin
  <2>1. pc' = "ask" /\ tries' = 0
    BY <1>1 DEF Begin, TriesInv
  <2>2. Cardinality(Passed') \in Nat
    BY FinitelyManyNext
  <2> QED BY <2>1, <2>2 DEF TriesInv
<1>2. CASE Ask
  <2>1. /\ pc = "ask" /\ pc' = "tail" /\ tries' = tries + 1 /\ UNCHANGED <<valid, good>>
        /\ limit' \in Nat /\ limit' <= limit
    BY <1>0, <1>2 DEF Ask, Least, ScanInv, ScanTypeOK
  <2>2. Passed \subseteq Passed'
    <3> SUFFICES ASSUME NEW v \in valid \ good, v >= limit PROVE v >= limit'
      BY <2>1 DEF Passed
    <3> QED BY <1>0, <2>1
  <2>3. Cardinality(Passed) <= Cardinality(Passed') /\ Cardinality(Passed') \in Nat
    BY <2>2, PassedGrows, FS_CardinalityType
  <2>4. Cardinality(Passed) >= tries
    BY <2>1 DEF TriesInv
  <2> QED BY <1>0, <2>1, <2>3, <2>4 DEF TriesInv
<1>3. CASE Tail \/ Window \/ Accept
  <2>1. /\ pc \in {"tail", "scan", "read"} /\ pc' \notin {"begin", "ask", "tries"}
        /\ UNCHANGED <<valid, good, limit, tries>>
    BY <1>3 DEF Tail, Window, Accept
  <2>2. Passed' = Passed
    BY <2>1 DEF Passed
  <2> QED BY <2>1, <2>2 DEF TriesInv
<1>4. CASE Skip
  <2>1. /\ pc = "read" /\ hit \in valid \ good /\ hit < limit /\ hit \in Nat
        /\ UNCHANGED <<valid, good, tries>>
    BY <1>4 DEF Skip, ScanInv, ScanTypeOK, AheadOK
  <2>2. CASE pc' = "none"
    BY <2>2 DEF TriesInv
  <2>3. CASE limit' = hit /\ pc' \in {"ask", "tries"} /\ (pc' = "tries" => tries = MaxTries)
    <3>1. hit \notin Passed /\ Passed \cup {hit} \subseteq Passed'
      <4>1. \A v \in valid : v >= limit => v >= hit /\ v # hit
        BY <1>0, <2>1
      <4>2. hit >= hit
        BY <2>1
      <4>3. Passed' = { v \in valid \ good : v >= hit }
        BY <2>1, <2>3 DEF Passed
      <4> QED BY <2>1, <4>1, <4>2, <4>3 DEF Passed
    <3>2. IsFiniteSet(Passed') /\ IsFiniteSet(Passed \cup {hit})
      BY <1>0, <3>1, PassedGrows, FS_AddElement
    <3>3. /\ Cardinality(Passed \cup {hit}) = Cardinality(Passed) + 1
          /\ Cardinality(Passed \cup {hit}) <= Cardinality(Passed')
          /\ Cardinality(Passed') \in Nat
      BY <1>0, <3>1, <3>2, FS_AddElement, FS_Subset, FS_CardinalityType
    <3>4. Cardinality(Passed) + 1 >= tries
      BY <2>1 DEF TriesInv
    <3>5. Cardinality(Passed') >= tries /\ tries' = tries
      BY <1>0, <2>1, <3>3, <3>4
    <3> QED BY <2>3, <3>5 DEF TriesInv
  <2> QED BY <1>4, <2>2, <2>3 DEF Skip, LastTry
<1>5. CASE Cut \/ (\E n \in 1..MaxLen : Grow(n)) \/ UNCHANGED vars
  <2>1. UNCHANGED <<pc, limit, tries>>
    BY <1>5 DEF Cut, Grow, vars
  <2>2. valid' \ good' = valid \ good
    <3>1. CASE UNCHANGED <<valid, good>>
      BY <3>1
    <3>2. CASE \E n \in 1..MaxLen : Grow(n)
      <4>1. PICK n \in 1..MaxLen : Grow(n)
        BY <3>2
      <4>2. CASE UNCHANGED <<valid, good>>
        BY <4>2
      <4>3. CASE valid' = valid \cup {len' - F} /\ good' = good \cup {len' - F}
                 /\ n >= F /\ len' = len + n
        <5>1. len \in Nat /\ \A v \in valid : v \in Nat /\ v + F <= len
          BY DEF ScanInv, ScanTypeOK, FileOK
        <5>2. len' - F \notin valid
          BY <4>3, <5>1, ScanAssumption
        <5> QED BY <4>3, <5>2
      <4> QED BY <4>1, <4>2, <4>3 DEF Grow
    <3> QED BY <1>5, <3>1, <3>2 DEF Cut, vars
  <2>3. Passed' = Passed
    BY <2>1, <2>2 DEF Passed
  <2> QED BY <2>1, <2>3 DEF TriesInv
<1> QED BY <1>1, <1>2, <1>3, <1>4, <1>5 DEF Next, Open

\* The open gives up only where there was no commit, where it passed as many footers
\* as it may, each another one, or where the file became shorter under it
\* (archive.rs 534-572).
THEOREM FailsForAReasonHolds == Spec => []FailsForAReason
<1>1. Init => TriesInv
  BY DEF Init, TriesInv
<1>2. ScanInv /\ TriesInv => FailsForAReason
  <2> SUFFICES ASSUME ScanInv, TriesInv PROVE FailsForAReason
    OBVIOUS
  <2>1. pc = "none" => known \cap good = {}
    BY DEF ScanInv, AheadOK
  <2>2. pc = "tries" => Cardinality(Passed) >= MaxTries
    BY DEF TriesInv
  <2> QED BY <2>1, <2>2 DEF FailsForAReason, Passed
<1> QED BY <1>1, <1>2, ScanInvHolds, TriesStep, PTL DEF Spec
=============================================================================
