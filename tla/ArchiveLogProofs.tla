-------------------------- MODULE ArchiveLogProofs --------------------------
(***************************************************************************)
(* Proofs about ArchiveLog for every set of paths, contents and readers    *)
(* and for every bound. The inductive invariant says of the archive and of *)
(* the copy `compact` makes that a footer never gets onto the medium       *)
(* before anything it stands for, and of the writer that the manifest it   *)
(* holds describes the file it works on.                                   *)
(***************************************************************************)
EXTENDS ArchiveLog, SequenceTheorems, FiniteSetTheorems, WellFoundedInduction, TLAPS

\* The footer at i is one that a commit wrote there.
IsCommit(d, i) == i \in 1..Len(d) /\ d[i].kind = "footer" /\ d[i].at = i

\* The first n blocks hold all that manifest m needs.
Fits(d, m, n) ==
    /\ EntriesHaveUnits(m)
    /\ \A c \in Contents : m.unit[c] # 0 =>
        m.unit[c] \in 2..n /\ d[m.unit[c]] \in {Unit(c), Rotten}

\* Everything the footer at i stands for is in front of it.
Backed(d, i) ==
    /\ d[1] \in {Header, Rotten}
    /\ d[i].man \in 2..i-1
    /\ d[d[i].man] \in {ManifestBlock(d[i].manifest), Rotten}
    /\ Fits(d, d[i].manifest, i - 1)

\* The first n blocks are on the medium as they are read.
Agree(d, s, n) == \A j \in 1..n : Same(d, s, j)

\* What holds of a file d and what the medium has of it, s: a footer is written
\* after a sync of all that is in front of it, and no footer on the medium is
\* ever lost by a write or a truncation.
FileInv(d, s) ==
    /\ \A i \in 1..Len(d) : IsCommit(d, i) => Backed(d, i) /\ Agree(d, s, i - 1)
    /\ \A i \in 1..Len(s) : IsCommit(s, i) => Agree(d, s, i)

----------------------------------------------------------------------------
(* Blocks. *)

LEMMA SpecialBlocks ==
    /\ Header \in Blocks /\ Torn \in Blocks /\ Rotten \in Blocks
    /\ Header.kind = "header" /\ Torn.kind = "torn" /\ Rotten.kind = "rotten"
BY DEF Blocks, Header, Torn, Rotten

LEMMA UnitBlock ==
    ASSUME NEW c \in Contents
    PROVE  Unit(c) \in Blocks /\ Unit(c).kind = "unit"
BY DEF Blocks, Unit

LEMMA ManifestBlockType ==
    ASSUME NEW m \in Manifests
    PROVE  ManifestBlock(m) \in Blocks /\ ManifestBlock(m).kind = "manifest"
BY DEF Blocks, ManifestBlock

LEMMA FooterBlock ==
    ASSUME NEW at \in Nat, NEW man \in Nat, NEW m \in Manifests
    PROVE  /\ Footer(at, man, m) \in Blocks /\ Footer(at, man, m).kind = "footer"
           /\ Footer(at, man, m).at = at /\ Footer(at, man, m).man = man
           /\ Footer(at, man, m).manifest = m
BY DEF Blocks, Footer

LEMMA FooterFields ==
    ASSUME NEW b \in Blocks, b.kind = "footer"
    PROVE  b.at \in Nat /\ b.man \in Nat /\ b.manifest \in Manifests
BY DEF Blocks, Header, Torn, Rotten

\* The scan stops at the footers of commits and nowhere else: the self-check
\* refuses the footer image inside a stored archive.
LEMMA CandidateIsCommit ==
    ASSUME NEW d \in Seq(Blocks), NEW i \in 1..Len(d)
    PROVE  /\ IsCandidate(d, i) <=> IsCommit(d, i)
           /\ IsCommit(d, i) => FooterIn(d[i]) = d[i]
<1>1. CASE d[i].kind = "unit"
  BY <1>1 DEF IsCandidate, IsCommit, HasFooterMagic, SelfCheck, FooterIn, Footer
<1>2. CASE d[i].kind # "unit"
  BY <1>2 DEF IsCandidate, IsCommit, HasFooterMagic, SelfCheck, FooterIn
<1> QED BY <1>1, <1>2

\* A nonempty set of positions has a last one.
LEMMA LastOf ==
    ASSUME NEW n \in Nat, NEW S \in SUBSET (1..n), S # {}
    PROVE  \E i \in S : \A j \in S : j <= i
<1> DEFINE T == { n - i : i \in S }
<1>1. \A i \in S : i \in 1..n /\ n - i \in Nat
  OBVIOUS
<1>2. T \subseteq Nat /\ T # {}
  BY <1>1
<1>3. PICK k \in T : \A y \in T : ~ (<<y, k>> \in OpToRel(<, Nat))
  BY <1>2, NatLessThanWellFounded, WFMin
<1>4. \A y \in T : ~(y < k)
  BY <1>2, <1>3 DEF OpToRel
<1>5. PICK i \in S : k = n - i
  OBVIOUS
<1>6. ASSUME NEW j \in S PROVE j <= i
  <2>1. n - j \in T
    OBVIOUS
  <2>2. ~(n - j < k)
    BY <1>4, <2>1
  <2> HIDE DEF T
  <2> QED BY <2>2, <1>1, <1>5
<1> QED BY <1>6

----------------------------------------------------------------------------
(* What each way of changing a file does to FileInv. *)

LEMMA AppendFacts ==
    ASSUME NEW d \in Seq(Blocks), NEW b \in Blocks
    PROVE  /\ Append(d, b) \in Seq(Blocks)
           /\ Len(Append(d, b)) = Len(d) + 1
           /\ \A j \in 1..Len(d) : Append(d, b)[j] = d[j]
           /\ Append(d, b)[Len(d) + 1] = b
BY AppendProperties

LEMMA FitsAppend ==
    ASSUME NEW d \in Seq(Blocks), NEW b \in Blocks, NEW m \in Manifests,
           NEW n \in 0..Len(d), Fits(d, m, n)
    PROVE  Fits(Append(d, b), m, n)
BY AppendFacts, LenProperties DEF Fits, Manifests

LEMMA BackedAppend ==
    ASSUME NEW d \in Seq(Blocks), NEW b \in Blocks, NEW i \in 1..Len(d),
           IsCommit(d, i), Backed(d, i)
    PROVE  Backed(Append(d, b), i)
<1> DEFINE e == Append(d, b)
<1>1. d[i] \in Blocks /\ d[i].manifest \in Manifests
  BY FooterFields DEF IsCommit
<1>2. Len(d) \in Nat /\ Len(e) = Len(d) + 1 /\ \A j \in 1..Len(d) : e[j] = d[j]
  BY AppendFacts, LenProperties
<1>3. Fits(e, d[i].manifest, i - 1)
  BY <1>1, <1>2, FitsAppend DEF Backed
<1> QED BY <1>1, <1>2, <1>3 DEF Backed

LEMMA AgreeAppend ==
    ASSUME NEW d \in Seq(Blocks), NEW s \in Seq(Blocks), NEW b \in Blocks,
           NEW n \in Nat, Agree(d, s, n)
    PROVE  Agree(Append(d, b), s, n)
<1> SUFFICES ASSUME NEW j \in 1..n PROVE Same(Append(d, b), s, j)
  BY DEF Agree
<1>1. Same(d, s, j) /\ j \in 1..Len(d)
  BY LenProperties DEF Agree, Same
<1> QED BY <1>1, AppendFacts, LenProperties DEF Same

\* Writing a block that is not a footer.
LEMMA AppendKeeps ==
    ASSUME NEW d \in Seq(Blocks), NEW s \in Seq(Blocks), FileInv(d, s),
           NEW b \in Blocks, b.kind # "footer"
    PROVE  FileInv(Append(d, b), s)
<1> DEFINE e == Append(d, b)
<1>1. Len(d) \in Nat /\ Len(e) = Len(d) + 1 /\ \A j \in 1..Len(d) : e[j] = d[j]
  BY AppendFacts, LenProperties
<1>2. e[Len(d) + 1] = b
  BY AppendFacts
<1>3. ASSUME NEW i \in 1..Len(e), IsCommit(e, i)
      PROVE  Backed(e, i) /\ Agree(e, s, i - 1)
  <2>1. i \in 1..Len(d) /\ IsCommit(d, i)
    BY <1>1, <1>2, <1>3 DEF IsCommit
  <2>2. Backed(d, i) /\ Agree(d, s, i - 1)
    BY <2>1 DEF FileInv
  <2> HIDE DEF e
  <2> QED BY <2>1, <2>2, BackedAppend, AgreeAppend, <1>1 DEF e
<1>4. ASSUME NEW i \in 1..Len(s), IsCommit(s, i)
      PROVE  Agree(e, s, i)
  BY <1>4, AgreeAppend, LenProperties DEF FileInv
<1> QED BY <1>3, <1>4 DEF FileInv

\* Writing the footer of a manifest that is on the medium with all it needs.
LEMMA AppendFooterKeeps ==
    ASSUME NEW d \in Seq(Blocks), NEW s \in Seq(Blocks), FileInv(d, s),
           NEW m \in Manifests, Len(d) >= 2, d[1] \in {Header, Rotten},
           d[Len(d)] \in {ManifestBlock(m), Rotten},
           Fits(d, m, Len(d)), Agree(d, s, Len(d))
    PROVE  FileInv(Append(d, Footer(Len(d) + 1, Len(d), m)), s)
<1> DEFINE n == Len(d)
           b == Footer(n + 1, n, m)
           e == Append(d, b)
<1>1. n \in Nat /\ n >= 2
  BY LenProperties
<1>2. b \in Blocks /\ b.at = n + 1 /\ b.man = n /\ b.manifest = m
  BY <1>1, FooterBlock
<1>3. Len(e) = n + 1 /\ (\A j \in 1..n : e[j] = d[j]) /\ e[n + 1] = b
  BY <1>2, AppendFacts
<1>4. Fits(e, m, n) /\ Agree(e, s, n)
  BY <1>1, <1>2, FitsAppend, AgreeAppend
<1>5. ASSUME NEW i \in 1..Len(e), IsCommit(e, i)
      PROVE  Backed(e, i) /\ Agree(e, s, i - 1)
  <2>1. CASE i = n + 1
    <3>1. Backed(e, i)
      <4> HIDE DEF b, e
      <4> QED BY <2>1, <1>1, <1>2, <1>3, <1>4 DEF Backed
    <3> QED BY <3>1, <2>1, <1>1, <1>4
  <2>2. CASE i \in 1..n
    <3>1. IsCommit(d, i)
      BY <2>2, <1>3, <1>5 DEF IsCommit
    <3>2. Backed(d, i) /\ Agree(d, s, i - 1)
      BY <2>2, <3>1 DEF FileInv
    <3> QED BY <3>1, <3>2, <2>2, <1>2, BackedAppend, AgreeAppend
  <2> QED BY <1>1, <1>3, <2>1, <2>2
<1>6. ASSUME NEW i \in 1..Len(s), IsCommit(s, i)
      PROVE  Agree(e, s, i)
  BY <1>2, <1>6, AgreeAppend, LenProperties DEF FileInv
<1> QED BY <1>5, <1>6 DEF FileInv

\* A sync puts the whole file on the medium.
LEMMA SyncKeeps ==
    ASSUME NEW d \in Seq(Blocks), NEW s \in Seq(Blocks), FileInv(d, s)
    PROVE  FileInv(d, d)
BY LenProperties DEF FileInv, Agree, Same, IsCommit

LEMMA EmptyFile == FileInv(<<>>, <<>>)
BY DEF FileInv, IsCommit

LEMMA FitsPrefix ==
    ASSUME NEW d, NEW e, NEW m \in Manifests, NEW n \in Nat, Fits(d, m, n),
           \A j \in 1..n : e[j] = d[j]
    PROVE  Fits(e, m, n)
BY DEF Fits, Manifests

\* Two files that are the same up to a commit of the first.
LEMMA BackedPrefix ==
    ASSUME NEW d \in Seq(Blocks), NEW e \in Seq(Blocks), NEW i \in 1..Len(d),
           IsCommit(d, i), Backed(d, i), i <= Len(e),
           \A j \in 1..i : e[j] = d[j]
    PROVE  IsCommit(e, i) /\ Backed(e, i)
<1>1. d[i] \in Blocks /\ d[i].manifest \in Manifests /\ Len(d) \in Nat /\ Len(e) \in Nat
  BY FooterFields, LenProperties DEF IsCommit
<1>2. IsCommit(e, i)
  BY <1>1 DEF IsCommit
<1>3. Fits(e, d[i].manifest, i - 1)
  <2>1. Fits(d, d[i].manifest, i - 1) /\ i - 1 \in Nat /\ \A j \in 1..i-1 : e[j] = d[j]
    BY <1>1 DEF Backed
  <2> QED BY <1>1, <2>1, FitsPrefix
<1> QED BY <1>1, <1>2, <1>3 DEF Backed

LEMMA TruncateFacts ==
    ASSUME NEW d \in Seq(Blocks), NEW k \in 1..Len(d)
    PROVE  /\ Truncated(d, k) \in Seq(Blocks)
           /\ Len(Truncated(d, k)) = k
           /\ \A j \in 1..k : Truncated(d, k)[j] = d[j]
BY SubSeqProperties, LenProperties DEF Truncated

\* An open for writing cuts nothing that a commit stands on.
LEMMA TruncateKeeps ==
    ASSUME NEW d \in Seq(Blocks), NEW s \in Seq(Blocks), FileInv(d, s),
           NEW k \in 1..Len(d), \A j \in k+1..Len(d) : ~IsCommit(d, j)
    PROVE  FileInv(Truncated(d, k), s)
<1> DEFINE e == Truncated(d, k)
<1>1. e \in Seq(Blocks) /\ Len(e) = k /\ Len(d) \in Nat /\ \A j \in 1..k : e[j] = d[j]
  BY TruncateFacts, LenProperties
<1> HIDE DEF e
<1>2. ASSUME NEW i \in 1..k, Agree(d, s, i) PROVE Agree(e, s, i)
  BY <1>1, <1>2 DEF Agree, Same
<1>3. ASSUME NEW i \in 1..Len(e), IsCommit(e, i)
      PROVE  Backed(e, i) /\ Agree(e, s, i - 1)
  <2>1. i \in 1..Len(d) /\ IsCommit(d, i)
    BY <1>1, <1>3 DEF IsCommit
  <2>2. Backed(d, i) /\ Agree(d, s, i - 1)
    BY <2>1 DEF FileInv
  <2>3. Backed(e, i)
    <3>1. i <= Len(e) /\ \A j \in 1..i : e[j] = d[j]
      BY <1>1, <1>3
    <3> QED BY <1>1, <2>1, <2>2, <3>1, BackedPrefix
  <2>4. i - 1 \in 0..k /\ \A j \in 1..i-1 : j \in 1..k /\ Same(d, s, j)
    BY <1>1, <2>1, <1>3, <2>2 DEF Agree
  <2>5. \A j \in 1..i-1 : Same(e, s, j)
    BY <1>1, <2>4 DEF Same
  <2> QED BY <2>3, <2>5 DEF Agree
<1>4. ASSUME NEW i \in 1..Len(s), IsCommit(s, i)
      PROVE  Agree(e, s, i)
  <2>1. Agree(d, s, i)
    BY <1>4 DEF FileInv
  <2>2. IsCommit(d, i) /\ i \in 1..Len(d)
    BY <1>4, <2>1, LenProperties DEF IsCommit, Agree, Same
  <2>3. i \in 1..k
    BY <1>1, <2>2
  <2> QED BY <1>2, <2>1, <2>3
<1> QED BY <1>3, <1>4 DEF FileInv, e

\* What a power loss leaves agrees with both versions wherever they agree, and
\* is in every other place one of the two or torn.
LEMMA SurvivorFacts ==
    ASSUME NEW d \in Seq(Blocks), NEW s \in Seq(Blocks), NEW f \in Survivors(d, s)
    PROVE  /\ f \in Seq(Blocks)
           /\ \A i \in 1..Len(f) :
                \/ i <= Len(d) /\ f[i] = d[i]
                \/ i <= Len(s) /\ f[i] = s[i]
                \/ f[i] = Torn
           /\ \A i \in Nat \ {0} : Same(d, s, i) => i <= Len(f) /\ f[i] = d[i]
<1>1. Len(d) \in Nat /\ Len(s) \in Nat
  BY LenProperties
<1> DEFINE Lens == { k \in 0..Len(d) + Len(s) :
                        \/ Len(d) <= k /\ k <= Len(s)
                        \/ Len(s) <= k /\ k <= Len(d) }
           Open(n) == { i \in 1..n : ~Same(d, s, i) }
           Image(n, fate) == [i \in 1..n |-> IF i \in Open(n)
                                             THEN AfterLoss(d, s, i, fate[i]) ELSE d[i]]
<1>a. PICK n \in Lens : f \in { Image(n, fate) :
                                fate \in [Open(n) -> {"written", "synced", "torn"}] }
  BY DEF Survivors
<1>2. PICK fate \in [Open(n) -> {"written", "synced", "torn"}] : f = Image(n, fate)
  BY <1>a
<1>3. n \in Nat /\ \A i \in Nat \ {0} : Same(d, s, i) => i <= n
  BY <1>1 DEF Same
<1>4. ASSUME NEW i \in 1..n
      PROVE  /\ f[i] \in Blocks
             /\ \/ i <= Len(d) /\ f[i] = d[i]
                \/ i <= Len(s) /\ f[i] = s[i]
                \/ f[i] = Torn
  <2>1. CASE Same(d, s, i)
    <3>1. f[i] = d[i] /\ i \in 1..Len(d)
      BY <1>1, <1>2, <2>1 DEF Same
    <3> QED BY <3>1, ElementOfSeq
  <2>2. CASE ~Same(d, s, i)
    <3>1. f[i] = AfterLoss(d, s, i, fate[i])
      BY <1>2, <2>2
    <3> QED BY <3>1, <1>1, ElementOfSeq, SpecialBlocks DEF AfterLoss
  <2> QED BY <2>1, <2>2
<1>5. f = [i \in 1..n |-> f[i]]
  BY <1>2
<1>6. f \in Seq(Blocks) /\ Len(f) = n
  <2>1. f \in [1..n -> Blocks]
    BY <1>4, <1>5
  <2> QED BY <2>1, <1>3, SeqDef, LenProperties
<1>7. ASSUME NEW i \in Nat \ {0}, Same(d, s, i)
      PROVE  i <= Len(f) /\ f[i] = d[i]
  <2>1. i \in 1..n
    BY <1>3, <1>7
  <2> QED BY <2>1, <1>2, <1>6, <1>7
<1> QED BY <1>4, <1>6, <1>7

\* A footer that a power loss leaves was there before it.
LEMMA LossCommits ==
    ASSUME NEW d \in Seq(Blocks), NEW s \in Seq(Blocks), FileInv(d, s),
           NEW f \in Survivors(d, s), NEW i \in 1..Len(f), IsCommit(f, i)
    PROVE  i \in 1..Len(d) /\ IsCommit(d, i) /\ f[i] = d[i]
<1>1. Len(f) \in Nat /\ Len(d) \in Nat /\ Len(s) \in Nat
  BY SurvivorFacts, LenProperties
<1>2. f[i] # Torn
  BY SpecialBlocks DEF IsCommit
<1>3. CASE i <= Len(d) /\ f[i] = d[i]
  BY <1>1, <1>3 DEF IsCommit
<1>4. CASE i <= Len(s) /\ f[i] = s[i]
  <2>1. i \in 1..Len(s) /\ IsCommit(s, i)
    BY <1>1, <1>4 DEF IsCommit
  <2>2. Same(d, s, i)
    BY <2>1 DEF FileInv, Agree
  <2> QED BY <1>1, <1>4, <2>1, <2>2 DEF Same, IsCommit
<1> QED BY <1>1, <1>2, <1>3, <1>4, SurvivorFacts

LEMMA LossKeeps ==
    ASSUME NEW d \in Seq(Blocks), NEW s \in Seq(Blocks), FileInv(d, s),
           NEW f \in Survivors(d, s)
    PROVE  FileInv(f, f)
<1>1. f \in Seq(Blocks) /\ Len(f) \in Nat /\ Len(d) \in Nat /\ Len(s) \in Nat
  BY SurvivorFacts, LenProperties
<1>2. ASSUME NEW i \in 1..Len(f), IsCommit(f, i)
      PROVE  Backed(f, i)
  <2>1. i \in 1..Len(d) /\ IsCommit(d, i) /\ f[i] = d[i]
    BY <1>2, LossCommits
  <2>2. Backed(d, i) /\ Agree(d, s, i - 1)
    BY <2>1 DEF FileInv
  <2>3. \A j \in 1..i : f[j] = d[j]
    <3> SUFFICES ASSUME NEW j \in 1..i-1 PROVE f[j] = d[j]
      BY <2>1
    <3> QED BY <2>2, SurvivorFacts DEF Agree
  <2> QED BY <1>1, <2>1, <2>2, <2>3, BackedPrefix
<1>3. ASSUME NEW i \in Nat, i <= Len(f) PROVE Agree(f, f, i)
  BY <1>1, <1>3 DEF Agree, Same
<1> QED BY <1>1, <1>2, <1>3 DEF FileInv

\* A block goes bad on the medium.
LEMMA RotKeeps ==
    ASSUME NEW d \in Seq(Blocks), NEW s \in Seq(Blocks), FileInv(d, s),
           NEW k \in 1..Len(d), Same(d, s, k)
    PROVE  FileInv([d EXCEPT ![k] = Rotten], [s EXCEPT ![k] = Rotten])
<1> DEFINE e == [d EXCEPT ![k] = Rotten]
           t == [s EXCEPT ![k] = Rotten]
<1>1. /\ Len(d) \in Nat /\ Len(s) \in Nat /\ k \in 1..Len(s)
      /\ e \in Seq(Blocks) /\ t \in Seq(Blocks) /\ Len(e) = Len(d) /\ Len(t) = Len(s)
      /\ \A j \in 1..Len(d) : e[j] = IF j = k THEN Rotten ELSE d[j]
      /\ \A j \in 1..Len(s) : t[j] = IF j = k THEN Rotten ELSE s[j]
  BY ExceptSeq, SpecialBlocks, LenProperties DEF Same
<1> HIDE DEF e, t
<1>2. ASSUME NEW n \in Nat, Agree(d, s, n) PROVE Agree(e, t, n)
  BY <1>1, <1>2 DEF Agree, Same
<1>3. ASSUME NEW i \in 1..Len(e), IsCommit(e, i)
      PROVE  Backed(e, i) /\ Agree(e, t, i - 1)
  <2>1. i # k /\ i \in 1..Len(d) /\ IsCommit(d, i) /\ e[i] = d[i]
    BY <1>1, <1>3, SpecialBlocks DEF IsCommit
  <2>2. Backed(d, i) /\ Agree(d, s, i - 1)
    BY <2>1 DEF FileInv
  <2>3. d[i].manifest \in Manifests
    BY <2>1, FooterFields, ElementOfSeq DEF IsCommit
  <2>4. Fits(e, d[i].manifest, i - 1)
    <3> DEFINE m == d[i].manifest
    <3>1. Fits(d, m, i - 1) /\ m.unit \in [Contents -> Nat]
      BY <2>2, <2>3 DEF Backed, Manifests
    <3>2. \A j \in 2..i-1 : e[j] \in {d[j], Rotten}
      BY <1>1, <2>1
    <3> HIDE DEF m
    <3>3. Fits(e, m, i - 1)
      BY <3>1, <3>2 DEF Fits
    <3> QED BY <3>3 DEF m
  <2>5. Backed(e, i)
    BY <1>1, <2>1, <2>2, <2>4 DEF Backed
  <2> QED BY <1>2, <2>1, <2>2, <2>5
<1>4. ASSUME NEW i \in 1..Len(t), IsCommit(t, i)
      PROVE  Agree(e, t, i)
  <2>1. i \in 1..Len(s) /\ IsCommit(s, i)
    BY <1>1, <1>4, SpecialBlocks DEF IsCommit
  <2> QED BY <1>2, <2>1 DEF FileInv
<1> QED BY <1>3, <1>4 DEF FileInv, e, t

----------------------------------------------------------------------------
(* Types. *)

LEMMA ManifestTypes ==
    /\ EmptyManifest \in Manifests
    /\ \A m \in Manifests : NextGeneration(m) \in Manifests
    /\ \A m \in Manifests : /\ NextGeneration(m).tree = m.tree
                            /\ NextGeneration(m).unit = m.unit
BY DEF Manifests, EmptyManifest, NextGeneration, NoTree, NoUnits, Trees

LEMMA TreeUpdate ==
    ASSUME NEW m \in Manifests, NEW t \in Trees
    PROVE  /\ [m EXCEPT !.tree = t] \in Manifests
           /\ [m EXCEPT !.tree = t].tree = t
           /\ [m EXCEPT !.tree = t].unit = m.unit
BY DEF Manifests

LEMMA UnitUpdate ==
    ASSUME NEW m \in Manifests, NEW c \in Contents, NEW n \in Nat
    PROVE  /\ [m EXCEPT !.unit[c] = n] \in Manifests
           /\ [m EXCEPT !.unit[c] = n].tree = m.tree
           /\ [m EXCEPT !.unit[c] = n].unit = [m.unit EXCEPT ![c] = n]
BY DEF Manifests

LEMMA NoUnitsUpdate ==
    ASSUME NEW m \in Manifests
    PROVE  /\ [m EXCEPT !.unit = NoUnits] \in Manifests
           /\ [m EXCEPT !.unit = NoUnits].tree = m.tree
           /\ [m EXCEPT !.unit = NoUnits].unit = NoUnits
BY DEF Manifests, NoUnits

LEMMA PutType ==
    ASSUME NEW t \in Trees, NEW S \in SUBSET Paths, NEW a \in [S -> Contents]
    PROVE  Put(t, a) \in Trees
BY DEF Put, Trees

LEMMA TreesOf ==
    ASSUME NEW m \in Manifests
    PROVE  m.tree \in Trees /\ m.unit \in [Contents -> Nat]
BY DEF Manifests

LEMMA FileTypes ==
    ASSUME TypeOK, NEW f \in Files
    PROVE  disk[f] \in Seq(Blocks) /\ durable[f] \in Seq(Blocks) /\ Len(disk[f]) \in Nat
BY LenProperties DEF TypeOK

LEMMA WriteType ==
    ASSUME TypeOK, NEW f \in Files, NEW b \in Blocks, Write(f, b)
    PROVE  disk' \in [Files -> Seq(Blocks)]
<1>1. Append(disk[f], b) \in Seq(Blocks)
  BY FileTypes, AppendFacts
<1> QED BY <1>1 DEF Write, TypeOK

LEMMA SyncType ==
    ASSUME TypeOK, NEW f \in Files, Sync(f)
    PROVE  durable' \in [Files -> Seq(Blocks)]
BY DEF Sync, TypeOK

LEMMA FoundType ==
    ASSUME TypeOK, NEW i \in 1..Len(disk["archive"]), Found(disk["archive"], i)
    PROVE  FooterIn(disk["archive"][i]).manifest \in Manifests
<1>1. disk["archive"] \in Seq(Blocks) /\ disk["archive"][i] \in Blocks
  BY ElementOfSeq DEF TypeOK, Files
<1> QED BY <1>1, CandidateIsCommit, FooterFields DEF Found, IsReadable, IsCommit

LEMMA SurvivorType ==
    ASSUME TypeOK, NEW f \in Survivors(disk["archive"], durable["archive"])
    PROVE  f \in Seq(Blocks)
BY SurvivorFacts DEF TypeOK, Files

LEMMA EmptyFileType == <<>> \in Seq(Blocks)
BY EmptySeq

LEMMA DropHandleType ==
    ASSUME DropHandle
    PROVE  /\ pc' \in Pcs /\ target' \in Files /\ mem' \in Manifests
           /\ plan' \in Manifests /\ todo' \subseteq Contents
BY ManifestTypes DEF DropHandle, Pcs, Files

LEMMA TypeInit == Init => TypeOK
BY LogAssumption, ManifestTypes, EmptyFileType DEF Init, TypeOK, Files, Pcs

LEMMA TypeStep == TypeOK /\ [Next]_vars => TypeOK'
<1> SUFFICES ASSUME TypeOK, [Next]_vars PROVE TypeOK'
  OBVIOUS
<1>1. CASE Create
  <2>1. "archive" \in Files /\ disk' \in [Files -> Seq(Blocks)]
    BY <1>1, SpecialBlocks, WriteType DEF Create, Files
  <2> QED BY <1>1, <2>1, ManifestTypes DEF Create, bounds, TypeOK, Pcs
<1>2. CASE OpenRw
  <2>1. PICK i \in 1..Len(disk["archive"]) :
          /\ Found(disk["archive"], i)
          /\ mem' = FooterIn(disk["archive"][i]).manifest
          /\ disk' = [disk EXCEPT !["archive"] = Truncated(@, i)]
    BY <1>2 DEF OpenRw
  <2>2. mem' \in Manifests
    BY <2>1, FoundType
  <2>3. Truncated(disk["archive"], i) \in Seq(Blocks)
    BY TruncateFacts DEF TypeOK, Files
  <2> QED BY <1>2, <2>1, <2>2, <2>3 DEF OpenRw, bounds, TypeOK, Files, Pcs
<1>3. CASE Close
  BY <1>3, ManifestTypes DEF Close, bounds, TypeOK, Files, Pcs
<1>4. ASSUME NEW r \in Readers, OpenRo(r) PROVE TypeOK'
  <2>1. PICK i \in 1..Len(disk["archive"]) :
          /\ Found(disk["archive"], i)
          /\ snap' = [snap EXCEPT ![r] = FooterIn(disk["archive"][i]).manifest]
    BY <1>4 DEF OpenRo
  <2>2. FooterIn(disk["archive"][i]).manifest \in Manifests
    BY <2>1, FoundType
  <2> QED BY <1>4, <2>1, <2>2 DEF OpenRo, bounds, TypeOK
<1>5. ASSUME NEW r \in Readers, CloseRo(r) PROVE TypeOK'
  BY <1>5 DEF CloseRo, bounds, TypeOK
<1>6. ASSUME NEW S \in SUBSET Paths \ {{}}, Remove(S) PROVE TypeOK'
  <2> DEFINE t == [p \in Paths |-> IF p \in S THEN Absent ELSE mem.tree[p]]
  <2>1. mem \in Manifests /\ t \in Trees
    BY TreesOf DEF TypeOK, Trees
  <2>2. mem' = NextGeneration([mem EXCEPT !.tree = t])
    BY <1>6 DEF Remove
  <2>3. mem' \in Manifests
    BY <2>1, <2>2, TreeUpdate, ManifestTypes
  <2> QED BY LogAssumption, <1>6, <2>3 DEF Remove, StartOp, TypeOK, Pcs
<1>7. ASSUME NEW S \in SUBSET Paths \ {{}}, NEW a \in [S -> Contents], AddPaths(a)
      PROVE  TypeOK'
  <2>1. mem \in Manifests /\ Put(mem.tree, a) \in Trees
    BY TreesOf, PutType DEF TypeOK
  <2>2. plan' \in Manifests
    BY <1>7, <2>1, TreeUpdate DEF AddPaths
  <2> QED BY LogAssumption, <1>7, <2>2 DEF AddPaths, StartOp, TypeOK, Pcs
<1>8. ASSUME NEW p \in Paths, NEW q \in Paths, Rename(p, q) PROVE TypeOK'
  <2> DEFINE t == [mem.tree EXCEPT ![p] = Absent, ![q] = mem.tree[p]]
  <2>1. mem \in Manifests /\ t \in Trees
    BY TreesOf DEF TypeOK, Trees
  <2>2. mem' = NextGeneration([mem EXCEPT !.tree = t])
    BY <1>8 DEF Rename
  <2>3. mem' \in Manifests
    BY <2>1, <2>2, TreeUpdate, ManifestTypes
  <2> QED BY LogAssumption, <1>8, <2>3 DEF Rename, StartOp, TypeOK, Pcs
<1>9. ASSUME NEW c \in Contents, PackUnit(c) PROVE TypeOK'
  <2>1. "archive" \in Files /\ disk' \in [Files -> Seq(Blocks)]
    BY <1>9, UnitBlock, WriteType DEF PackUnit, Files
  <2>2. NextOffset(disk["archive"]) \in Nat
    BY <2>1, FileTypes DEF NextOffset
  <2>3. plan' \in Manifests
    BY <1>9, <2>2, UnitUpdate DEF PackUnit, TypeOK
  <2> QED BY <1>9, <2>1, <2>3 DEF PackUnit, bounds, TypeOK
<1>10. ASSUME NEW c \in Contents, CopyUnit(c) PROVE TypeOK'
  <2>1. "copy" \in Files /\ disk' \in [Files -> Seq(Blocks)]
    BY <1>10, UnitBlock, WriteType DEF CopyUnit, Verifies, Files
  <2>2. NextOffset(disk["copy"]) \in Nat
    BY <2>1, FileTypes DEF NextOffset
  <2>3. plan' \in Manifests
    BY <1>10, <2>2, UnitUpdate DEF CopyUnit, TypeOK
  <2> QED BY <1>10, <2>1, <2>3 DEF CopyUnit, bounds, TypeOK
<1>11. CASE PackDone
  BY <1>11, ManifestTypes DEF PackDone, bounds, TypeOK, Pcs
<1>12. CASE Compact
  <2>1. "copy" \in Files /\ disk' \in [Files -> Seq(Blocks)]
    BY <1>12, SpecialBlocks, WriteType DEF Compact, Files
  <2>2. plan' \in Manifests
    BY <1>12, NoUnitsUpdate DEF Compact, TypeOK
  <2> QED BY LogAssumption, <1>12, <2>1, <2>2 DEF Compact, StartOp, Live, TypeOK, Pcs
<1>13. CASE CopyRefused
  BY <1>13, EmptyFileType, DropHandleType DEF CopyRefused, DropCopy, bounds, TypeOK
<1>14. CASE CopyDone
  BY <1>14, ManifestTypes DEF CopyDone, bounds, TypeOK, Pcs
<1>15. CASE Swap
  <2>1. acked' \in [at : Nat, manifest : Manifests]
    BY <1>15, FileTypes DEF Swap, TypeOK, Files
  <2> QED BY <1>15, <2>1, EmptyFileType, DropHandleType DEF Swap, bounds, TypeOK, Files
<1>16. CASE WriteManifest
  <2>1. disk' \in [Files -> Seq(Blocks)]
    BY <1>16, ManifestBlockType, WriteType DEF WriteManifest, TypeOK
  <2> QED BY <1>16, <2>1 DEF WriteManifest, bounds, TypeOK, Pcs
<1>17. CASE Barrier
  BY <1>17, SyncType DEF Barrier, SyncData, bounds, TypeOK, Pcs
<1>18. CASE WriteFooter
  <2>1. disk' \in [Files -> Seq(Blocks)]
    <3>1. Len(disk[target]) \in Nat /\ Len(disk[target]) + 1 \in Nat
      BY FileTypes DEF TypeOK
    <3>2. Footer(Len(disk[target]) + 1, Len(disk[target]), mem) \in Blocks
      BY <3>1, FooterBlock DEF TypeOK
    <3> QED BY <1>18, <3>2, WriteType DEF WriteFooter, TypeOK
  <2> QED BY <1>18, <2>1 DEF WriteFooter, bounds, TypeOK, Pcs
<1>19. CASE Acknowledge
  <2>1. acked' \in [at : Nat, manifest : Manifests] /\ durable' \in [Files -> Seq(Blocks)]
    BY <1>19, FileTypes, SyncType DEF Acknowledge, TypeOK
  <2> QED BY <1>19, <2>1 DEF Acknowledge, bounds, TypeOK, Pcs
<1>20. CASE CopySettled
  BY <1>20, SyncType DEF CopySettled, bounds, TypeOK, Pcs
<1>21. CASE WriterStops
  <2>1. Append(disk["archive"], Torn) \in Seq(Blocks)
    BY FileTypes, AppendFacts, SpecialBlocks DEF Files
  <2>2. disk' \in [Files -> Seq(Blocks)]
    BY <1>21, <2>1, EmptyFileType DEF WriterStops, TypeOK, Files
  <2>3. durable' \in [Files -> Seq(Blocks)] /\ DropHandle
    BY <1>21, EmptyFileType DEF WriterStops, TypeOK
  <2>4. stops' \in 0..MaxStops /\ UNCHANGED <<snap, replaced, acked, ops, rots>>
    BY LogAssumption, <1>21 DEF WriterStops, TypeOK
  <2> QED BY <2>2, <2>3, <2>4, DropHandleType DEF TypeOK
<1>22. CASE PowerLoss
  <2>1. /\ disk' \in [Files -> Seq(Blocks)] /\ durable' \in [Files -> Seq(Blocks)]
        /\ DropHandle
    BY <1>22, SurvivorType, EmptyFileType DEF PowerLoss
  <2>2. stops' \in 0..MaxStops /\ UNCHANGED <<acked, ops, rots>>
    BY LogAssumption, <1>22 DEF PowerLoss, TypeOK
  <2>3. snap' \in [Readers -> Manifests \cup {NoHandle}] /\ replaced' \subseteq Readers
    BY <1>22 DEF PowerLoss
  <2> QED BY <2>1, <2>2, <2>3, DropHandleType DEF TypeOK
<1>23. ASSUME NEW i \in 1..Len(disk["archive"]), Rot(i) PROVE TypeOK'
  <2>1. /\ [disk["archive"] EXCEPT ![i] = Rotten] \in Seq(Blocks)
        /\ [durable["archive"] EXCEPT ![i] = Rotten] \in Seq(Blocks)
    BY <1>23, ExceptSeq, SpecialBlocks, LenProperties DEF Rot, Same, TypeOK, Files
  <2> QED BY LogAssumption, <1>23, <2>1 DEF Rot, TypeOK, Files
<1>24. CASE UNCHANGED vars
  BY <1>24 DEF vars, TypeOK
<1> QED
  BY <1>1, <1>2, <1>3, <1>4, <1>5, <1>6, <1>7, <1>8, <1>9, <1>10, <1>11, <1>12, <1>13,
     <1>14, <1>15, <1>16, <1>17, <1>18, <1>19, <1>20, <1>21, <1>22, <1>23, <1>24
     DEF Next

\* The types of the variables, for every value of the constants.
THEOREM TypeCorrect == Spec => []TypeOK
BY TypeInit, TypeStep, PTL DEF Spec

----------------------------------------------------------------------------
(* The safety properties. One inductive invariant carries them: FileInv for  *)
(* the archive and for the copy, what the writer knows at each pc, and where *)
(* rot has been. On top of it come what was acknowledged, what readers hold  *)
(* and the order of generations, each inductive once the first is known.     *)

HasHeader(d) == Len(d) >= 1 /\ d[1] \in {Header, Rotten}

\* No block of the file is rotten.
Sound(d) == \A j \in 1..Len(d) : d[j] # Rotten

\* Manifest m will fit file d once the contents T have their units.
Draft(d, m, T) ==
    /\ \A p \in Paths :
        m.tree[p] # Absent => m.tree[p] \in T \/ m.unit[m.tree[p]] # 0
    /\ \A c \in Contents : m.unit[c] # 0 =>
        m.unit[c] \in 2..Len(d) /\ d[m.unit[c]] \in {Unit(c), Rotten}

FilesInv == \A f \in Files : FileInv(disk[f], durable[f])

RotInv ==
    /\ Sound(disk["copy"]) /\ Sound(durable["copy"])
    /\ rots = 0 => Sound(disk["archive"]) /\ Sound(durable["archive"])

\* The last block the writer put in its file.
Last(d) == d[Len(d)]

Tailing == {"manifest", "barrier", "footer", "settle", "swap"}

\* What the writer knows of the file it works on, at each pc.
WriterInv ==
    /\ pc \in {"closed", "idle", "packing"} => target = "archive"
    /\ pc \in {"copying", "swap"} => target = "copy"
    /\ target = "archive" => disk["copy"] = <<>> /\ durable["copy"] = <<>>
    /\ pc \in {"idle", "packing"} => HasHeader(disk["archive"])
    /\ pc = "idle" => Fits(disk["archive"], mem, Len(disk["archive"]))
    /\ pc = "packing" => Draft(disk["archive"], plan, todo)
    /\ pc = "copying" => HasHeader(disk["copy"]) /\ Draft(disk["copy"], plan, todo)
    /\ pc \in Tailing =>
        HasHeader(disk[target]) /\ Fits(disk[target], mem, Len(disk[target]))
    /\ pc \in {"barrier", "footer"} =>
        Len(disk[target]) >= 2 /\ Last(disk[target]) \in {ManifestBlock(mem), Rotten}
    /\ pc = "footer" => Agree(disk[target], durable[target], Len(disk[target]))
    /\ pc \in {"settle", "swap"} =>
        Last(disk[target]) \in {Footer(Len(disk[target]), Len(disk[target]) - 1, mem), Rotten}
    /\ pc = "swap" => disk["copy"] = durable["copy"]

LogInv == TypeOK /\ FilesInv /\ RotInv /\ WriterInv

\* Where the acknowledged commit is, and that it is on the medium.
AckInv ==
    LET d == disk["archive"]
    IN  rots = 0 /\ acked.at # 0 =>
            /\ IsCommit(d, acked.at) /\ d[acked.at].manifest = acked.manifest
            /\ Agree(d, durable["archive"], acked.at)

\* A reader's manifest is still that of a commit in the file, unless that is another file.
SnapInv ==
    rots = 0 => \A r \in Readers : snap[r] # NoHandle /\ r \notin replaced =>
        \E i \in 1..Len(disk["archive"]) :
            IsCommit(disk["archive"], i) /\ disk["archive"][i].manifest = snap[r]

\* The commits of a file come in the order of their generations.
Ordered(d) ==
    \A i, j \in 1..Len(d) :
        IsCommit(d, i) /\ IsCommit(d, j) /\ i < j => d[i].manifest.gen < d[j].manifest.gen

\* No commit of d has a generation above g.
UpTo(d, g) == \A i \in 1..Len(d) : IsCommit(d, i) => d[i].manifest.gen <= g

Below(d, g) == \A i \in 1..Len(d) : IsCommit(d, i) => d[i].manifest.gen < g

GenInv ==
    /\ \A f \in Files : Ordered(disk[f])
    /\ pc \in {"idle", "settle", "swap"} => UpTo(disk[target], mem.gen)
    /\ pc \in {"packing", "copying"} => UpTo(disk[target], plan.gen)
    /\ pc \in {"manifest", "barrier", "footer"} => Below(disk[target], mem.gen)
----------------------------------------------------------------------------
(* Blocks written and units recorded. *)

LEMMA HeaderAppend ==
    ASSUME NEW d \in Seq(Blocks), NEW b \in Blocks, HasHeader(d)
    PROVE  HasHeader(Append(d, b))
BY AppendFacts, LenProperties DEF HasHeader

LEMMA HeaderAlone ==
    /\ Append(<<>>, Header) \in Seq(Blocks)
    /\ Len(Append(<<>>, Header)) = 1 /\ Append(<<>>, Header)[1] = Header
    /\ HasHeader(Append(<<>>, Header)) /\ Sound(Append(<<>>, Header))
    /\ \A i : ~IsCommit(Append(<<>>, Header), i)
<1> DEFINE e == Append(<<>>, Header)
<1>1. <<>> \in Seq(Blocks) /\ Len(<<>>) = 0 /\ Header \in Blocks
  BY EmptySeq, SpecialBlocks
<1>2. e \in Seq(Blocks) /\ Len(e) = 1 /\ e[1] = Header
  BY <1>1, AppendFacts
<1> HIDE DEF e
<1>3. Header # Rotten /\ Header.kind # "footer"
  BY SpecialBlocks
<1>4. HasHeader(e) /\ Sound(e) /\ \A i : ~IsCommit(e, i)
  BY <1>2, <1>3 DEF HasHeader, Sound, IsCommit
<1> QED BY <1>2, <1>4 DEF e

LEMMA SoundAppend ==
    ASSUME NEW d \in Seq(Blocks), NEW b \in Blocks, Sound(d), b # Rotten
    PROVE  Sound(Append(d, b))
BY AppendFacts, LenProperties DEF Sound

LEMMA LastAppend ==
    ASSUME NEW d \in Seq(Blocks), NEW b \in Blocks
    PROVE  Last(Append(d, b)) = b /\ Len(Append(d, b)) = Len(d) + 1
BY AppendFacts DEF Last

LEMMA FitsGrows ==
    ASSUME NEW d \in Seq(Blocks), NEW b \in Blocks, NEW m \in Manifests,
           Fits(d, m, Len(d))
    PROVE  Fits(Append(d, b), m, Len(Append(d, b)))
<1>1. Len(d) \in Nat /\ Len(Append(d, b)) = Len(d) + 1
  BY AppendFacts, LenProperties
<1>2. Fits(Append(d, b), m, Len(d))
  BY <1>1, FitsAppend
<1>3. \A n \in 2..Len(d) : n \in 2..Len(d) + 1
  BY <1>1
<1> QED BY <1>1, <1>2, <1>3 DEF Fits

\* The unit of a content goes to the end and its place into the manifest.
LEMMA DraftUnit ==
    ASSUME NEW d \in Seq(Blocks), NEW m \in Manifests, NEW T \in SUBSET Contents,
           NEW c \in T, HasHeader(d), Draft(d, m, T)
    PROVE  Draft(Append(d, Unit(c)), [m EXCEPT !.unit[c] = Len(d) + 1], T \ {c})
<1> DEFINE e == Append(d, Unit(c))
           k == [m EXCEPT !.unit[c] = Len(d) + 1]
<1>1. Len(d) \in Nat /\ Len(d) >= 1
  BY LenProperties DEF HasHeader
<1>2. /\ Len(e) = Len(d) + 1 /\ e[Len(d) + 1] = Unit(c)
      /\ \A j \in 1..Len(d) : e[j] = d[j]
  BY UnitBlock, AppendFacts
<1>3. k.tree = m.tree /\ k.unit = [m.unit EXCEPT ![c] = Len(d) + 1]
  BY <1>1, UnitUpdate
<1>4. m.unit \in [Contents -> Nat] /\ m.tree \in Trees
  BY TreesOf
<1> HIDE DEF e, k
<1>5. \A x \in Contents : k.unit[x] = IF x = c THEN Len(d) + 1 ELSE m.unit[x]
  BY <1>3, <1>4
<1>6. ASSUME NEW p \in Paths, k.tree[p] # Absent
      PROVE  k.tree[p] \in T \ {c} \/ k.unit[k.tree[p]] # 0
  <2>1. k.tree[p] \in Contents /\ (k.tree[p] \in T \/ m.unit[k.tree[p]] # 0)
    BY <1>3, <1>4, <1>6 DEF Draft, Trees
  <2> QED BY <2>1, <1>1, <1>5
<1>7. ASSUME NEW x \in Contents, k.unit[x] # 0
      PROVE  k.unit[x] \in 2..Len(e) /\ e[k.unit[x]] \in {Unit(x), Rotten}
  <2>1. CASE x = c
    BY <2>1, <1>1, <1>2, <1>5
  <2>2. CASE x # c
    <3>1. k.unit[x] = m.unit[x] /\ m.unit[x] \in 2..Len(d) /\ d[m.unit[x]] \in {Unit(x), Rotten}
      BY <2>2, <1>5, <1>7 DEF Draft
    <3> QED BY <3>1, <1>1, <1>2
  <2> QED BY <2>1, <2>2
<1> QED BY <1>6, <1>7 DEF Draft, e, k

LEMMA DraftDone ==
    ASSUME NEW d, NEW m, Draft(d, m, {})
    PROVE  Fits(d, m, Len(d))
BY DEF Draft, Fits, EntriesHaveUnits

\* A generation counted up changes nothing a file needs to know.
LEMMA FitsNextGeneration ==
    ASSUME NEW d, NEW n, NEW m \in Manifests, Fits(d, m, n)
    PROVE  Fits(d, NextGeneration(m), n)
BY ManifestTypes DEF Fits, EntriesHaveUnits

\* The entries change, and each that is new has its unit.
LEMMA FitsTree ==
    ASSUME NEW d, NEW n, NEW m \in Manifests, NEW t \in Trees, Fits(d, m, n),
           \A p \in Paths : t[p] # Absent => m.unit[t[p]] # 0
    PROVE  Fits(d, [m EXCEPT !.tree = t], n)
BY TreeUpdate DEF Fits, EntriesHaveUnits

LEMMA RotFits ==
    ASSUME NEW d \in Seq(Blocks), NEW k \in 1..Len(d), NEW m \in Manifests
    PROVE  LET e == [d EXCEPT ![k] = Rotten]
           IN  /\ Fits(d, m, Len(d)) => Fits(e, m, Len(e))
               /\ \A T : Draft(d, m, T) => Draft(e, m, T)
               /\ HasHeader(d) => HasHeader(e)
               /\ Len(e) = Len(d)
               /\ \A x : Last(d) \in {x, Rotten} => Last(e) \in {x, Rotten}
<1> DEFINE e == [d EXCEPT ![k] = Rotten]
<1>1. Len(d) \in Nat /\ Len(e) = Len(d)
      /\ \A j \in 1..Len(d) : e[j] = IF j = k THEN Rotten ELSE d[j]
  BY ExceptSeq, SpecialBlocks, LenProperties
<1> HIDE DEF e
<1>2. Fits(d, m, Len(d)) => Fits(e, m, Len(e))
  BY <1>1 DEF Fits
<1>3. \A T : Draft(d, m, T) => Draft(e, m, T)
  BY <1>1 DEF Draft
<1>4. HasHeader(d) => HasHeader(e)
  BY <1>1 DEF HasHeader
<1>5. \A x : Last(d) \in {x, Rotten} => Last(e) \in {x, Rotten}
  BY <1>1 DEF Last
<1> QED BY <1>1, <1>2, <1>3, <1>4, <1>5 DEF e

\* What opening finds in a file is a commit with all it stands for, and no
\* commit of a file free of rot is passed over for an older one.
LEMMA FoundFacts ==
    ASSUME NEW d \in Seq(Blocks), NEW s, FileInv(d, s), NEW i \in 1..Len(d), Found(d, i)
    PROVE  /\ IsCommit(d, i) /\ Backed(d, i) /\ d[1] = Header
           /\ FooterIn(d[i]) = d[i] /\ d[i].manifest \in Manifests
           /\ Sound(d) => \A j \in i+1..Len(d) : ~IsCommit(d, j)
           /\ MayWrite(d, i) => \A j \in i+1..Len(d) : ~IsCommit(d, j)
<1>1. IsCommit(d, i) /\ FooterIn(d[i]) = d[i] /\ d[1] = Header
  BY CandidateIsCommit DEF Found, IsReadable
<1>2. Backed(d, i)
  BY <1>1 DEF FileInv
<1>3. d[i].manifest \in Manifests
  BY <1>1, FooterFields, ElementOfSeq DEF IsCommit
<1>4. Len(d) \in Nat
  BY LenProperties
<1>5. ASSUME NEW j \in i+1..Len(d), IsCommit(d, j), Sound(d) PROVE FALSE
  <2>1. j \in 1..Len(d) /\ IsCandidate(d, j) /\ FooterIn(d[j]) = d[j]
    BY <1>4, <1>5, CandidateIsCommit
  <2>2. Backed(d, j)
    BY <2>1, <1>5 DEF FileInv
  <2>3. ManifestReads(d, j)
    BY <1>4, <1>5, <2>1, <2>2 DEF ManifestReads, Backed, Sound
  <2> QED BY <2>1, <2>3 DEF Found, IsReadable
<1>6. ASSUME NEW j \in i+1..Len(d), IsCommit(d, j), MayWrite(d, i) PROVE FALSE
  <2>1. IsCandidate(d, j)
    BY <1>4, <1>6, CandidateIsCommit
  <2> QED BY <2>1, <1>6 DEF MayWrite, Damaged
<1> QED BY <1>1, <1>2, <1>3, <1>5, <1>6
----------------------------------------------------------------------------
(* Every step keeps LogInv. *)

\* LogInv without the types, which TypeStep takes care of.
FileAndWriter == FilesInv /\ RotInv /\ WriterInv

LEMMA WriteFacts ==
    ASSUME TypeOK, NEW f \in Files, NEW b \in Blocks, Write(f, b)
    PROVE  /\ disk'[f] = Append(disk[f], b)
           /\ \A g \in Files : g # f => disk'[g] = disk[g]
BY DEF Write, TypeOK

LEMMA WriteKeeps ==
    ASSUME TypeOK, FilesInv, RotInv, NEW f \in Files, NEW b \in Blocks, Write(f, b),
           b.kind # "footer", b # Rotten, durable' = durable, rots' = rots
    PROVE  FilesInv' /\ RotInv'
<1>1. \A g \in Files : disk[g] \in Seq(Blocks) /\ durable[g] \in Seq(Blocks)
  BY FileTypes
<1>2. FilesInv'
  BY <1>1, WriteFacts, AppendKeeps DEF FilesInv
<1>3. RotInv'
  BY <1>1, WriteFacts, SoundAppend DEF RotInv, Files
<1> QED BY <1>2, <1>3

LEMMA CreateKeeps ==
    ASSUME LogInv, Create
    PROVE  FileAndWriter'
<1>1. TypeOK /\ "archive" \in Files /\ Header \in Blocks
      /\ Header.kind # "footer" /\ Header # Rotten
  BY SpecialBlocks DEF LogInv, Files
<1>2. FilesInv' /\ RotInv'
  BY <1>1, WriteKeeps DEF LogInv, Create, bounds
<1>3. disk'["archive"] = Append(<<>>, Header) /\ disk'["copy"] = <<>> /\ durable' = durable
      /\ target = "archive" /\ target' = target /\ pc' = "manifest"
      /\ durable["copy"] = <<>>
  BY <1>1, WriteFacts DEF Create, LogInv, WriterInv, Files
<1>4. Fits(Append(<<>>, Header), mem', Len(Append(<<>>, Header)))
  <2>1. Fits(Append(<<>>, Header), EmptyManifest, Len(Append(<<>>, Header)))
    BY DEF Fits, EntriesHaveUnits, EmptyManifest, NoTree, NoUnits
  <2> QED BY <2>1, FitsNextGeneration, ManifestTypes DEF Create
<1>5. WriterInv'
  BY <1>3, <1>4, HeaderAlone DEF WriterInv, Tailing
<1> QED BY <1>2, <1>5 DEF FileAndWriter

LEMMA OpenRwKeeps ==
    ASSUME LogInv, OpenRw
    PROVE  FileAndWriter'
<1> DEFINE d == disk["archive"]
           s == durable["archive"]
<1>1. d \in Seq(Blocks) /\ s \in Seq(Blocks) /\ FileInv(d, s) /\ Len(d) \in Nat
  BY FileTypes DEF LogInv, FilesInv, Files
<1>2. PICK i \in 1..Len(d) :
        /\ Found(d, i) /\ MayWrite(d, i)
        /\ mem' = FooterIn(d[i]).manifest
        /\ disk' = [disk EXCEPT !["archive"] = Truncated(@, i)]
  BY DEF OpenRw
<1> DEFINE e == Truncated(d, i)
<1>3. IsCommit(d, i) /\ Backed(d, i) /\ mem' = d[i].manifest /\ mem' \in Manifests
      /\ \A j \in i+1..Len(d) : ~IsCommit(d, j)
  BY <1>1, <1>2, FoundFacts
<1>4. e \in Seq(Blocks) /\ Len(e) = i /\ \A j \in 1..i : e[j] = d[j]
  BY <1>1, TruncateFacts
<1>5. FileInv(e, s)
  BY <1>1, <1>3, TruncateKeeps
<1>6. disk'["archive"] = e /\ disk'["copy"] = disk["copy"] /\ durable' = durable
      /\ rots' = rots /\ pc' = "idle" /\ target' = target /\ pc = "closed"
  BY <1>2 DEF OpenRw, LogInv, TypeOK, Files, bounds
<1> HIDE DEF e
<1>7. HasHeader(e) /\ Fits(e, mem', Len(e))
  <2>1. IsCommit(e, i) /\ Backed(e, i) /\ e[i] = d[i]
    <3>1. i \in 1..Len(d) /\ i <= Len(e) /\ i \in 1..i
      BY <1>1, <1>4
    <3> HIDE DEF d
    <3> QED BY <1>1, <1>3, <1>4, <3>1, BackedPrefix
  <2>2. Fits(e, mem', i - 1) /\ e[1] \in {Header, Rotten}
    BY <1>3, <2>1 DEF Backed
  <2>3. Fits(e, mem', i)
    <3>1. \A n \in 2..i-1 : n \in 2..i
      BY <1>1
    <3> QED BY <2>2, <3>1 DEF Fits
  <2> QED BY <1>4, <2>2, <2>3 DEF HasHeader
<1>8. Sound(d) => Sound(e)
  BY <1>1, <1>4 DEF Sound
<1>9. FilesInv'
  BY <1>5, <1>6 DEF LogInv, FilesInv, Files
<1>10. RotInv'
  BY <1>6, <1>8 DEF LogInv, RotInv
<1>11. WriterInv'
  BY <1>6, <1>7 DEF LogInv, WriterInv, Tailing
<1> QED BY <1>9, <1>10, <1>11 DEF FileAndWriter

\* The files stay as they are.
LEMMA FilesSame ==
    ASSUME LogInv, disk' = disk, durable' = durable, rots' = rots
    PROVE  FilesInv' /\ RotInv'
BY DEF LogInv, FilesInv, RotInv

LEMMA CloseKeeps ==
    ASSUME LogInv, Close
    PROVE  FileAndWriter'
BY FilesSame DEF Close, bounds, LogInv, WriterInv, Tailing, FileAndWriter

LEMMA ReaderKeeps ==
    ASSUME LogInv, NEW r \in Readers, OpenRo(r) \/ CloseRo(r)
    PROVE  FileAndWriter'
<1>1. UNCHANGED <<disk, durable, pc, target, mem, plan, todo, bounds>>
  BY DEF OpenRo, CloseRo, bounds
<1> QED BY <1>1, FilesSame DEF bounds, LogInv, WriterInv, FileAndWriter

LEMMA AddPathsKeeps ==
    ASSUME LogInv, NEW S \in SUBSET Paths, NEW a \in [S -> Contents], AddPaths(a)
    PROVE  FileAndWriter'
<1> DEFINE t == Put(mem.tree, a)
<1>1. mem \in Manifests /\ mem.tree \in Trees /\ t \in Trees
      /\ mem.unit \in [Contents -> Nat]
  BY TreesOf, PutType DEF LogInv, TypeOK
<1>2. plan'.tree = t /\ plan'.unit = mem.unit
  BY <1>1, TreeUpdate DEF AddPaths
<1>3. Fits(disk["archive"], mem, Len(disk["archive"])) /\ HasHeader(disk["archive"])
  BY DEF LogInv, WriterInv, AddPaths, StartOp
<1>4. Draft(disk["archive"], plan', todo')
  <2>1. ASSUME NEW p \in Paths, t[p] # Absent
        PROVE  t[p] \in todo' \/ mem.unit[t[p]] # 0
    <3>1. CASE p \in DOMAIN a
      <4>1. t[p] = a[p] /\ a[p] \in Contents
        BY <3>1 DEF Put
      <4> QED BY <3>1, <4>1 DEF AddPaths
    <3>2. CASE p \notin DOMAIN a
      <4>1. t[p] = mem.tree[p]
        BY <3>2 DEF Put
      <4> QED BY <4>1, <2>1, <1>3 DEF Fits, EntriesHaveUnits
    <3> QED BY <3>1, <3>2
  <2> HIDE DEF t
  <2> QED BY <2>1, <1>2, <1>3 DEF Draft, Fits
<1> QED BY <1>3, <1>4, FilesSame
        DEF AddPaths, StartOp, LogInv, WriterInv, Tailing, FileAndWriter

\* An edit of the tree that gives no entry a content without a unit.
LEMMA EditKeeps ==
    ASSUME LogInv, NEW t \in Trees, pc = "idle", pc' = "manifest",
           \A p \in Paths : t[p] # Absent => mem.unit[t[p]] # 0,
           mem' = NextGeneration([mem EXCEPT !.tree = t]),
           UNCHANGED <<disk, durable, target, rots>>
    PROVE  FileAndWriter'
<1>1. mem \in Manifests /\ target = "archive" /\ HasHeader(disk["archive"])
      /\ Fits(disk["archive"], mem, Len(disk["archive"]))
  BY DEF LogInv, TypeOK, WriterInv
<1>2. Fits(disk["archive"], mem', Len(disk["archive"]))
  BY <1>1, TreeUpdate, FitsTree, FitsNextGeneration
<1> QED BY <1>1, <1>2, FilesSame DEF LogInv, WriterInv, Tailing, FileAndWriter

LEMMA RenameKeeps ==
    ASSUME LogInv, NEW p \in Paths, NEW q \in Paths, Rename(p, q)
    PROVE  FileAndWriter'
<1> DEFINE t == [mem.tree EXCEPT ![p] = Absent, ![q] = mem.tree[p]]
<1>1. mem.tree \in Trees /\ EntriesHaveUnits(mem)
  BY TreesOf DEF LogInv, TypeOK, WriterInv, Fits, Rename, StartOp
<1>2. t \in Trees /\ \A x \in Paths : t[x] # Absent => mem.unit[t[x]] # 0
  BY <1>1 DEF Trees, EntriesHaveUnits
<1> QED BY <1>2, EditKeeps DEF Rename, StartOp

LEMMA RemoveKeeps ==
    ASSUME LogInv, NEW S \in SUBSET Paths, Remove(S)
    PROVE  FileAndWriter'
<1> DEFINE t == [p \in Paths |-> IF p \in S THEN Absent ELSE mem.tree[p]]
<1>1. mem.tree \in Trees /\ EntriesHaveUnits(mem)
  BY TreesOf DEF LogInv, TypeOK, WriterInv, Fits, Remove, StartOp
<1>2. t \in Trees /\ \A x \in Paths : t[x] # Absent => mem.unit[t[x]] # 0
  BY <1>1 DEF Trees, EntriesHaveUnits
<1> QED BY <1>2, EditKeeps DEF Remove, StartOp

LEMMA PackUnitKeeps ==
    ASSUME LogInv, NEW c \in Contents, PackUnit(c)
    PROVE  FileAndWriter'
<1>1. TypeOK /\ "archive" \in Files /\ Unit(c) \in Blocks
      /\ Unit(c).kind # "footer" /\ Unit(c) # Rotten
  BY UnitBlock, SpecialBlocks DEF LogInv, Files
<1>2. FilesInv' /\ RotInv'
  BY <1>1, WriteKeeps DEF LogInv, PackUnit, bounds
<1>3. disk'["archive"] = Append(disk["archive"], Unit(c)) /\ disk'["copy"] = disk["copy"]
  BY <1>1, WriteFacts DEF PackUnit, Files
<1>4. disk["archive"] \in Seq(Blocks) /\ HasHeader(disk["archive"])
      /\ Draft(disk["archive"], plan, todo) /\ plan \in Manifests /\ todo \in SUBSET Contents
  BY FileTypes DEF LogInv, WriterInv, TypeOK, PackUnit, Files
<1>5. HasHeader(disk'["archive"]) /\ Draft(disk'["archive"], plan', todo')
  BY <1>1, <1>3, <1>4, HeaderAppend, DraftUnit DEF PackUnit, NextOffset
<1> QED BY <1>2, <1>3, <1>5 DEF PackUnit, LogInv, WriterInv, Tailing, FileAndWriter

LEMMA CopyUnitKeeps ==
    ASSUME LogInv, NEW c \in Contents, CopyUnit(c)
    PROVE  FileAndWriter'
<1>1. TypeOK /\ "copy" \in Files /\ Unit(c) \in Blocks
      /\ Unit(c).kind # "footer" /\ Unit(c) # Rotten
  BY UnitBlock, SpecialBlocks DEF LogInv, Files
<1>a. Write("copy", Unit(c))
  BY DEF CopyUnit, Verifies
<1>2. FilesInv' /\ RotInv'
  BY <1>1, <1>a, WriteKeeps DEF LogInv, CopyUnit, bounds
<1>3. disk'["copy"] = Append(disk["copy"], Unit(c)) /\ disk'["archive"] = disk["archive"]
  BY <1>1, <1>a, WriteFacts DEF Files
<1>4. disk["copy"] \in Seq(Blocks) /\ HasHeader(disk["copy"])
      /\ Draft(disk["copy"], plan, todo) /\ plan \in Manifests /\ todo \in SUBSET Contents
  BY FileTypes DEF LogInv, WriterInv, TypeOK, CopyUnit, Files
<1>5. HasHeader(disk'["copy"]) /\ Draft(disk'["copy"], plan', todo')
  BY <1>1, <1>3, <1>4, HeaderAppend, DraftUnit DEF CopyUnit, NextOffset
<1> QED BY <1>2, <1>3, <1>5 DEF CopyUnit, LogInv, WriterInv, Tailing, FileAndWriter

LEMMA PackDoneKeeps ==
    ASSUME LogInv, PackDone
    PROVE  FileAndWriter'
<1>1. Draft(disk["archive"], plan, {}) /\ HasHeader(disk["archive"])
      /\ plan \in Manifests /\ target = "archive"
  BY DEF LogInv, WriterInv, TypeOK, PackDone
<1>2. Fits(disk["archive"], mem', Len(disk["archive"]))
  BY <1>1, DraftDone, FitsNextGeneration DEF PackDone
<1> QED BY <1>1, <1>2, FilesSame
        DEF PackDone, bounds, LogInv, WriterInv, Tailing, FileAndWriter

LEMMA CopyDoneKeeps ==
    ASSUME LogInv, CopyDone
    PROVE  FileAndWriter'
<1>1. Draft(disk["copy"], plan, {}) /\ HasHeader(disk["copy"])
      /\ plan \in Manifests /\ target = "copy"
  BY DEF LogInv, WriterInv, TypeOK, CopyDone
<1>2. Fits(disk["copy"], mem', Len(disk["copy"]))
  BY <1>1, DraftDone, FitsNextGeneration DEF CopyDone
<1> QED BY <1>1, <1>2, FilesSame
        DEF CopyDone, bounds, LogInv, WriterInv, Tailing, FileAndWriter

LEMMA CompactKeeps ==
    ASSUME LogInv, Compact
    PROVE  FileAndWriter'
<1>1. TypeOK /\ "copy" \in Files /\ Header \in Blocks
      /\ Header.kind # "footer" /\ Header # Rotten
  BY SpecialBlocks DEF LogInv, Files
<1>2. FilesInv' /\ RotInv'
  BY <1>1, WriteKeeps DEF LogInv, Compact
<1>3. disk'["copy"] = Append(<<>>, Header) /\ pc' = "copying" /\ target' = "copy"
  BY <1>1, WriteFacts DEF Compact, StartOp, LogInv, WriterInv
<1>4. plan'.tree = mem.tree /\ plan'.unit = NoUnits /\ mem.tree \in Trees
  BY NoUnitsUpdate, TreesOf DEF Compact, LogInv, TypeOK
<1>5. Draft(disk'["copy"], plan', todo')
  BY <1>4 DEF Draft, Compact, Live, NoUnits, Trees
<1> QED BY <1>2, <1>3, <1>5, HeaderAlone DEF WriterInv, Tailing, FileAndWriter
\* The copy goes and the handle with it.
LEMMA CopyRefusedKeeps ==
    ASSUME LogInv, CopyRefused
    PROVE  FileAndWriter'
<1>1. /\ disk'["archive"] = disk["archive"] /\ disk'["copy"] = <<>>
      /\ durable'["archive"] = durable["archive"] /\ durable'["copy"] = <<>>
      /\ rots' = rots /\ pc' = "closed" /\ target' = "archive"
  BY DEF CopyRefused, DropCopy, DropHandle, bounds, LogInv, TypeOK, Files
<1>2. FilesInv' /\ RotInv'
  BY <1>1, EmptyFile DEF LogInv, FilesInv, RotInv, Sound, Files
<1> QED BY <1>1, <1>2 DEF WriterInv, Tailing, FileAndWriter

LEMMA SwapKeeps ==
    ASSUME LogInv, Swap
    PROVE  FileAndWriter'
<1>1. /\ disk'["archive"] = disk["copy"] /\ disk'["copy"] = <<>>
      /\ durable'["archive"] = durable["copy"] /\ durable'["copy"] = <<>>
      /\ rots' = rots /\ pc' = "closed" /\ target' = "archive"
  BY DEF Swap, DropHandle, bounds, LogInv, TypeOK, Files
<1>2. FilesInv' /\ RotInv'
  BY <1>1, EmptyFile DEF LogInv, FilesInv, RotInv, Sound, Files
<1> QED BY <1>1, <1>2 DEF WriterInv, Tailing, FileAndWriter

LEMMA WriteManifestKeeps ==
    ASSUME LogInv, WriteManifest
    PROVE  FileAndWriter'
<1> DEFINE b == ManifestBlock(mem)
<1>1. TypeOK /\ target \in Files /\ mem \in Manifests /\ b \in Blocks
      /\ b.kind # "footer" /\ b # Rotten
  BY ManifestBlockType, SpecialBlocks DEF LogInv, TypeOK
<1>2. FilesInv' /\ RotInv'
  BY <1>1, WriteKeeps DEF LogInv, WriteManifest, bounds
<1>3. disk'[target] = Append(disk[target], b)
      /\ \A g \in Files : g # target => disk'[g] = disk[g]
  BY <1>1, WriteFacts DEF WriteManifest
<1>4. disk[target] \in Seq(Blocks) /\ HasHeader(disk[target])
      /\ Fits(disk[target], mem, Len(disk[target])) /\ Len(disk[target]) \in Nat
  BY <1>1, FileTypes DEF LogInv, WriterInv, Tailing, WriteManifest
<1> DEFINE e == disk'[target]
<1>5. /\ HasHeader(e) /\ Fits(e, mem, Len(e)) /\ Last(e) = b
      /\ Len(e) = Len(disk[target]) + 1 /\ Len(disk[target]) >= 1
  BY <1>1, <1>3, <1>4, HeaderAppend, FitsGrows, LastAppend DEF HasHeader
<1>6. Len(e) >= 2
  BY <1>4, <1>5
<1>7. target = "archive" => disk'["copy"] = <<>> /\ durable'["copy"] = <<>>
  BY <1>3 DEF LogInv, WriterInv, WriteManifest, Files
<1>8. pc' = "barrier" /\ target' = target /\ mem' = mem
  BY DEF WriteManifest
<1> QED BY <1>2, <1>5, <1>6, <1>7, <1>8 DEF WriterInv, Tailing, FileAndWriter

LEMMA SyncFacts ==
    ASSUME TypeOK, NEW f \in Files, Sync(f)
    PROVE  durable'[f] = disk[f] /\ \A g \in Files : g # f => durable'[g] = durable[g]
BY DEF Sync, TypeOK

\* A sync, and nothing written.
LEMMA SyncKeepsFiles ==
    ASSUME LogInv, NEW f \in Files, Sync(f), disk' = disk, rots' = rots
    PROVE  FilesInv' /\ RotInv'
<1>1. TypeOK
  BY DEF LogInv
<1>2. \A g \in Files : disk[g] \in Seq(Blocks) /\ durable[g] \in Seq(Blocks)
  BY <1>1, FileTypes
<1>3. FilesInv'
  BY <1>1, <1>2, SyncFacts, SyncKeeps DEF LogInv, FilesInv
<1>4. RotInv'
  BY <1>1, SyncFacts DEF LogInv, RotInv, Files
<1> QED BY <1>3, <1>4

LEMMA BarrierKeeps ==
    ASSUME LogInv, Barrier
    PROVE  FileAndWriter'
<1>1. TypeOK /\ target \in Files /\ Sync(target)
  BY DEF LogInv, TypeOK, Barrier, SyncData
<1>2. FilesInv' /\ RotInv'
  BY <1>1, SyncKeepsFiles DEF Barrier, bounds
<1>3. durable'[target] = disk[target] /\ disk' = disk
      /\ \A g \in Files : g # target => durable'[g] = durable[g]
  BY <1>1, SyncFacts DEF Barrier
<1>4. Agree(disk[target], disk[target], Len(disk[target]))
  BY <1>1, FileTypes DEF Agree, Same
<1> QED BY <1>2, <1>3, <1>4
        DEF Barrier, LogInv, WriterInv, Tailing, Files, FileAndWriter

LEMMA WriteFooterKeeps ==
    ASSUME LogInv, WriteFooter
    PROVE  FileAndWriter'
<1> DEFINE d == disk[target]
           s == durable[target]
           b == Footer(Len(d) + 1, Len(d), mem)
           e == disk'[target]
<1>1. /\ TypeOK /\ target \in Files /\ mem \in Manifests
      /\ d \in Seq(Blocks) /\ s \in Seq(Blocks) /\ Len(d) \in Nat
      /\ FileInv(d, s)
  BY FileTypes DEF LogInv, TypeOK, FilesInv
<1>2. b \in Blocks /\ b # Rotten
  <2>1. Len(d) \in Nat /\ Len(d) + 1 \in Nat
    BY <1>1
  <2> QED BY <1>1, <2>1, FooterBlock, SpecialBlocks
<1>3. /\ Len(d) >= 2 /\ HasHeader(d) /\ Fits(d, mem, Len(d)) /\ Agree(d, s, Len(d))
      /\ d[Len(d)] \in {ManifestBlock(mem), Rotten}
  BY DEF LogInv, WriterInv, Tailing, WriteFooter, Last
<1>4. e = Append(d, b) /\ (\A g \in Files : g # target => disk'[g] = disk[g])
      /\ durable' = durable /\ rots' = rots /\ target' = target /\ mem' = mem
      /\ pc' = "settle"
  BY <1>1, <1>2, WriteFacts DEF WriteFooter, bounds
<1>5. FileInv(e, s)
  BY <1>1, <1>3, <1>4, AppendFooterKeeps DEF HasHeader
<1>6. FilesInv'
  BY <1>4, <1>5 DEF LogInv, FilesInv
<1>7. RotInv'
  BY <1>1, <1>2, <1>4, SoundAppend DEF LogInv, RotInv, Files
<1>8. /\ HasHeader(e) /\ Fits(e, mem, Len(e)) /\ Last(e) = b /\ Len(e) = Len(d) + 1
      /\ Len(e) - 1 = Len(d)
  BY <1>1, <1>2, <1>3, <1>4, HeaderAppend, FitsGrows, LastAppend
<1>9. target = "archive" => disk'["copy"] = <<>> /\ durable'["copy"] = <<>>
  BY <1>4 DEF LogInv, WriterInv, Files
<1>10. WriterInv'
  <2>1. Last(e) = Footer(Len(e), Len(e) - 1, mem)
    BY <1>8
  <2> HIDE DEF b, d, s
  <2> QED BY <2>1, <1>4, <1>8, <1>9 DEF WriterInv, Tailing
<1> QED BY <1>6, <1>7, <1>10 DEF FileAndWriter

LEMMA AcknowledgeKeeps ==
    ASSUME LogInv, Acknowledge
    PROVE  FileAndWriter'
<1>1. TypeOK /\ target \in Files /\ Sync(target) /\ target = "archive"
  BY DEF LogInv, TypeOK, Acknowledge
<1>2. FilesInv' /\ RotInv'
  BY <1>1, SyncKeepsFiles DEF Acknowledge, bounds
<1>3. disk' = disk /\ durable'["copy"] = durable["copy"]
  BY <1>1, SyncFacts DEF Acknowledge, Files
<1> QED BY <1>1, <1>2, <1>3 DEF Acknowledge, LogInv, WriterInv, Tailing, FileAndWriter

LEMMA CopySettledKeeps ==
    ASSUME LogInv, CopySettled
    PROVE  FileAndWriter'
<1>1. TypeOK /\ target \in Files /\ Sync(target) /\ target = "copy"
  BY DEF LogInv, TypeOK, CopySettled
<1>2. FilesInv' /\ RotInv'
  BY <1>1, SyncKeepsFiles DEF CopySettled, bounds
<1>3. disk' = disk /\ durable'["copy"] = disk["copy"]
  BY <1>1, SyncFacts DEF CopySettled
<1> QED BY <1>1, <1>2, <1>3 DEF CopySettled, LogInv, WriterInv, Tailing, FileAndWriter

LEMMA WriterStopsKeeps ==
    ASSUME LogInv, WriterStops
    PROVE  FileAndWriter'
<1> DEFINE d == disk["archive"]
           s == durable["archive"]
<1>1. d \in Seq(Blocks) /\ s \in Seq(Blocks) /\ FileInv(d, s)
  BY FileTypes DEF LogInv, FilesInv, Files
<1>2. /\ disk'["archive"] \in {d, Append(d, Torn)} /\ disk'["copy"] = <<>>
      /\ durable'["archive"] = s /\ durable'["copy"] = <<>>
      /\ rots' = rots /\ pc' = "closed" /\ target' = "archive"
  BY DEF WriterStops, DropHandle, LogInv, TypeOK, Files
<1>3. Torn \in Blocks /\ Torn.kind # "footer" /\ Torn # Rotten
  BY SpecialBlocks
<1>4. FileInv(disk'["archive"], s) /\ (Sound(d) => Sound(disk'["archive"]))
  BY <1>1, <1>2, <1>3, AppendKeeps, SoundAppend
<1>5. FilesInv'
  BY <1>2, <1>4, EmptyFile DEF FilesInv, Files
<1>6. RotInv'
  BY <1>2, <1>4 DEF LogInv, RotInv, Sound
<1> QED BY <1>2, <1>5, <1>6 DEF WriterInv, Tailing, FileAndWriter

LEMMA PowerLossKeeps ==
    ASSUME LogInv, PowerLoss
    PROVE  FileAndWriter'
<1> DEFINE d == disk["archive"]
           s == durable["archive"]
<1>1. d \in Seq(Blocks) /\ s \in Seq(Blocks) /\ FileInv(d, s)
  BY FileTypes DEF LogInv, FilesInv, Files
<1>2. PICK f \in Survivors(d, s) :
        disk' = [x \in Files |-> IF x = "archive" THEN f ELSE <<>>] /\ durable' = disk'
  BY DEF PowerLoss
<1>3. /\ disk'["archive"] = f /\ disk'["copy"] = <<>>
      /\ durable'["archive"] = f /\ durable'["copy"] = <<>>
      /\ rots' = rots /\ pc' = "closed" /\ target' = "archive"
  BY <1>2 DEF PowerLoss, DropHandle, Files
<1>4. FileInv(f, f)
  BY <1>1, LossKeeps
<1>5. Sound(d) /\ Sound(s) => Sound(f)
  <2> SUFFICES ASSUME Sound(d), Sound(s), NEW i \in 1..Len(f) PROVE f[i] # Rotten
    BY DEF Sound
  <2>1. Torn # Rotten
    BY SpecialBlocks
  <2> QED BY <1>1, <2>1, SurvivorFacts, LenProperties DEF Sound
<1>6. FilesInv'
  BY <1>3, <1>4, EmptyFile DEF FilesInv, Files
<1>7. RotInv'
  BY <1>3, <1>5 DEF LogInv, RotInv, Sound
<1> QED BY <1>3, <1>6, <1>7 DEF WriterInv, Tailing, FileAndWriter

LEMMA RotKeepsAll ==
    ASSUME LogInv, NEW i \in 1..Len(disk["archive"]), Rot(i)
    PROVE  FileAndWriter'
<1> DEFINE d == disk["archive"]
           s == durable["archive"]
           e == [d EXCEPT ![i] = Rotten]
           t == [s EXCEPT ![i] = Rotten]
<1>1. d \in Seq(Blocks) /\ s \in Seq(Blocks) /\ FileInv(d, s)
      /\ mem \in Manifests /\ plan \in Manifests
  BY FileTypes DEF LogInv, FilesInv, Files, TypeOK
<1>2. /\ disk'["archive"] = e /\ disk'["copy"] = disk["copy"]
      /\ durable'["archive"] = t /\ durable'["copy"] = durable["copy"]
      /\ rots' # 0
      /\ UNCHANGED <<pc, target, mem, plan, todo>>
  BY DEF Rot, LogInv, TypeOK, Files
<1>3. FileInv(e, t)
  BY <1>1, RotKeeps DEF Rot
<1>4. FilesInv'
  BY <1>2, <1>3 DEF LogInv, FilesInv, Files
<1>5. RotInv'
  BY <1>2 DEF LogInv, RotInv
<1>6. /\ Fits(d, mem, Len(d)) => Fits(e, mem, Len(e))
      /\ Draft(d, plan, todo) => Draft(e, plan, todo)
      /\ HasHeader(d) => HasHeader(e)
      /\ Len(e) = Len(d)
      /\ \A x : Last(d) \in {x, Rotten} => Last(e) \in {x, Rotten}
  BY <1>1, RotFits
<1>7. Agree(d, s, Len(d)) => Agree(e, t, Len(e))
  <2>1. /\ Len(d) \in Nat /\ Len(s) \in Nat /\ Len(t) = Len(s) /\ i \in 1..Len(s)
        /\ \A j \in 1..Len(d) : e[j] = IF j = i THEN Rotten ELSE d[j]
        /\ \A j \in 1..Len(s) : t[j] = IF j = i THEN Rotten ELSE s[j]
    BY <1>1, ExceptSeq, SpecialBlocks, LenProperties DEF Rot, Same
  <2> HIDE DEF e, t
  <2> QED BY <2>1, <1>6 DEF Agree, Same
<1> HIDE DEF e, t
<1>8. WriterInv'
  <2>1. target \in Files
    BY DEF LogInv, TypeOK
  <2>2. CASE target = "copy"
    BY <2>2, <1>2, <1>6 DEF LogInv, WriterInv, Tailing
  <2>3. CASE target = "archive"
    BY <2>3, <1>2, <1>6, <1>7 DEF LogInv, WriterInv, Tailing
  <2> QED BY <2>1, <2>2, <2>3 DEF Files
<1> QED BY <1>4, <1>5, <1>8 DEF FileAndWriter

LEMMA LogInvInit == Init => LogInv
<1> SUFFICES ASSUME Init PROVE LogInv
  OBVIOUS
<1>1. TypeOK
  BY TypeInit
<1>2. FilesInv /\ RotInv
  BY EmptyFile DEF Init, FilesInv, RotInv, Sound, Files
<1>3. WriterInv
  BY DEF Init, WriterInv, Tailing, Files
<1> QED BY <1>1, <1>2, <1>3 DEF LogInv

LEMMA LogInvStep == LogInv /\ [Next]_vars => LogInv'
<1> SUFFICES ASSUME LogInv, [Next]_vars PROVE LogInv'
  OBVIOUS
<1>1. TypeOK'
  BY TypeStep DEF LogInv
<1>2. FileAndWriter'
  <2>1. CASE UNCHANGED vars
    BY <2>1 DEF vars, LogInv, FilesInv, RotInv, WriterInv, FileAndWriter
  <2>2. CASE Next
    BY <2>2, CreateKeeps, OpenRwKeeps, CloseKeeps, ReaderKeeps, AddPathsKeeps, RenameKeeps,
       RemoveKeeps, PackUnitKeeps, CopyUnitKeeps, PackDoneKeeps, CopyDoneKeeps,
       CompactKeeps, CopyRefusedKeeps, SwapKeeps, WriteManifestKeeps, BarrierKeeps,
       WriteFooterKeeps, AcknowledgeKeeps, CopySettledKeeps, WriterStopsKeeps,
       PowerLossKeeps, RotKeepsAll
       DEF Next
  <2> QED BY <2>1, <2>2
<1> QED BY <1>1, <1>2 DEF LogInv, FileAndWriter

THEOREM LogInvHolds == Spec => []LogInv
BY LogInvInit, LogInvStep, PTL DEF Spec
----------------------------------------------------------------------------
(* Crashes are not damage, and `compact` loses nothing. *)

\* A footer is skipped on the way to the newest commit only where a block has
\* rotted: no write, kill or power loss looks like damage (archive.rs 88-106).
THEOREM CrashIsNotDamageHolds == Spec => []CrashIsNotDamage
<1>1. LogInv => CrashIsNotDamage
  <2> DEFINE d == disk["archive"]
  <2> SUFFICES ASSUME LogInv, NEW i \in 1..Len(d), Found(d, i), Damaged(d, i)
               PROVE  \E j \in 1..Len(d) : d[j] = Rotten
    BY DEF CrashIsNotDamage
  <2>1. d \in Seq(Blocks) /\ Len(d) \in Nat /\ FileInv(d, durable["archive"])
    BY FileTypes DEF LogInv, FilesInv, Files
  <2>2. PICK j \in i+1..Len(d) : IsCommit(d, j)
    BY <2>1, CandidateIsCommit DEF Damaged
  <2>3. ~Sound(d)
    BY <2>1, <2>2, FoundFacts
  <2> QED BY <2>3 DEF Sound
<1> QED BY <1>1, LogInvHolds, PTL

\* The newest commit of a file in which nothing has rotted is what opening finds.
LEMMA NewestIsFound ==
    ASSUME NEW d \in Seq(Blocks), NEW s, FileInv(d, s), Sound(d),
           NEW i \in 1..Len(d), IsCommit(d, i), \A j \in i+1..Len(d) : ~IsCommit(d, j)
    PROVE  Found(d, i) /\ MayWrite(d, i)
<1>1. Len(d) \in Nat /\ IsCandidate(d, i) /\ FooterIn(d[i]) = d[i]
  BY CandidateIsCommit, LenProperties
<1>2. Backed(d, i) /\ 1 \in 1..Len(d)
  BY <1>1 DEF FileInv
<1>3. ManifestReads(d, i) /\ d[1] = Header
  BY <1>1, <1>2 DEF ManifestReads, Backed, Sound
<1>4. \A j \in i+1..Len(d) : ~IsCandidate(d, j)
  BY <1>1, CandidateIsCommit
<1>5. { j \in Candidates(d) : j > i } = {}
  BY <1>1, <1>4 DEF Candidates
<1>6. Cardinality({ j \in Candidates(d) : j > i }) < MaxCandidates
  <2>1. Cardinality({}) = 0
    BY FS_EmptySet
  <2>2. 0 < MaxCandidates
    BY LogAssumption
  <2> QED BY ONLY <1>5, <2>1, <2>2
<1> QED BY <1>1, <1>3, <1>4, <1>6 DEF Found, IsReadable, MayWrite, Damaged

\* The copy that takes the archive's place opens, is on the medium, and has
\* every live content, good (archive.rs 1400-1473).
THEOREM CopyIsWholeHolds == Spec => []CopyIsWhole
<1>1. LogInv => CopyIsWhole
  <2> DEFINE d == disk["copy"]
             n == Len(d)
  <2> SUFFICES ASSUME LogInv, pc = "swap"
               PROVE  /\ Found(d, n) /\ durable["copy"] = d
                      /\ \A c \in Live(mem.tree) :
                            mem.unit[c] \in 1..n /\ d[mem.unit[c]] = Unit(c)
    BY DEF CopyIsWhole
  <2>1. /\ d \in Seq(Blocks) /\ n \in Nat /\ FileInv(d, durable["copy"]) /\ Sound(d)
        /\ mem \in Manifests
    BY FileTypes DEF LogInv, FilesInv, Files, RotInv, TypeOK
  <2>2. /\ HasHeader(d) /\ Fits(d, mem, n) /\ d = durable["copy"]
        /\ Last(d) \in {Footer(n, n - 1, mem), Rotten}
    BY DEF LogInv, WriterInv, Tailing
  <2>3. n \in 1..n /\ n - 1 \in Nat
    BY <2>1, <2>2 DEF HasHeader
  <2>4. IsCommit(d, n)
    <3>1. d[n] = Footer(n, n - 1, mem)
      BY <2>1, <2>2, <2>3 DEF Last, Sound
    <3> QED BY <2>1, <2>3, <3>1, FooterBlock DEF IsCommit
  <2>5. Found(d, n)
    BY <2>1, <2>3, <2>4, NewestIsFound
  <2>6. ASSUME NEW c \in Live(mem.tree)
        PROVE  mem.unit[c] \in 1..n /\ d[mem.unit[c]] = Unit(c)
    <3>1. c \in Contents /\ mem.unit[c] # 0
      BY <2>2, LogAssumption DEF Live, Fits, EntriesHaveUnits
    <3> QED BY <2>1, <2>2, <3>1 DEF Fits, Sound
  <2> QED BY <2>2, <2>5, <2>6
<1> QED BY <1>1, LogInvHolds, PTL

----------------------------------------------------------------------------
(* What a step may do to the archive and to those who hold something of it. *)

ArchiveGrows ==
    /\ \/ disk'["archive"] = disk["archive"]
       \/ \E b \in Blocks :
            /\ disk'["archive"] = Append(disk["archive"], b)
            /\ b.kind = "footer" => WriteFooter /\ target = "archive"
    /\ durable'["archive"] = durable["archive"]
    /\ UNCHANGED <<acked, rots>>

ArchiveSynced ==
    /\ disk'["archive"] = disk["archive"]
    /\ durable'["archive"] = disk["archive"]
    /\ UNCHANGED rots
    /\ UNCHANGED acked \/ Acknowledge

ArchiveCut ==
    /\ \E i \in 1..Len(disk["archive"]) :
        /\ Found(disk["archive"], i) /\ MayWrite(disk["archive"], i)
        /\ disk'["archive"] = Truncated(disk["archive"], i)
    /\ durable'["archive"] = durable["archive"]
    /\ UNCHANGED <<acked, rots>>

ArchiveLost ==
    /\ disk'["archive"] \in Survivors(disk["archive"], durable["archive"])
    /\ durable'["archive"] = disk'["archive"]
    /\ pc' = "closed"
    /\ UNCHANGED <<acked, rots>>
    /\ \A r \in Readers : snap'[r] = NoHandle

ArchiveRots == \E i \in 1..Len(disk["archive"]) : Rot(i)

ReadersKeep ==
    \A r \in Readers :
        /\ snap'[r] \in {snap[r], NoHandle}
        /\ r \in replaced /\ snap'[r] # NoHandle => r \in replaced'

LEMMA ArchiveSteps ==
    ASSUME LogInv, [Next]_vars
    PROVE  /\ \/ ArchiveGrows \/ ArchiveSynced \/ ArchiveCut \/ Swap \/ ArchiveLost
              \/ ArchiveRots
           /\ ReadersKeep \/ \E r \in Readers : OpenRo(r)
<1> USE DEF ReadersKeep
<1>0. TypeOK /\ "archive" \in Files /\ "copy" \in Files /\ target \in Files
      /\ mem \in Manifests
  BY DEF LogInv, TypeOK, Files
<1>1. CASE Create
  BY <1>0, <1>1, WriteFacts, SpecialBlocks DEF Create, bounds, ArchiveGrows
<1>2. CASE OpenRw
  <2>1. \A i : disk' = [disk EXCEPT !["archive"] = Truncated(@, i)]
               => disk'["archive"] = Truncated(disk["archive"], i)
    BY <1>0 DEF TypeOK
  <2> QED BY <2>1, <1>2 DEF OpenRw, bounds, ArchiveCut
<1>3. CASE Close
  BY <1>3 DEF Close, bounds, ArchiveGrows
<1>4. ASSUME NEW r \in Readers, OpenRo(r) \/ CloseRo(r)
      PROVE  ArchiveGrows /\ (ReadersKeep \/ OpenRo(r))
  BY <1>0, <1>4 DEF OpenRo, CloseRo, bounds, ArchiveGrows, TypeOK
<1>5. ASSUME NEW S \in SUBSET Paths, NEW a \in [S -> Contents], AddPaths(a)
      PROVE  ArchiveGrows /\ ReadersKeep
  BY <1>5 DEF AddPaths, ArchiveGrows
<1>6. ASSUME NEW p \in Paths, NEW q \in Paths, Rename(p, q)
      PROVE  ArchiveGrows /\ ReadersKeep
  BY <1>6 DEF Rename, ArchiveGrows
<1>7. ASSUME NEW S \in SUBSET Paths, Remove(S) PROVE ArchiveGrows /\ ReadersKeep
  BY <1>7 DEF Remove, ArchiveGrows
<1>8. ASSUME NEW c \in Contents, PackUnit(c) PROVE ArchiveGrows /\ ReadersKeep
  BY <1>0, <1>8, UnitBlock, WriteFacts DEF PackUnit, bounds, ArchiveGrows
<1>9. ASSUME NEW c \in Contents, CopyUnit(c) PROVE ArchiveGrows /\ ReadersKeep
  BY <1>0, <1>9, UnitBlock, WriteFacts DEF CopyUnit, Verifies, bounds, ArchiveGrows
<1>10. CASE PackDone \/ CopyDone
  BY <1>10 DEF PackDone, CopyDone, bounds, ArchiveGrows
<1>11. CASE Compact
  BY <1>0, <1>11, SpecialBlocks, WriteFacts DEF Compact, ArchiveGrows
<1>12. CASE CopyRefused
  BY <1>0, <1>12 DEF CopyRefused, DropCopy, bounds, ArchiveGrows, TypeOK
<1>13. CASE WriteManifest
  BY <1>0, <1>13, ManifestBlockType, WriteFacts DEF WriteManifest, bounds, ArchiveGrows
<1>14. CASE Barrier
  BY <1>0, <1>14, SyncFacts DEF Barrier, SyncData, bounds, ArchiveGrows, ArchiveSynced, Files
<1>15. CASE WriteFooter
  <2>1. Footer(Len(disk[target]) + 1, Len(disk[target]), mem) \in Blocks
    <3>1. Len(disk[target]) \in Nat /\ Len(disk[target]) + 1 \in Nat
      BY <1>0, FileTypes
    <3> QED BY <1>0, <3>1, FooterBlock
  <2> QED BY <1>0, <2>1, <1>15, WriteFacts DEF WriteFooter, bounds, ArchiveGrows
<1>16. CASE Acknowledge
  BY <1>0, <1>16, SyncFacts DEF Acknowledge, bounds, ArchiveSynced
<1>17. CASE CopySettled
  BY <1>0, <1>17, SyncFacts DEF CopySettled, bounds, ArchiveGrows
<1>18. CASE WriterStops
  BY <1>0, <1>18, SpecialBlocks DEF WriterStops, ArchiveGrows, TypeOK
<1>19. CASE PowerLoss
  BY <1>19 DEF PowerLoss, DropHandle, ArchiveLost, Files
<1>20. CASE Swap
  BY <1>20 DEF Swap
<1>21. CASE ArchiveRots
  BY <1>21 DEF ArchiveRots, Rot
<1>22. CASE UNCHANGED vars
  BY <1>22 DEF vars, ArchiveGrows
<1> HIDE DEF ReadersKeep
<1> QED
  BY <1>1, <1>2, <1>3, <1>4, <1>5, <1>6, <1>7, <1>8, <1>9, <1>10, <1>11, <1>12, <1>13,
     <1>14, <1>15, <1>16, <1>17, <1>18, <1>19, <1>20, <1>21, <1>22
     DEF Next, ArchiveRots
\* Unless the file is replaced, no step but rot and a power loss takes a block
\* from in front of a commit, or the commit itself.
LEMMA CommitKept ==
    ASSUME LogInv, ArchiveGrows \/ ArchiveSynced \/ ArchiveCut,
           NEW k \in 1..Len(disk["archive"]), IsCommit(disk["archive"], k)
    PROVE  LET d == disk["archive"]
               e == disk'["archive"]
           IN  /\ e \in Seq(Blocks) /\ k \in 1..Len(e) /\ IsCommit(e, k)
               /\ \A j \in 1..k : e[j] = d[j]
<1> DEFINE d == disk["archive"]
           e == disk'["archive"]
<1>1. d \in Seq(Blocks) /\ Len(d) \in Nat /\ FileInv(d, durable["archive"])
  BY FileTypes DEF LogInv, FilesInv, Files
<1>2. CASE e = d
  BY <1>1, <1>2
<1>3. CASE \E b \in Blocks : e = Append(d, b)
  BY <1>1, <1>3, AppendFacts DEF IsCommit
<1>4. CASE ArchiveCut
  <2>1. PICK i \in 1..Len(d) : Found(d, i) /\ MayWrite(d, i) /\ e = Truncated(d, i)
    BY <1>4 DEF ArchiveCut
  <2>2. \A j \in i+1..Len(d) : ~IsCommit(d, j)
    BY <1>1, <2>1, FoundFacts
  <2>3. k <= i
    BY <1>1, <2>2
  <2>4. e \in Seq(Blocks) /\ Len(e) = i /\ \A j \in 1..i : e[j] = d[j]
    BY <1>1, <2>1, TruncateFacts
  <2>5. k \in 1..Len(e) /\ k \in 1..i /\ e[k] = d[k] /\ IsCommit(d, k)
    BY <1>1, <2>3, <2>4
  <2>6. IsCommit(e, k) /\ \A j \in 1..k : e[j] = d[j]
    BY <1>1, <2>3, <2>4, <2>5 DEF IsCommit
  <2> QED BY <2>4, <2>5, <2>6
<1> QED BY <1>2, <1>3, <1>4 DEF ArchiveGrows, ArchiveSynced

\* No step but rot takes a committed footer off the medium (archive.rs 574-595).
THEOREM CommitsAreKeptHolds == Spec => CommitsAreKept
<1> DEFINE Kept == \A i \in Candidates(disk["archive"]) :
                      Same(disk["archive"], durable["archive"], i)
                      /\ rots' = rots /\ pc # "swap"
                      => i \in Candidates(disk'["archive"])
<1>1. LogInv /\ LogInv' /\ [Next]_vars => Kept
  <2> DEFINE d == disk["archive"]
             e == disk'["archive"]
  <2> SUFFICES ASSUME LogInv, LogInv', [Next]_vars, NEW i \in Candidates(d),
                      Same(d, durable["archive"], i), rots' = rots, pc # "swap"
               PROVE  i \in Candidates(e)
    OBVIOUS
  <2>1. /\ d \in Seq(Blocks) /\ durable["archive"] \in Seq(Blocks) /\ e \in Seq(Blocks)
        /\ i \in 1..Len(d) /\ IsCommit(d, i)
    BY CandidateIsCommit DEF LogInv, TypeOK, Files, Candidates
  <2>2. i \in 1..Len(e) /\ IsCommit(e, i)
    <3>1. CASE ArchiveGrows \/ ArchiveSynced \/ ArchiveCut
      BY <2>1, <3>1, CommitKept
    <3>2. CASE ArchiveLost
      BY <2>1, <3>2, SurvivorFacts, LenProperties DEF ArchiveLost, IsCommit
    <3>3. ~Swap /\ ~ArchiveRots
      BY DEF Swap, ArchiveRots, Rot, LogInv, TypeOK
    <3> QED BY <3>1, <3>2, <3>3, ArchiveSteps
  <2> QED BY <2>1, <2>2, CandidateIsCommit DEF Candidates
<1>2. LogInv /\ LogInv' /\ [Next]_vars => [Kept]_vars
  BY <1>1
<1> QED BY <1>2, LogInvHolds, PTL DEF Spec, CommitsAreKept

----------------------------------------------------------------------------
(* What was acknowledged, and what readers hold. *)

LEMMA AgreePrefix ==
    ASSUME NEW d, NEW s, NEW e \in Seq(Blocks), NEW k \in Nat, Agree(d, s, k),
           k <= Len(e), \A j \in 1..k : e[j] = d[j]
    PROVE  Agree(e, s, k)
BY LenProperties DEF Agree, Same

\* The last block after a settled tail is the footer of the writer's manifest.
LEMMA SettledFooter ==
    ASSUME LogInv, pc \in {"settle", "swap"}, Sound(disk[target])
    PROVE  LET d == disk[target]
           IN  Len(d) \in 1..Len(d) /\ IsCommit(d, Len(d)) /\ d[Len(d)].manifest = mem
<1> DEFINE d == disk[target]
           n == Len(d)
<1>1. d \in Seq(Blocks) /\ n \in Nat /\ mem \in Manifests
  BY FileTypes DEF LogInv, TypeOK
<1>2. HasHeader(d) /\ Last(d) \in {Footer(n, n - 1, mem), Rotten}
  BY DEF LogInv, WriterInv, Tailing
<1>3. n \in 1..n /\ n - 1 \in Nat
  BY <1>1, <1>2 DEF HasHeader
<1>4. d[n] = Footer(n, n - 1, mem)
  BY <1>2, <1>3 DEF Last, Sound
<1>5. /\ d[n].kind = "footer" /\ d[n].at = n /\ d[n].manifest = mem
  BY <1>1, <1>3, <1>4, FooterBlock
<1>6. IsCommit(d, n)
  BY <1>3, <1>5 DEF IsCommit
<1> QED BY <1>3, <1>5, <1>6

LEMMA AckStep == LogInv /\ LogInv' /\ AckInv /\ [Next]_vars => AckInv'
<1> DEFINE d == disk["archive"]
           s == durable["archive"]
           e == disk'["archive"]
           t == durable'["archive"]
<1> SUFFICES ASSUME LogInv, LogInv', AckInv, [Next]_vars, rots' = 0, acked'.at # 0
             PROVE  /\ IsCommit(e, acked'.at) /\ e[acked'.at].manifest = acked'.manifest
                    /\ Agree(e, t, acked'.at)
  BY DEF AckInv
<1>1. /\ d \in Seq(Blocks) /\ s \in Seq(Blocks) /\ Len(d) \in Nat /\ FileInv(d, s)
      /\ e \in Seq(Blocks) /\ t \in Seq(Blocks) /\ Len(e) \in Nat
      /\ acked.at \in Nat
  BY FileTypes, LenProperties DEF LogInv, TypeOK, Files, FilesInv
<1>2. ~ArchiveRots
  BY DEF ArchiveRots, Rot, LogInv, TypeOK
<1>3. CASE (ArchiveGrows \/ ArchiveSynced \/ ArchiveCut) /\ acked' = acked
  <2> DEFINE k == acked.at
  <2>1. rots = 0 /\ k # 0 /\ acked'.at = k
    BY <1>3 DEF ArchiveGrows, ArchiveSynced, ArchiveCut
  <2>2. IsCommit(d, k) /\ d[k].manifest = acked.manifest /\ Agree(d, s, k) /\ k \in 1..Len(d)
    BY <2>1 DEF AckInv, IsCommit
  <2>3. k \in 1..Len(e) /\ IsCommit(e, k) /\ \A j \in 1..k : e[j] = d[j]
    BY <1>3, <2>2, CommitKept
  <2>4. k \in 1..k /\ e[k] = d[k]
    BY <2>3
  <2>5. Agree(e, s, k)
    <3>1. k \in Nat /\ k <= Len(e)
      BY <1>1, <2>3
    <3> HIDE DEF d, e, s, k
    <3> QED BY <1>1, <2>2, <2>3, <3>1, AgreePrefix
  <2>6. Agree(e, d, k)
    <3>1. \A j \in 1..k : j <= Len(e) /\ j <= Len(d)
      BY <1>1, <2>2, <2>3
    <3> QED BY <2>3, <3>1 DEF Agree, Same
  <2>7. t = s \/ t = d
    BY <1>3 DEF ArchiveGrows, ArchiveSynced, ArchiveCut
  <2> QED BY <1>3, <2>2, <2>3, <2>4, <2>5, <2>6, <2>7
<1>4. CASE Acknowledge
  <2>1. /\ pc = "settle" /\ target = "archive" /\ e = d /\ t = d
        /\ acked' = [at |-> Len(d), manifest |-> mem] /\ rots = 0
    BY <1>4, SyncFacts DEF Acknowledge, bounds, LogInv, Files
  <2>2. Sound(d)
    BY <2>1 DEF LogInv, RotInv
  <2>3. IsCommit(d, Len(d)) /\ d[Len(d)].manifest = mem
    BY <2>1, <2>2, SettledFooter
  <2> QED BY <1>1, <2>1, <2>3 DEF Agree, Same
<1>5. CASE Swap
  <2> DEFINE c == disk["copy"]
  <2>1. /\ pc = "swap" /\ target = "copy" /\ e = c /\ t = durable["copy"] /\ c = durable["copy"]
        /\ acked' = [at |-> Len(c), manifest |-> mem]
    BY <1>5 DEF Swap, LogInv, WriterInv, TypeOK, Files
  <2>2. Sound(c) /\ c \in Seq(Blocks)
    BY DEF LogInv, RotInv, TypeOK, Files
  <2>3. IsCommit(c, Len(c)) /\ c[Len(c)].manifest = mem
    BY <2>1, <2>2, SettledFooter
  <2> QED BY <2>1, <2>2, <2>3, LenProperties DEF Agree, Same
<1>6. CASE ArchiveLost
  <2> DEFINE k == acked.at
  <2>1. rots = 0 /\ k # 0 /\ acked' = acked /\ t = e /\ e \in Survivors(d, s)
    BY <1>6 DEF ArchiveLost
  <2>2. IsCommit(d, k) /\ d[k].manifest = acked.manifest /\ Agree(d, s, k) /\ k \in 1..Len(d)
    BY <2>1 DEF AckInv, IsCommit
  <2>3. \A j \in 1..k : j <= Len(e) /\ e[j] = d[j]
    BY <1>1, <2>1, <2>2, SurvivorFacts DEF Agree
  <2>4. k \in 1..k
    BY <2>2
  <2> QED BY <1>1, <2>1, <2>2, <2>3, <2>4 DEF Agree, Same, IsCommit
<1> QED BY <1>2, <1>3, <1>4, <1>5, <1>6, ArchiveSteps
        DEF ArchiveGrows, ArchiveSynced, ArchiveCut

\* An acknowledged commit is found again after every kill and power loss, or a
\* later one is, with everything its entries need (archive.rs 606-612).
THEOREM AckedSurvivesHolds == Spec => []AckedSurvives
<1>1. Init => AckInv
  BY DEF Init, AckInv
<1>2. LogInv /\ AckInv => AckedSurvives
  <2> DEFINE d == disk["archive"]
             k == acked.at
  <2> SUFFICES ASSUME LogInv, AckInv, k # 0, rots = 0
               PROVE  \E i \in k..Len(d) :
                        /\ Found(d, i) /\ MayWrite(d, i)
                        /\ LET m == FooterIn(d[i]).manifest
                           IN  /\ i = k => m = acked.manifest
                               /\ EntriesHaveUnits(m) /\ UnitsIn(d, m)
    BY DEF AckedSurvives
  <2>1. /\ d \in Seq(Blocks) /\ Len(d) \in Nat /\ FileInv(d, durable["archive"])
        /\ Sound(d) /\ k \in 1..Len(d) /\ IsCommit(d, k) /\ d[k].manifest = acked.manifest
    BY FileTypes DEF LogInv, FilesInv, RotInv, AckInv, IsCommit, Files
  <2> DEFINE C == { j \in 1..Len(d) : IsCommit(d, j) }
  <2>2. PICK i \in C : \A j \in C : j <= i
    BY <2>1, LastOf
  <2>3. i \in k..Len(d) /\ i \in 1..Len(d) /\ IsCommit(d, i)
        /\ \A j \in i+1..Len(d) : ~IsCommit(d, j)
    BY <2>1, <2>2
  <2>4. Found(d, i) /\ MayWrite(d, i)
    BY <2>1, <2>3, NewestIsFound
  <2>5. FooterIn(d[i]) = d[i] /\ d[i].manifest \in Manifests /\ Backed(d, i)
    BY <2>1, <2>3, <2>4, FoundFacts
  <2>6. EntriesHaveUnits(d[i].manifest) /\ UnitsIn(d, d[i].manifest)
    <3>1. Fits(d, d[i].manifest, i - 1) /\ \A n \in 2..i-1 : n \in 1..Len(d)
      BY <2>1, <2>3, <2>5 DEF Backed
    <3> QED BY <3>1 DEF Fits, UnitsIn
  <2> QED BY <2>1, <2>3, <2>4, <2>5, <2>6
<1> QED BY <1>1, <1>2, AckStep, LogInvHolds, PTL DEF Spec

LEMMA SnapStep == LogInv /\ LogInv' /\ SnapInv /\ [Next]_vars => SnapInv'
<1> DEFINE d == disk["archive"]
           e == disk'["archive"]
<1> SUFFICES ASSUME LogInv, LogInv', SnapInv, [Next]_vars, rots' = 0,
                    NEW r \in Readers, snap'[r] # NoHandle, r \notin replaced'
             PROVE  \E i \in 1..Len(e) : IsCommit(e, i) /\ e[i].manifest = snap'[r]
  BY DEF SnapInv
<1>1. d \in Seq(Blocks) /\ FileInv(d, durable["archive"]) /\ TypeOK
  BY DEF LogInv, TypeOK, Files, FilesInv
<1>2. ~ArchiveRots /\ ~ArchiveLost /\ ~Swap
  BY DEF ArchiveRots, Rot, ArchiveLost, Swap, LogInv, TypeOK
<1>3. ArchiveGrows \/ ArchiveSynced \/ ArchiveCut
  BY <1>2, ArchiveSteps
<1>4. rots = 0
  BY <1>3 DEF ArchiveGrows, ArchiveSynced, ArchiveCut
<1>5. \E i \in 1..Len(d) : IsCommit(d, i) /\ d[i].manifest = snap'[r]
  <2>1. CASE snap'[r] = snap[r] /\ r \notin replaced
    BY <1>4, <2>1 DEF SnapInv
  <2>2. CASE OpenRo(r)
    <3>1. PICK i \in 1..Len(d) :
            Found(d, i) /\ snap' = [snap EXCEPT ![r] = FooterIn(d[i]).manifest]
      BY <2>2 DEF OpenRo
    <3>2. snap'[r] = FooterIn(d[i]).manifest
      BY <1>1, <3>1 DEF TypeOK
    <3> QED BY <1>1, <3>1, <3>2, FoundFacts
  <2>3. ASSUME NEW q \in Readers, q # r, OpenRo(q)
        PROVE  snap'[r] = snap[r] /\ r \notin replaced
    BY <1>1, <2>3 DEF OpenRo, TypeOK
  <2> QED BY <2>1, <2>2, <2>3, ArchiveSteps DEF ReadersKeep
<1>6. PICK i \in 1..Len(d) : IsCommit(d, i) /\ d[i].manifest = snap'[r]
  BY <1>5
<1>7. i \in 1..Len(e) /\ IsCommit(e, i) /\ \A j \in 1..i : e[j] = d[j]
  BY <1>3, <1>6, CommitKept
<1>8. i \in 1..i
  BY <1>6
<1> QED BY <1>6, <1>7, <1>8

\* The units a reader's manifest names lie in the file at the archive's path, where it names
\* them, whatever the writer beside it does short of replacing the file: extraction, lanes
\* and test, which open that path anew (archive.rs 927, 942, 1243), find them there until a
\* `compact` since their manifest was read (archive.rs 507-604, 1467-1484).
THEOREM ReadersUndisturbedHolds == Spec => []ReadersUndisturbed
<1>1. Init => SnapInv
  BY DEF Init, SnapInv
<1>2. LogInv /\ SnapInv => ReadersUndisturbed
  <2> DEFINE d == disk["archive"]
  <2> SUFFICES ASSUME LogInv, SnapInv, NEW r \in Readers, snap[r] # NoHandle,
                      r \notin replaced, rots = 0
               PROVE  EntriesHaveUnits(snap[r]) /\ UnitsIn(d, snap[r])
    BY DEF ReadersUndisturbed
  <2>1. PICK i \in 1..Len(d) : IsCommit(d, i) /\ d[i].manifest = snap[r]
    BY DEF SnapInv
  <2>2. Backed(d, i) /\ Len(d) \in Nat
    BY <2>1, FileTypes DEF LogInv, FilesInv, FileInv, Files
  <2>3. Fits(d, snap[r], i - 1) /\ \A n \in 2..i-1 : n \in 1..Len(d)
    BY <2>1, <2>2 DEF Backed
  <2> QED BY <2>3 DEF Fits, UnitsIn
<1> QED BY <1>1, <1>2, SnapStep, LogInvHolds, PTL DEF Spec
----------------------------------------------------------------------------
(* The order of generations. *)

LEMMA GenOf ==
    ASSUME NEW m \in Manifests
    PROVE  /\ m.gen \in Nat
           /\ NextGeneration(m).gen = m.gen + 1
           /\ \A t : [m EXCEPT !.tree = t].gen = m.gen
           /\ \A u : [m EXCEPT !.unit = u].gen = m.gen
           /\ \A c, n : [m EXCEPT !.unit[c] = n].gen = m.gen
BY DEF Manifests, NextGeneration

\* A file with no commits but those of another is ordered as that one is.
LEMMA FewerCommits ==
    ASSUME NEW d, NEW e,
           \A i \in 1..Len(e) : IsCommit(e, i) => IsCommit(d, i) /\ e[i] = d[i]
    PROVE  /\ Ordered(d) => Ordered(e)
           /\ \A g : UpTo(d, g) => UpTo(e, g)
           /\ \A g : Below(d, g) => Below(e, g)
BY DEF Ordered, UpTo, Below, IsCommit

LEMMA CommitGen ==
    ASSUME NEW d \in Seq(Blocks), NEW i \in 1..Len(d), IsCommit(d, i)
    PROVE  d[i].manifest.gen \in Nat
BY FooterFields, ElementOfSeq DEF IsCommit, Manifests

LEMMA UpToNext ==
    ASSUME NEW d \in Seq(Blocks), NEW m \in Manifests, UpTo(d, m.gen)
    PROVE  Below(d, NextGeneration(m).gen)
BY CommitGen, GenOf DEF UpTo, Below

LEMMA WriteGen ==
    ASSUME NEW d \in Seq(Blocks), NEW b \in Blocks, b.kind # "footer"
    PROVE  \A i \in 1..Len(Append(d, b)) :
              IsCommit(Append(d, b), i) => IsCommit(d, i) /\ Append(d, b)[i] = d[i]
BY AppendFacts, LenProperties DEF IsCommit

LEMMA FooterGen ==
    ASSUME NEW d \in Seq(Blocks), NEW m \in Manifests, Ordered(d), Below(d, m.gen)
    PROVE  LET e == Append(d, Footer(Len(d) + 1, Len(d), m))
           IN  Ordered(e) /\ UpTo(e, m.gen)
<1> DEFINE n == Len(d)
           b == Footer(n + 1, n, m)
           e == Append(d, b)
<1>1. n \in Nat /\ b \in Blocks /\ b.manifest = m
  BY FooterBlock, LenProperties
<1>2. Len(e) = n + 1 /\ e[n + 1] = b /\ \A j \in 1..n : e[j] = d[j]
  BY <1>1, AppendFacts
<1> HIDE DEF e, b
<1>3. ASSUME NEW i \in 1..Len(e), IsCommit(e, i), i # n + 1
      PROVE  i \in 1..Len(d) /\ IsCommit(d, i) /\ e[i] = d[i]
  BY <1>1, <1>2, <1>3 DEF IsCommit
<1>4. ASSUME NEW i \in 1..Len(e), IsCommit(e, i), i # n + 1
      PROVE  e[i].manifest.gen < m.gen
  BY <1>3, <1>4 DEF Below
<1>5. Ordered(e)
  <2> SUFFICES ASSUME NEW i \in 1..Len(e), NEW j \in 1..Len(e),
                      IsCommit(e, i), IsCommit(e, j), i < j
               PROVE  e[i].manifest.gen < e[j].manifest.gen
    BY DEF Ordered
  <2>1. i # n + 1
    BY <1>1, <1>2
  <2>2. CASE j = n + 1
    BY <2>1, <2>2, <1>1, <1>2, <1>4
  <2>3. CASE j # n + 1
    BY <2>1, <2>3, <1>3 DEF Ordered
  <2> QED BY <2>2, <2>3
<1>6. UpTo(e, m.gen)
  <2> SUFFICES ASSUME NEW i \in 1..Len(e), IsCommit(e, i)
               PROVE  e[i].manifest.gen <= m.gen
    BY DEF UpTo
  <2>1. CASE i = n + 1
    BY <2>1, <1>1, <1>2, GenOf
  <2>2. CASE i # n + 1
    BY <2>2, <1>3, <1>4, GenOf, CommitGen
  <2> QED BY <2>1, <2>2
<1> QED BY <1>5, <1>6 DEF e, b

LEMMA NoCommits ==
    ASSUME NEW d, \A i \in 1..Len(d) : ~IsCommit(d, i)
    PROVE  Ordered(d) /\ \A g : UpTo(d, g) /\ Below(d, g)
BY DEF Ordered, UpTo, Below

\* Writing a block that is no footer to the file the writer works on.
LEMMA GenWrite ==
    ASSUME LogInv, GenInv, NEW f \in Files, NEW b \in Blocks, b.kind # "footer", Write(f, b)
    PROVE  /\ \A g \in Files : Ordered(disk'[g])
           /\ \A g : UpTo(disk[f], g) => UpTo(disk'[f], g)
           /\ \A g : Below(disk[f], g) => Below(disk'[f], g)
<1>1. TypeOK /\ disk[f] \in Seq(Blocks) /\ \A g \in Files : Ordered(disk[g])
  BY DEF LogInv, TypeOK, GenInv
<1>2. disk'[f] = Append(disk[f], b) /\ \A g \in Files : g # f => disk'[g] = disk[g]
  BY <1>1, WriteFacts
<1>3. \A i \in 1..Len(disk'[f]) : IsCommit(disk'[f], i)
          => IsCommit(disk[f], i) /\ disk'[f][i] = disk[f][i]
  BY <1>1, <1>2, WriteGen
<1>4. /\ Ordered(disk[f]) => Ordered(disk'[f])
      /\ \A g : UpTo(disk[f], g) => UpTo(disk'[f], g)
      /\ \A g : Below(disk[f], g) => Below(disk'[f], g)
  BY <1>3, FewerCommits
<1> QED BY <1>1, <1>2, <1>4

\* A step that ends the writing process, or one that leaves it where it is, and
\* that puts no commit into a file.
LEMMA GenFewer ==
    ASSUME LogInv, GenInv, LogInv',
           \A f \in Files : \A i \in 1..Len(disk'[f]) :
              IsCommit(disk'[f], i) => IsCommit(disk[f], i) /\ disk'[f][i] = disk[f][i],
           pc' = "closed" \/ UNCHANGED <<pc, target, mem, plan>>
    PROVE  GenInv'
<1>1. \A f \in Files : /\ Ordered(disk'[f])
                       /\ \A g : UpTo(disk[f], g) => UpTo(disk'[f], g)
                       /\ \A g : Below(disk[f], g) => Below(disk'[f], g)
  BY FewerCommits DEF GenInv
<1>2. target \in Files
  BY DEF LogInv, TypeOK
<1> QED BY <1>1, <1>2 DEF GenInv

LEMMA GenStep == LogInv /\ LogInv' /\ GenInv /\ [Next]_vars => GenInv'
<1> DEFINE d == disk["archive"]
           s == durable["archive"]
<1> SUFFICES ASSUME LogInv, LogInv', GenInv, [Next]_vars PROVE GenInv'
  OBVIOUS
<1>0. /\ TypeOK /\ "archive" \in Files /\ "copy" \in Files /\ target \in Files
      /\ mem \in Manifests /\ plan \in Manifests
      /\ d \in Seq(Blocks) /\ s \in Seq(Blocks) /\ Len(d) \in Nat /\ FileInv(d, s)
      /\ disk[target] \in Seq(Blocks)
      /\ \A f \in Files : Ordered(disk[f])
  BY FileTypes DEF LogInv, TypeOK, Files, FilesInv, GenInv
<1>1. CASE Create
  <2>1. disk'["archive"] = Append(<<>>, Header) /\ target' = "archive" /\ pc' = "manifest"
        /\ disk'["copy"] = disk["copy"]
    BY <1>0, <1>1, WriteFacts, SpecialBlocks DEF Create, LogInv, WriterInv, Files
  <2>2. Ordered(disk'["archive"]) /\ \A g : Below(disk'["archive"], g)
    BY <2>1, HeaderAlone, NoCommits
  <2> QED BY <1>0, <2>1, <2>2 DEF GenInv, Files
<1>2. CASE OpenRw
  <2>1. PICK i \in 1..Len(d) :
          /\ Found(d, i) /\ MayWrite(d, i) /\ mem' = FooterIn(d[i]).manifest
          /\ disk' = [disk EXCEPT !["archive"] = Truncated(@, i)]
    BY <1>2 DEF OpenRw
  <2> DEFINE e == Truncated(d, i)
  <2>2. /\ disk'["archive"] = e /\ disk'["copy"] = disk["copy"]
        /\ pc' = "idle" /\ target' = "archive"
    BY <1>0, <1>2, <2>1 DEF OpenRw, LogInv, WriterInv, TypeOK, Files
  <2>3. IsCommit(d, i) /\ mem' = d[i].manifest
    BY <1>0, <2>1, FoundFacts
  <2>4. e \in Seq(Blocks) /\ Len(e) = i /\ \A j \in 1..i : e[j] = d[j]
    BY <1>0, TruncateFacts
  <2> HIDE DEF e
  <2>5. \A j \in 1..Len(e) : IsCommit(e, j) => IsCommit(d, j) /\ e[j] = d[j]
    BY <1>0, <2>4 DEF IsCommit
  <2>6. Ordered(e)
    BY <1>0, <2>5, FewerCommits
  <2>7. UpTo(e, mem'.gen)
    <3> SUFFICES ASSUME NEW j \in 1..Len(e), IsCommit(e, j)
                 PROVE  e[j].manifest.gen <= d[i].manifest.gen
      BY <2>3 DEF UpTo
    <3>1. IsCommit(d, j) /\ e[j] = d[j] /\ j \in 1..Len(d) /\ (j = i \/ j < i)
      BY <1>0, <2>4, <2>5
    <3>2. d[j].manifest.gen \in Nat /\ d[i].manifest.gen \in Nat
      BY <1>0, <2>3, <3>1, CommitGen
    <3>3. j < i => d[j].manifest.gen < d[i].manifest.gen
      BY <1>0, <2>3, <3>1 DEF Ordered
    <3> QED BY <3>1, <3>2, <3>3
  <2> QED BY <1>0, <2>2, <2>6, <2>7 DEF GenInv, Files
<1>3. CASE Close \/ CopyRefused \/ WriterStops
  <2>1. pc' = "closed"
    BY <1>3 DEF Close, CopyRefused, WriterStops, DropHandle
  <2>2. disk'["archive"] \in {d, Append(d, Torn)} /\ disk'["copy"] \in {disk["copy"], <<>>}
    BY <1>0, <1>3 DEF Close, CopyRefused, DropCopy, WriterStops, TypeOK, Files
  <2>3. Torn \in Blocks /\ Torn.kind # "footer"
    BY SpecialBlocks
  <2>4. \A f \in Files : \A i \in 1..Len(disk'[f]) :
            IsCommit(disk'[f], i) => IsCommit(disk[f], i) /\ disk'[f][i] = disk[f][i]
    <3>1. ASSUME NEW i \in 1..Len(disk'["archive"]), IsCommit(disk'["archive"], i)
          PROVE  IsCommit(d, i) /\ disk'["archive"][i] = d[i]
      <4>1. CASE disk'["archive"] = d
        BY <3>1, <4>1
      <4>2. CASE disk'["archive"] = Append(d, Torn)
        <5>1. \A j \in 1..Len(Append(d, Torn)) : IsCommit(Append(d, Torn), j)
                  => IsCommit(d, j) /\ Append(d, Torn)[j] = d[j]
          BY <1>0, <2>3, WriteGen
        <5> HIDE DEF d
        <5> QED BY <3>1, <4>2, <5>1
      <4> QED BY <2>2, <4>1, <4>2
    <3>2. \A i \in 1..Len(disk'["copy"]) : disk'["copy"] = disk["copy"]
      BY <2>2
    <3> QED BY <3>1, <3>2 DEF Files
  <2> QED BY <2>1, <2>4, GenFewer
<1>4. CASE \E r \in Readers : OpenRo(r) \/ CloseRo(r)
  BY <1>4 DEF OpenRo, CloseRo, GenInv
<1>5. ASSUME NEW S \in SUBSET Paths, NEW a \in [S -> Contents], AddPaths(a) PROVE GenInv'
  BY <1>0, <1>5, GenOf DEF AddPaths, StartOp, GenInv
<1>6. ASSUME NEW t, pc = "idle", pc' = "manifest", disk' = disk, target' = target, t \in Trees,
             mem' = NextGeneration([mem EXCEPT !.tree = t])
      PROVE  GenInv'
  <2>1. UpTo(disk[target], [mem EXCEPT !.tree = t].gen) /\ [mem EXCEPT !.tree = t] \in Manifests
    BY <1>0, <1>6, GenOf, TreeUpdate DEF GenInv
  <2>2. Below(disk[target], mem'.gen)
    BY <1>0, <1>6, <2>1, UpToNext
  <2> QED BY <1>6, <2>2 DEF GenInv
<1>7. ASSUME NEW p \in Paths, NEW q \in Paths, Rename(p, q) PROVE GenInv'
  <2>1. [mem.tree EXCEPT ![p] = Absent, ![q] = mem.tree[p]] \in Trees
    BY <1>0, TreesOf DEF Trees
  <2> QED BY <1>6, <1>7, <2>1 DEF Rename, StartOp
<1>8. ASSUME NEW S \in SUBSET Paths, Remove(S) PROVE GenInv'
  <2>1. [p \in Paths |-> IF p \in S THEN Absent ELSE mem.tree[p]] \in Trees
    BY <1>0, TreesOf DEF Trees
  <2> QED BY <1>6, <1>8, <2>1 DEF Remove, StartOp
<1>9. ASSUME NEW c \in Contents, PackUnit(c) \/ CopyUnit(c) PROVE GenInv'
  <2>1. Unit(c) \in Blocks /\ Unit(c).kind # "footer" /\ Write(target, Unit(c))
        /\ pc \in {"packing", "copying"}
    BY <1>9, UnitBlock DEF PackUnit, CopyUnit, Verifies, LogInv, WriterInv
  <2>2. plan'.gen = plan.gen /\ pc' = pc /\ target' = target
    <3>1. \E n : plan' = [plan EXCEPT !.unit[c] = n]
      BY <1>9 DEF PackUnit, CopyUnit
    <3> QED BY <1>0, <1>9, <3>1, GenOf DEF PackUnit, CopyUnit
  <2>3. UpTo(disk[target], plan.gen)
    BY <2>1 DEF GenInv
  <2>4. UpTo(disk'[target], plan.gen) /\ \A g \in Files : Ordered(disk'[g])
    BY <1>0, <2>1, <2>3, GenWrite
  <2> QED BY <2>1, <2>2, <2>4 DEF GenInv
<1>10. CASE PackDone \/ CopyDone
  <2>1. UpTo(disk[target], plan.gen) /\ mem' = NextGeneration(plan) /\ pc' = "manifest"
        /\ UNCHANGED <<disk, target>>
    BY <1>10 DEF PackDone, CopyDone, GenInv
  <2>2. Below(disk[target], mem'.gen)
    BY <1>0, <2>1, UpToNext
  <2> QED BY <2>1, <2>2 DEF GenInv
<1>11. CASE Compact
  <2>1. disk'["copy"] = Append(<<>>, Header) /\ disk'["archive"] = d
        /\ pc' = "copying" /\ target' = "copy"
    BY <1>0, <1>11, WriteFacts, SpecialBlocks DEF Compact, StartOp, LogInv, WriterInv, Files
  <2>2. Ordered(disk'["copy"]) /\ \A g : UpTo(disk'["copy"], g)
    BY <2>1, HeaderAlone, NoCommits
  <2> QED BY <1>0, <2>1, <2>2 DEF GenInv, Files
<1>12. CASE Swap
  <2>1. disk'["archive"] = disk["copy"] /\ disk'["copy"] = <<>> /\ pc' = "closed"
    BY <1>0, <1>12 DEF Swap, DropHandle, TypeOK, Files
  <2>2. Ordered(<<>>)
    BY DEF Ordered
  <2> QED BY <1>0, <2>1, <2>2 DEF GenInv, Files
<1>13. CASE WriteManifest
  <2>1. ManifestBlock(mem) \in Blocks /\ ManifestBlock(mem).kind # "footer"
    BY <1>0, ManifestBlockType
  <2>2. Below(disk[target], mem.gen)
    BY <1>13 DEF WriteManifest, GenInv
  <2>3. Below(disk'[target], mem.gen) /\ \A g \in Files : Ordered(disk'[g])
    BY <1>0, <1>13, <2>1, <2>2, GenWrite DEF WriteManifest
  <2> QED BY <1>13, <2>3 DEF WriteManifest, GenInv
<1>14. CASE Barrier \/ Acknowledge \/ CopySettled
  BY <1>14 DEF Barrier, Acknowledge, CopySettled, GenInv
<1>15. CASE WriteFooter
  <2> DEFINE b == Footer(Len(disk[target]) + 1, Len(disk[target]), mem)
  <2>1. b \in Blocks
    <3>1. Len(disk[target]) \in Nat /\ Len(disk[target]) + 1 \in Nat
      BY <1>0, FileTypes
    <3> QED BY <1>0, <3>1, FooterBlock
  <2>2. disk'[target] = Append(disk[target], b)
        /\ \A g \in Files : g # target => disk'[g] = disk[g]
    BY <1>0, <1>15, <2>1, WriteFacts DEF WriteFooter
  <2>3. Ordered(disk[target]) /\ Below(disk[target], mem.gen)
    BY <1>0, <1>15 DEF WriteFooter, GenInv
  <2>4. Ordered(disk'[target]) /\ UpTo(disk'[target], mem.gen)
    BY <1>0, <2>2, <2>3, FooterGen
  <2> QED BY <1>0, <1>15, <2>2, <2>4 DEF WriteFooter, GenInv
<1>16. CASE PowerLoss
  <2>1. /\ disk'["archive"] \in Survivors(d, s) /\ disk'["copy"] = <<>>
        /\ pc' = "closed"
    BY <1>16 DEF PowerLoss, DropHandle, Files
  <2>2. \A f \in Files : \A i \in 1..Len(disk'[f]) :
            IsCommit(disk'[f], i) => IsCommit(disk[f], i) /\ disk'[f][i] = disk[f][i]
    BY <1>0, <2>1, LossCommits DEF Files
  <2> QED BY <2>1, <2>2, GenFewer
<1>17. ASSUME NEW i \in 1..Len(d), Rot(i) PROVE GenInv'
  <2>1. disk'["archive"] = [d EXCEPT ![i] = Rotten] /\ disk'["copy"] = disk["copy"]
        /\ UNCHANGED <<pc, target, mem, plan>>
    BY <1>0, <1>17 DEF Rot, TypeOK, Files
  <2>2. \A j \in 1..Len(disk'["archive"]) : IsCommit(disk'["archive"], j)
            => IsCommit(d, j) /\ disk'["archive"][j] = d[j]
    BY <1>0, <2>1, ExceptSeq, SpecialBlocks DEF IsCommit
  <2> QED BY <2>1, <2>2, GenFewer DEF Files
<1>18. CASE UNCHANGED vars
  BY <1>18 DEF vars, GenInv
<1> QED
  BY <1>1, <1>2, <1>3, <1>4, <1>5, <1>7, <1>8, <1>9, <1>10, <1>11, <1>12, <1>13,
     <1>14, <1>15, <1>16, <1>17, <1>18
     DEF Next

\* Generations go up from commit to commit, whatever failed in between
\* (archive.rs 606-612, and `Damage`, which tells them to the user).
THEOREM GenerationsIncreaseHolds == Spec => []GenerationsIncrease
<1>1. Init => GenInv
  BY NoCommits DEF Init, GenInv, Files
<1>2. LogInv /\ GenInv => GenerationsIncrease
  <2> DEFINE d == disk["archive"]
  <2> SUFFICES ASSUME LogInv, GenInv, NEW i \in Candidates(d), NEW j \in Candidates(d), i < j
               PROVE  FooterIn(d[i]).manifest.gen < FooterIn(d[j]).manifest.gen
    BY DEF GenerationsIncrease
  <2>1. d \in Seq(Blocks) /\ Ordered(d)
    BY DEF LogInv, TypeOK, GenInv, Files
  <2>2. /\ i \in 1..Len(d) /\ IsCommit(d, i) /\ FooterIn(d[i]) = d[i]
        /\ j \in 1..Len(d) /\ IsCommit(d, j) /\ FooterIn(d[j]) = d[j]
    BY <2>1, CandidateIsCommit DEF Candidates
  <2> QED BY <2>1, <2>2 DEF Ordered
<1> QED BY <1>1, <1>2, GenStep, LogInvHolds, PTL DEF Spec

----------------------------------------------------------------------------
(* The file implements ArchiveStore, as long as nothing rots. *)

\* A file free of rot in which every commit stands on what it needs.
Whole(d) ==
    /\ d \in Seq(Blocks) /\ Sound(d)
    /\ \A i \in 1..Len(d) : IsCommit(d, i) => Backed(d, i)

Newest(d, i) == IsCommit(d, i) /\ \A j \in i+1..Len(d) : ~IsCommit(d, j)

SameCommits(d, e) ==
    \A i \in Nat : /\ IsCommit(d, i) <=> IsCommit(e, i)
                   /\ IsCommit(d, i) => e[i] = d[i]

\* What opening the archive finds, now and after a power loss.
Shown == TreeOf(disk["archive"])
Stored == TreeOf(durable["archive"])

\* The tree the writer is about to commit is the one that opens now, changed by
\* one operation, or that one itself where only the file is rewritten.
TreeInv ==
    rots = 0 =>
        /\ pc \in {"idle", "settle", "swap"} => Shown = mem.tree
        /\ pc \in {"manifest", "barrier", "footer"} =>
              IF target = "copy" THEN Shown = mem.tree
              ELSE \/ Shown = NoArchive /\ mem.tree = NoTree
                   \/ Shown # NoArchive /\ mem.tree \in Store!Edits(Shown)
        /\ pc = "packing" => Shown # NoArchive /\ plan.tree \in Store!Added(Shown)
        /\ pc = "copying" => Shown = plan.tree

LEMMA WholeFile ==
    ASSUME NEW d, Whole(d)
    PROVE  d \in Seq(Blocks) /\ Len(d) \in Nat /\ Sound(d) /\ FileInv(d, d)
BY LenProperties DEF Whole, FileInv, Agree, Same, IsCommit

\* What opens in a sound file is its newest commit, and nothing if it has none.
LEMMA TreeOfNewest ==
    ASSUME NEW d, Whole(d), NEW k, Newest(d, k)
    PROVE  TreeOf(d) = d[k].manifest.tree /\ TreeOf(d) \in Trees
<1>1. d \in Seq(Blocks) /\ Len(d) \in Nat /\ Sound(d) /\ FileInv(d, d) /\ k \in 1..Len(d)
      /\ IsCommit(d, k) /\ \A j \in k+1..Len(d) : ~IsCommit(d, j)
  BY WholeFile DEF Newest, IsCommit
<1>2. Found(d, k)
  BY <1>1, NewestIsFound
<1>3. FooterIn(d[k]) = d[k] /\ d[k].manifest \in Manifests
  BY <1>1, <1>2, FoundFacts
<1>4. ASSUME NEW i \in 1..Len(d), Found(d, i) PROVE i = k
  <2>1. IsCommit(d, i) /\ \A j \in i+1..Len(d) : ~IsCommit(d, j)
    BY <1>1, <1>4, FoundFacts
  <2> QED BY <1>1, <2>1
<1>5. { i \in 1..Len(d) : Found(d, i) } = {k}
  BY <1>1, <1>2, <1>4
<1>6. (CHOOSE i \in {k} : TRUE) = k
  OBVIOUS
<1>7. TreeOf(d) = d[k].manifest.tree
  BY <1>3, <1>5, <1>6 DEF TreeOf
<1> QED BY <1>3, <1>7, TreesOf

LEMMA TreeOfNone ==
    ASSUME NEW d, Whole(d), \A i \in 1..Len(d) : ~IsCommit(d, i)
    PROVE  TreeOf(d) = NoArchive
<1>1. \A i \in 1..Len(d) : ~Found(d, i)
  BY WholeFile, FoundFacts
<1>2. { i \in 1..Len(d) : Found(d, i) } = {}
  BY <1>1
<1> QED BY <1>2 DEF TreeOf

LEMMA HasNewest ==
    ASSUME NEW d, Whole(d), NEW i, IsCommit(d, i)
    PROVE  \E k \in 1..Len(d) : Newest(d, k)
<1> DEFINE S == { j \in 1..Len(d) : IsCommit(d, j) }
<1>1. Len(d) \in Nat /\ S \in SUBSET (1..Len(d)) /\ S # {}
  BY WholeFile DEF IsCommit
<1>2. PICK k \in S : \A j \in S : j <= k
  BY <1>1, LastOf
<1>3. \A j \in k+1..Len(d) : ~IsCommit(d, j)
  BY <1>1, <1>2
<1> QED BY <1>2, <1>3 DEF Newest

\* Opening sees no more of a file than its commits.
LEMMA SameCommitsSameTree ==
    ASSUME NEW d, NEW e, Whole(d), Whole(e), SameCommits(d, e)
    PROVE  TreeOf(e) = TreeOf(d)
<1>1. Len(d) \in Nat /\ Len(e) \in Nat
  BY WholeFile
<1>2. CASE \E i \in 1..Len(d) : IsCommit(d, i)
  <2>1. PICK k \in 1..Len(d) : Newest(d, k)
    BY <1>2, HasNewest
  <2>2. IsCommit(e, k) /\ e[k] = d[k]
    BY <2>1 DEF Newest, SameCommits
  <2>3. ASSUME NEW j \in k+1..Len(e), IsCommit(e, j) PROVE FALSE
    <3>1. j \in Nat /\ IsCommit(d, j) /\ j > k
      BY <1>1, <2>3 DEF SameCommits
    <3>2. j \in k+1..Len(d)
      BY <1>1, <3>1 DEF IsCommit
    <3> QED BY <2>1, <3>1, <3>2 DEF Newest
  <2>4. Newest(e, k)
    BY <2>2, <2>3 DEF Newest
  <2> QED BY <2>1, <2>2, <2>4, TreeOfNewest
<1>3. CASE \A i \in 1..Len(d) : ~IsCommit(d, i)
  <2>1. \A i \in 1..Len(e) : ~IsCommit(e, i)
    BY <1>1, <1>3 DEF SameCommits, IsCommit
  <2> QED BY <1>3, <2>1, TreeOfNone
<1> QED BY <1>2, <1>3

LEMMA TreeOfType ==
    ASSUME NEW d, Whole(d)
    PROVE  TreeOf(d) \in Trees \cup {NoArchive}
<1>1. CASE \E i \in 1..Len(d) : IsCommit(d, i)
  BY <1>1, HasNewest, TreeOfNewest
<1>2. CASE \A i \in 1..Len(d) : ~IsCommit(d, i)
  BY <1>2, TreeOfNone
<1> QED BY <1>1, <1>2

LEMMA WriteSameCommits ==
    ASSUME NEW d \in Seq(Blocks), NEW b \in Blocks, b.kind # "footer"
    PROVE  SameCommits(d, Append(d, b))
<1> DEFINE e == Append(d, b)
<1>1. Len(d) \in Nat /\ Len(e) = Len(d) + 1 /\ \A j \in 1..Len(d) : e[j] = d[j]
  BY AppendFacts, LenProperties
<1>2. \A i \in 1..Len(e) : IsCommit(e, i) => IsCommit(d, i) /\ e[i] = d[i]
  BY WriteGen
<1> HIDE DEF e
<1>3. ASSUME NEW i \in Nat, IsCommit(d, i) PROVE IsCommit(e, i) /\ e[i] = d[i]
  BY <1>1, <1>3 DEF IsCommit
<1>4. ASSUME NEW i \in Nat, IsCommit(e, i) PROVE IsCommit(d, i)
  BY <1>2, <1>4 DEF IsCommit
<1>5. SameCommits(d, e)
  BY <1>3, <1>4 DEF SameCommits
<1> QED BY <1>5 DEF e

LEMMA CutSameCommits ==
    ASSUME NEW d, Whole(d), NEW k, Newest(d, k)
    PROVE  SameCommits(d, Truncated(d, k))
<1> DEFINE e == Truncated(d, k)
<1>1. d \in Seq(Blocks) /\ Len(d) \in Nat /\ k \in 1..Len(d)
  BY WholeFile DEF Newest, IsCommit
<1>2. e \in Seq(Blocks) /\ Len(e) = k /\ \A j \in 1..k : e[j] = d[j]
  BY <1>1, TruncateFacts
<1> HIDE DEF e
<1>3. ASSUME NEW i \in Nat, IsCommit(e, i) PROVE IsCommit(d, i) /\ e[i] = d[i]
  BY <1>1, <1>2, <1>3 DEF IsCommit
<1>4. ASSUME NEW i \in Nat, IsCommit(d, i) PROVE IsCommit(e, i) /\ e[i] = d[i]
  <2>1. i \in 1..Len(d) /\ ~(i \in k+1..Len(d))
    BY <1>4 DEF Newest, IsCommit
  <2>2. i \in 1..k
    BY <1>1, <2>1
  <2> QED BY <1>2, <1>4, <2>2 DEF IsCommit
<1>5. SameCommits(d, e)
  BY <1>3, <1>4 DEF SameCommits
<1> QED BY <1>5 DEF e

\* A file and what the medium has of it, while nothing has rotted: what opens
\* on either is well defined, and the medium has no commit the file has not.
LEMMA FilesAreWhole ==
    ASSUME NEW d \in Seq(Blocks), NEW s \in Seq(Blocks), FileInv(d, s), Sound(d), Sound(s)
    PROVE  /\ Whole(d) /\ Whole(s)
           /\ \A i : IsCommit(s, i) => Agree(d, s, i) /\ IsCommit(d, i) /\ s[i] = d[i]
<1>1. Len(d) \in Nat /\ Len(s) \in Nat
  BY LenProperties
<1>2. \A i \in 1..Len(d) : IsCommit(d, i) => Backed(d, i)
  BY DEF FileInv
<1>3. ASSUME NEW i, IsCommit(s, i)
      PROVE  Agree(d, s, i) /\ IsCommit(d, i) /\ s[i] = d[i] /\ Backed(s, i)
  <2>1. Agree(d, s, i) /\ i \in 1..Len(s)
    BY <1>3 DEF FileInv, IsCommit
  <2>2. i \in 1..Len(d) /\ \A j \in 1..i : s[j] = d[j]
    BY <1>1, <2>1 DEF Agree, Same
  <2>3. s[i] = d[i]
    BY <2>2
  <2>4. IsCommit(d, i) /\ Backed(d, i)
    BY <1>2, <1>3, <2>2, <2>3 DEF IsCommit
  <2>5. i <= Len(s)
    BY <2>1
  <2>6. Backed(s, i)
    BY <2>2, <2>4, <2>5, BackedPrefix
  <2> QED BY <2>1, <2>3, <2>4, <2>6
<1> QED BY <1>2, <1>3 DEF Whole

LEMMA ArchiveIsWhole ==
    ASSUME LogInv, rots = 0
    PROVE  /\ disk["archive"] \in Seq(Blocks) /\ durable["archive"] \in Seq(Blocks)
           /\ FileInv(disk["archive"], durable["archive"])
           /\ Whole(disk["archive"]) /\ Whole(durable["archive"])
<1> DEFINE d == disk["archive"]
           s == durable["archive"]
<1>1. d \in Seq(Blocks) /\ s \in Seq(Blocks) /\ FileInv(d, s) /\ Sound(d) /\ Sound(s)
  BY DEF LogInv, TypeOK, Files, FilesInv, RotInv
<1> HIDE DEF d, s
<1>2. Whole(d) /\ Whole(s)
  BY <1>1, FilesAreWhole
<1> QED BY <1>1, <1>2 DEF d, s

LEMMA ArchiveStaysWhole ==
    ASSUME LogInv', rots' = 0
    PROVE  Whole(disk'["archive"]) /\ Whole(durable'["archive"])
<1> DEFINE d == disk'["archive"]
           s == durable'["archive"]
<1>1. d \in Seq(Blocks) /\ s \in Seq(Blocks) /\ FileInv(d, s) /\ Sound(d) /\ Sound(s)
  BY DEF LogInv, TypeOK, Files, FilesInv, RotInv
<1> HIDE DEF d, s
<1>2. Whole(d) /\ Whole(s)
  BY <1>1, FilesAreWhole
<1> QED BY <1>2 DEF d, s

\* The medium has every commit of a file that a sync has left as it is read.
LEMMA SyncedTree ==
    ASSUME NEW d \in Seq(Blocks), NEW s \in Seq(Blocks), FileInv(d, s), Sound(d), Sound(s),
           Agree(d, s, Len(d))
    PROVE  TreeOf(s) = TreeOf(d)
<1>1. Whole(d) /\ Whole(s)
      /\ \A i : IsCommit(s, i) => IsCommit(d, i) /\ s[i] = d[i]
  BY FilesAreWhole
<1>2. ASSUME NEW i, IsCommit(d, i) PROVE IsCommit(s, i) /\ s[i] = d[i]
  <2>1. i \in 1..Len(d) /\ Same(d, s, i)
    BY <1>2 DEF IsCommit, Agree
  <2> QED BY <1>2, <2>1, LenProperties DEF IsCommit, Same
<1>3. SameCommits(d, s)
  BY <1>1, <1>2 DEF SameCommits
<1> QED BY <1>1, <1>3, SameCommitsSameTree

\* After a power loss the archive opens as it did before it, or as the medium
\* had it.
LEMMA LossTree ==
    ASSUME NEW d \in Seq(Blocks), NEW s \in Seq(Blocks), FileInv(d, s), Sound(d), Sound(s),
           NEW f \in Survivors(d, s), Whole(f)
    PROVE  TreeOf(f) \in {TreeOf(d), TreeOf(s)}
<1>1. Whole(d) /\ Whole(s) /\ Len(d) \in Nat /\ Len(f) \in Nat
      /\ \A i : IsCommit(s, i) => Agree(d, s, i) /\ IsCommit(d, i) /\ s[i] = d[i]
  BY FilesAreWhole, WholeFile
<1>2. ASSUME NEW i, IsCommit(f, i) PROVE i \in 1..Len(d) /\ IsCommit(d, i) /\ f[i] = d[i]
  <2>1. i \in 1..Len(f)
    BY <1>2 DEF IsCommit
  <2> QED BY <1>2, <2>1, LossCommits
<1>3. ASSUME NEW i, IsCommit(s, i) PROVE IsCommit(f, i) /\ f[i] = s[i]
  <2>1. i \in Nat \ {0} /\ Same(d, s, i) /\ s[i] = d[i]
    BY <1>1, <1>3 DEF IsCommit, Agree
  <2>2. i <= Len(f) /\ f[i] = d[i]
    BY <2>1, SurvivorFacts
  <2> QED BY <1>1, <1>3, <2>1, <2>2 DEF IsCommit
<1>4. CASE \E k \in 1..Len(d) : Newest(d, k) /\ IsCommit(f, k)
  <2>1. PICK k \in 1..Len(d) : Newest(d, k) /\ IsCommit(f, k)
    BY <1>4
  <2>2. ASSUME NEW j \in k+1..Len(f), IsCommit(f, j) PROVE FALSE
    <3>1. j \in k+1..Len(d) /\ IsCommit(d, j)
      BY <1>1, <1>2, <2>2
    <3> QED BY <2>1, <3>1 DEF Newest
  <2>3. Newest(f, k) /\ f[k] = d[k]
    BY <1>2, <2>1, <2>2 DEF Newest
  <2> QED BY <1>1, <2>1, <2>3, TreeOfNewest
<1>5. CASE \A k \in 1..Len(d) : Newest(d, k) => ~IsCommit(f, k)
  <2>1. ASSUME NEW i, IsCommit(f, i) PROVE IsCommit(s, i)
    <3>1. i \in 1..Len(d) /\ IsCommit(d, i)
      BY <1>2, <2>1
    <3>2. PICK j \in i+1..Len(d) : IsCommit(d, j)
      BY <1>5, <2>1, <3>1 DEF Newest
    <3>3. Agree(d, s, j - 1) /\ i \in 1..j-1
      BY <1>1, <3>1, <3>2 DEF FileInv
    <3>4. Same(d, s, i)
      BY <3>3 DEF Agree
    <3> QED BY <3>1, <3>4, LenProperties DEF Same, IsCommit
  <2>2. SameCommits(s, f)
    BY <1>3, <2>1 DEF SameCommits
  <2> QED BY <1>1, <2>2, SameCommitsSameTree
<1> QED BY <1>4, <1>5

\* What each step may do to what opens.
LEMMA ShownSteps ==
    ASSUME LogInv, LogInv', [Next]_vars, rots = 0, rots' = 0
    PROVE  \/ Shown' = Shown /\ Stored' \in {Stored, Shown}
           \/ WriteFooter /\ target = "archive"
           \/ Swap
           \/ ArchiveLost
<1> DEFINE d == disk["archive"]
           s == durable["archive"]
           e == disk'["archive"]
           u == durable'["archive"]
<1>1. d \in Seq(Blocks) /\ s \in Seq(Blocks) /\ FileInv(d, s) /\ Whole(d) /\ Whole(s)
      /\ Whole(e) /\ Whole(u)
  BY ArchiveIsWhole, ArchiveStaysWhole
<1>2. Shown = TreeOf(d) /\ Stored = TreeOf(s) /\ Shown' = TreeOf(e) /\ Stored' = TreeOf(u)
  BY DEF Shown, Stored
<1>3. CASE ArchiveGrows
  <2>1. u = s
    BY <1>3 DEF ArchiveGrows
  <2>2. CASE e = d
    BY <1>2, <2>1, <2>2
  <2>3. CASE e # d
    <3>1. PICK b \in Blocks :
            e = Append(d, b) /\ (b.kind = "footer" => WriteFooter /\ target = "archive")
      BY <1>3, <2>3 DEF ArchiveGrows
    <3>2. CASE b.kind = "footer"
      BY <3>1, <3>2
    <3>3. CASE b.kind # "footer"
      <4>1. SameCommits(d, e)
        <5> HIDE DEF d, e
        <5> QED BY <1>1, <3>1, <3>3, WriteSameCommits
      <4> HIDE DEF d, s, e, u
      <4> QED BY <1>1, <1>2, <2>1, <4>1, SameCommitsSameTree
    <3> QED BY <3>2, <3>3
  <2> QED BY <2>2, <2>3
<1>4. CASE ArchiveSynced
  <2>1. e = d /\ u = d
    BY <1>4 DEF ArchiveSynced
  <2> QED BY <1>2, <2>1
<1>5. CASE ArchiveCut
  <2>1. PICK i \in 1..Len(d) : Found(d, i) /\ MayWrite(d, i) /\ e = Truncated(d, i)
    BY <1>5 DEF ArchiveCut
  <2>2. u = s
    BY <1>5 DEF ArchiveCut
  <2> HIDE DEF d, s, e, u
  <2>3. Newest(d, i)
    BY <1>1, <2>1, FoundFacts DEF Newest
  <2>4. SameCommits(d, e)
    BY <1>1, <2>1, <2>3, CutSameCommits
  <2> QED BY <1>1, <1>2, <2>2, <2>4, SameCommitsSameTree
<1>6. ~ArchiveRots
  BY DEF ArchiveRots, Rot, LogInv, TypeOK
<1> QED BY <1>3, <1>4, <1>5, <1>6, ArchiveSteps

\* A tail that ends in its footer shows the tree it was written for.
LEMMA FooterShows ==
    ASSUME LogInv, LogInv', WriteFooter, target = "archive", rots' = 0
    PROVE  Shown' = mem.tree
<1> DEFINE d == disk["archive"]
           n == Len(d)
           b == Footer(n + 1, n, mem)
           e == disk'["archive"]
<1>1. TypeOK /\ "archive" \in Files /\ d \in Seq(Blocks) /\ n \in Nat /\ mem \in Manifests
  BY FileTypes DEF LogInv, TypeOK, Files
<1>2. b \in Blocks /\ b.kind = "footer" /\ b.at = n + 1 /\ b.manifest = mem
  <2>1. n + 1 \in Nat
    BY <1>1
  <2> QED BY <1>1, <2>1, FooterBlock
<1>3. e = Append(d, b)
  <2>1. Write("archive", b)
    BY DEF WriteFooter
  <2> HIDE DEF b
  <2> QED BY <1>1, <1>2, <2>1, WriteFacts
<1>4. Len(e) = n + 1 /\ e[n + 1] = b
  BY <1>1, <1>2, <1>3, AppendFacts
<1>5. Whole(e)
  BY ArchiveStaysWhole
<1> HIDE DEF e, b, d
<1>6. Newest(e, n + 1)
  <2>1. n + 1 \in 1..Len(e) /\ \A j : j \notin (n + 1) + 1..Len(e)
    BY <1>1, <1>4
  <2> QED BY <1>2, <1>4, <2>1 DEF Newest, IsCommit
<1>7. TreeOf(e) = mem.tree
  BY <1>2, <1>4, <1>5, <1>6, TreeOfNewest
<1> QED BY <1>7 DEF Shown, e

\* The copy that takes the archive's place shows what the archive showed.
LEMMA SwapShows ==
    ASSUME LogInv, LogInv', Swap, rots' = 0
    PROVE  Shown' = mem.tree /\ Stored' = mem.tree
<1> DEFINE c == disk["copy"]
<1>1. pc = "swap" /\ target = "copy" /\ disk'["archive"] = c /\ durable'["archive"] = c
  BY DEF Swap, LogInv, WriterInv, TypeOK, Files
<1>2. c \in Seq(Blocks) /\ Len(c) \in Nat /\ Sound(c)
  BY LenProperties DEF LogInv, RotInv, TypeOK, Files
<1>3. Len(c) \in 1..Len(c) /\ IsCommit(c, Len(c)) /\ c[Len(c)].manifest = mem
  BY <1>1, <1>2, SettledFooter
<1>4. Whole(c)
  BY <1>1, ArchiveStaysWhole
<1> HIDE DEF c
<1>5. Newest(c, Len(c))
  BY <1>2, <1>3 DEF Newest
<1>6. TreeOf(c) = mem.tree
  BY <1>3, <1>4, <1>5, TreeOfNewest
<1> QED BY <1>1, <1>6 DEF Shown, Stored

LEMMA TreeIsShown == \A t \in Trees : t # NoArchive
BY MarkerAssumption DEF Trees

\* The result of an operation is one of the edits the store allows.
LEMMA EditsAllowed ==
    ASSUME NEW t \in Trees
    PROVE  /\ \A S \in SUBSET Paths \ {{}} : \A a \in [S -> Contents] :
                Put(t, a) \in Store!Added(t)
           /\ Store!Added(t) \subseteq Store!Edits(t)
           /\ \A S \in SUBSET Paths \ {{}} : (\A p \in S : t[p] # Absent) =>
                [p \in Paths |-> IF p \in S THEN Absent ELSE t[p]] \in Store!Edits(t)
           /\ \A p, q \in Paths : t[p] # Absent /\ t[q] = Absent =>
                [t EXCEPT ![p] = Absent, ![q] = t[p]] \in Store!Edits(t)
<1>1. ASSUME NEW S \in SUBSET Paths \ {{}}, NEW a \in [S -> Contents]
      PROVE  Put(t, a) \in Store!Added(t)
  <2>1. Put(t, a) = [p \in Paths |-> IF p \in S THEN a[p] ELSE t[p]]
    BY DEF Put
  <2> QED BY <2>1 DEF Store!Added
<1>2. ASSUME NEW S \in SUBSET Paths \ {{}}, \A p \in S : t[p] # Absent
      PROVE  [p \in Paths |-> IF p \in S THEN Absent ELSE t[p]] \in Store!Removed(t)
  BY <1>2 DEF Store!Removed
<1>3. ASSUME NEW p \in Paths, NEW q \in Paths, t[p] # Absent, t[q] = Absent
      PROVE  [t EXCEPT ![p] = Absent, ![q] = t[p]] \in Store!Renamed(t)
  <2> DEFINE Free == { r \in Paths \X Paths : t[r[1]] # Absent /\ t[r[2]] = Absent }
  <2>1. <<p, q>> \in Free /\ <<p, q>>[1] = p /\ <<p, q>>[2] = q
    BY <1>3
  <2>2. Store!Moved(t, <<p, q>>[1], <<p, q>>[2]) \in Store!Renamed(t)
    BY <2>1 DEF Store!Renamed
  <2> QED BY <2>1, <2>2 DEF Store!Moved
<1> QED BY <1>1, <1>2, <1>3 DEF Store!Edits

LEMMA TreeStep ==
    LogInv /\ LogInv' /\ TreeInv /\ [Next]_vars /\ rots = 0 /\ rots' = 0 => TreeInv'
<1> SUFFICES ASSUME LogInv, LogInv', TreeInv, [Next]_vars, rots = 0, rots' = 0
             PROVE  TreeInv'
  OBVIOUS
<1>0. /\ mem \in Manifests /\ plan \in Manifests /\ mem.tree \in Trees
      /\ target \in Files /\ Whole(disk["archive"])
  BY TreesOf, ArchiveIsWhole DEF LogInv, TypeOK
<1>1. CASE pc' = "closed"
  BY <1>1 DEF TreeInv
<1>2. CASE WriteFooter /\ target = "archive"
  <2>1. Shown' = mem.tree /\ mem' = mem /\ pc' = "settle"
    BY <1>2, FooterShows DEF WriteFooter
  <2> QED BY <2>1 DEF TreeInv
<1>3. ASSUME ~(WriteFooter /\ target = "archive"), pc' # "closed" PROVE Shown' = Shown
  BY <1>3, ShownSteps DEF Swap, ArchiveLost, DropHandle
<1> SUFFICES ASSUME ~(WriteFooter /\ target = "archive"), pc' # "closed", Shown' = Shown
             PROVE  TreeInv'
  BY <1>1, <1>2, <1>3
<1>4. CASE Create
  <2>1. \A i \in 1..Len(disk["archive"]) : ~IsCommit(disk["archive"], i)
    BY <1>4 DEF Create
  <2>2. Shown = NoArchive
    BY <1>0, <2>1, TreeOfNone DEF Shown
  <2>3. mem'.tree = NoTree
    <3>1. EmptyManifest \in Manifests /\ EmptyManifest.tree = NoTree
      BY ManifestTypes DEF EmptyManifest
    <3> QED BY <1>4, <3>1, ManifestTypes DEF Create
  <2>4. pc' = "manifest" /\ target' = "archive"
    BY <1>4 DEF Create, LogInv, WriterInv
  <2> QED BY <2>2, <2>3, <2>4 DEF TreeInv
<1>5. CASE OpenRw
  <2> DEFINE d == disk["archive"]
  <2>1. PICK i \in 1..Len(d) : Found(d, i) /\ MayWrite(d, i) /\ mem' = FooterIn(d[i]).manifest
    BY <1>5 DEF OpenRw
  <2>2. d \in Seq(Blocks) /\ FileInv(d, durable["archive"])
    BY ArchiveIsWhole
  <2>3. Newest(d, i) /\ mem' = d[i].manifest
    <3> HIDE DEF d
    <3> QED BY <2>1, <2>2, FoundFacts DEF Newest
  <2>4. Shown = mem'.tree
    BY <1>0, <2>3, TreeOfNewest DEF Shown
  <2>5. pc' = "idle"
    BY <1>5 DEF OpenRw
  <2> QED BY <2>4, <2>5 DEF TreeInv
<1>6. CASE Close \/ CopyRefused \/ Swap \/ WriterStops \/ PowerLoss
  BY <1>6 DEF Close, CopyRefused, Swap, WriterStops, PowerLoss, DropHandle
<1>7. CASE \E r \in Readers : OpenRo(r) \/ CloseRo(r)
  <2>1. UNCHANGED <<pc, mem, plan, target, rots>>
    BY <1>7 DEF OpenRo, CloseRo, bounds
  <2> QED BY <2>1 DEF TreeInv
<1>8. ASSUME NEW S \in SUBSET Paths \ {{}}, NEW a \in [S -> Contents], AddPaths(a)
      PROVE  TreeInv'
  <2>1. pc = "idle" /\ pc' = "packing" /\ plan' = [mem EXCEPT !.tree = Put(mem.tree, a)]
    BY <1>8 DEF AddPaths, StartOp
  <2>2. Put(mem.tree, a) \in Trees
    BY <1>0, PutType
  <2>3. plan'.tree = Put(mem.tree, a)
    BY <1>0, <2>1, <2>2, TreeUpdate
  <2>4. plan'.tree \in Store!Added(mem.tree)
    BY <1>0, <2>3, EditsAllowed
  <2>5. Shown = mem.tree
    BY <2>1 DEF TreeInv
  <2>6. Shown # NoArchive
    BY <1>0, <2>5, TreeIsShown
  <2> QED BY <2>1, <2>4, <2>5, <2>6 DEF TreeInv
<1>9. ASSUME NEW t \in Trees, t \in Store!Edits(mem.tree), pc = "idle", pc' = "manifest",
             target' = target, mem' = NextGeneration([mem EXCEPT !.tree = t])
      PROVE  TreeInv'
  <2>1. mem'.tree = t
    BY <1>0, <1>9, TreeUpdate, ManifestTypes
  <2>2. Shown = mem.tree /\ Shown # NoArchive
    BY <1>0, <1>9, TreeIsShown DEF TreeInv
  <2>3. target' = "archive"
    BY <1>9 DEF LogInv, WriterInv
  <2> QED BY <1>9, <2>1, <2>2, <2>3 DEF TreeInv
<1>10. ASSUME NEW p \in Paths, NEW q \in Paths, Rename(p, q) PROVE TreeInv'
  <2> DEFINE t == [mem.tree EXCEPT ![p] = Absent, ![q] = mem.tree[p]]
  <2>1. t \in Trees
    BY <1>0 DEF Trees
  <2>2. t \in Store!Edits(mem.tree)
    BY <1>0, <1>10, EditsAllowed DEF Rename
  <2>3. mem' = NextGeneration([mem EXCEPT !.tree = t])
    BY <1>10 DEF Rename
  <2> HIDE DEF t
  <2> QED BY <1>9, <1>10, <2>1, <2>2, <2>3 DEF Rename, StartOp
<1>11. ASSUME NEW S \in SUBSET Paths \ {{}}, Remove(S) PROVE TreeInv'
  <2> DEFINE t == [p \in Paths |-> IF p \in S THEN Absent ELSE mem.tree[p]]
  <2>1. t \in Trees
    BY <1>0 DEF Trees
  <2>2. t \in Store!Edits(mem.tree)
    BY <1>0, <1>11, EditsAllowed DEF Remove
  <2>3. mem' = NextGeneration([mem EXCEPT !.tree = t])
    BY <1>11 DEF Remove
  <2> HIDE DEF t
  <2> QED BY <1>9, <1>11, <2>1, <2>2, <2>3 DEF Remove, StartOp
<1>12. ASSUME NEW c \in Contents, PackUnit(c) \/ CopyUnit(c) PROVE TreeInv'
  <2>1. \E n \in Nat : plan' = [plan EXCEPT !.unit[c] = n]
    <3>1. NextOffset(disk["archive"]) \in Nat /\ NextOffset(disk["copy"]) \in Nat
      BY FileTypes DEF LogInv, Files, NextOffset
    <3> QED BY <1>12, <3>1 DEF PackUnit, CopyUnit
  <2>2. plan'.tree = plan.tree
    BY <1>0, <2>1, UnitUpdate
  <2>3. UNCHANGED <<pc, target, mem, rots>> /\ pc \in {"packing", "copying"}
    BY <1>12 DEF PackUnit, CopyUnit, bounds
  <2> QED BY <2>2, <2>3 DEF TreeInv
<1>13. CASE PackDone
  <2>1. mem'.tree = plan.tree /\ pc' = "manifest" /\ target' = "archive" /\ pc = "packing"
    BY <1>0, <1>13, ManifestTypes DEF PackDone, LogInv, WriterInv
  <2>2. Shown # NoArchive /\ plan.tree \in Store!Added(Shown)
    BY <2>1 DEF TreeInv
  <2>3. plan.tree \in Store!Edits(Shown)
    BY <2>2 DEF Store!Edits
  <2> QED BY <2>1, <2>2, <2>3 DEF TreeInv
<1>14. CASE Compact
  <2>1. pc = "idle" /\ pc' = "copying" /\ plan'.tree = mem.tree
    BY <1>0, <1>14, NoUnitsUpdate DEF Compact, StartOp
  <2> QED BY <2>1 DEF TreeInv
<1>15. CASE CopyDone
  <2>1. mem'.tree = plan.tree /\ pc' = "manifest" /\ target' = "copy" /\ pc = "copying"
    BY <1>0, <1>15, ManifestTypes DEF CopyDone, LogInv, WriterInv
  <2> QED BY <2>1 DEF TreeInv
<1>16. CASE WriteManifest \/ Barrier
  <2>1. /\ pc \in {"manifest", "barrier"} /\ pc' \in {"barrier", "footer"}
        /\ UNCHANGED <<mem, target>>
    BY <1>16 DEF WriteManifest, Barrier
  <2> QED BY <2>1 DEF TreeInv
<1>17. CASE WriteFooter \/ CopySettled \/ Acknowledge
  <2>1. /\ pc' \in {"settle", "swap", "idle"} /\ mem' = mem
        /\ pc = "settle" \/ (pc = "footer" /\ target = "copy")
    BY <1>0, <1>17 DEF WriteFooter, CopySettled, Acknowledge, Files
  <2> QED BY <2>1 DEF TreeInv
<1>18. ASSUME NEW i \in 1..Len(disk["archive"]), Rot(i) PROVE FALSE
  BY <1>18 DEF Rot, LogInv, TypeOK
<1>19. CASE UNCHANGED vars
  BY <1>19 DEF vars, TreeInv
<1> QED
  BY <1>4, <1>5, <1>6, <1>7, <1>8, <1>10, <1>11, <1>12, <1>13, <1>14, <1>15, <1>16,
     <1>17, <1>18, <1>19
     DEF Next

\* Each step of the file is a step of the store, or none.
LEMMA StoreStep ==
    LogInv /\ LogInv' /\ TreeInv /\ [Next]_vars /\ rots = 0 /\ rots' = 0
    => [Store!StoreNext]_(Store!storeVars)
<1> SUFFICES ASSUME LogInv, LogInv', TreeInv, [Next]_vars, rots = 0, rots' = 0
             PROVE  Store!StoreNext \/ UNCHANGED Store!storeVars
  OBVIOUS
<1> DEFINE d == disk["archive"]
           s == durable["archive"]
<1>1. d \in Seq(Blocks) /\ s \in Seq(Blocks) /\ FileInv(d, s) /\ Sound(d) /\ Sound(s)
      /\ Whole(disk'["archive"])
  BY ArchiveIsWhole, ArchiveStaysWhole DEF Whole
<1>2. CASE Shown' = Shown /\ Stored' = Stored
  BY <1>2 DEF Store!storeVars, Shown, Stored
<1>3. CASE Shown' = Shown /\ Stored' = Shown
  <2>1. Store!Settle
    BY <1>3 DEF Store!Settle, Shown, Stored
  <2> QED BY <2>1 DEF Store!StoreNext
<1>4. CASE WriteFooter /\ target = "archive"
  <2>1. Shown' = mem.tree
    BY <1>4, FooterShows
  <2>2. Stored' = Stored /\ pc = "footer"
    BY <1>4 DEF WriteFooter, Stored
  <2>3. Agree(d, s, Len(d))
    BY <1>4, <2>2 DEF LogInv, WriterInv
  <2>4. Stored = Shown
    <3>1. TreeOf(s) = TreeOf(d)
      <4> HIDE DEF d, s
      <4> QED BY <1>1, <2>3, SyncedTree
    <3> QED BY <3>1 DEF Stored, Shown
  <2>5. \/ Shown = NoArchive /\ mem.tree = NoTree
        \/ Shown # NoArchive /\ mem.tree \in Store!Edits(Shown)
    BY <1>4, <2>2 DEF TreeInv
  <2>6. CASE Shown = NoArchive /\ mem.tree = NoTree
    <3>1. Store!Found
      BY <2>1, <2>2, <2>6 DEF Store!Found, Store!EmptyTree, NoTree, Shown, Stored
    <3> QED BY <3>1 DEF Store!StoreNext
  <2>7. CASE Shown # NoArchive /\ mem.tree \in Store!Edits(Shown)
    <3>1. Store!Publish
      BY <2>1, <2>2, <2>4, <2>7 DEF Store!Publish, Shown, Stored
    <3> QED BY <3>1 DEF Store!StoreNext
  <2> QED BY <2>5, <2>6, <2>7
<1>5. CASE Swap
  <2>1. pc = "swap"
    BY <1>5 DEF Swap
  <2>2. Shown = mem.tree /\ Shown' = mem.tree /\ Stored' = mem.tree
    BY <1>5, <2>1, SwapShows DEF TreeInv
  <2> QED BY <1>3, <2>2
<1>6. CASE ArchiveLost
  <2> DEFINE f == disk'["archive"]
  <2>1. f \in Survivors(d, s) /\ durable'["archive"] = f
    BY <1>6 DEF ArchiveLost
  <2>2. TreeOf(f) \in {TreeOf(d), TreeOf(s)}
    <3> HIDE DEF d, s
    <3> QED BY <1>1, <2>1, LossTree
  <2>3. Shown' \in {Shown, Stored} /\ Stored' = Shown'
    BY <2>1, <2>2 DEF Shown, Stored
  <2>4. Store!PowerFails
    BY <2>3 DEF Store!PowerFails, Shown, Stored
  <2> QED BY <2>4 DEF Store!StoreNext
<1> QED BY <1>2, <1>3, <1>4, <1>5, <1>6, ShownSteps

\* The file keeps the promise of ArchiveStore in every behaviour in which nothing
\* rots: opening shows one tree, an operation replaces it in one step, and a power
\* loss takes back at most the operation that was not acknowledged
\* (archive.rs 606-640).
THEOREM StoreIsRefined == Spec /\ [](rots = 0) => StoreRefined
<1>1. Init => Store!StoreInit /\ TreeInv
  <2> SUFFICES ASSUME Init PROVE Store!StoreInit /\ TreeInv
    OBVIOUS
  <2>1. Whole(<<>>)
    BY EmptySeq DEF Whole, Sound
  <2>2. TreeOf(<<>>) = NoArchive
    BY <2>1, TreeOfNone
  <2>3. disk["archive"] = <<>> /\ durable["archive"] = <<>> /\ pc = "closed"
    BY DEF Init, Files
  <2> QED BY <2>2, <2>3 DEF Store!StoreInit, TreeInv
<1> DEFINE NoRot == rots = 0
<1>2. LogInv /\ LogInv' /\ TreeInv /\ [Next]_vars /\ NoRot /\ NoRot'
      => TreeInv' /\ [Store!StoreNext]_(Store!storeVars)
  BY TreeStep, StoreStep
<1> HIDE DEF NoRot
<1>3. Spec /\ []NoRot => StoreRefined
  BY <1>1, <1>2, LogInvHolds, PTL DEF Spec, StoreRefined, Store!StoreSpec
<1> QED BY <1>3 DEF NoRot
=============================================================================
