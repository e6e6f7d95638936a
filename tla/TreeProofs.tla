----------------------------- MODULE TreeProofs -----------------------------
(***************************************************************************)
(* Tree, with Packer, for any files, geometry, adds and edits: no path has *)
(* two entries, names that differ only in case are kept apart, every file  *)
(* comes back as it was read, a damaged unit costs the files that have     *)
(* bytes in it, and the units of an add hold one class, the filter most of *)
(* their bytes voted for, and whole containers. Most of it says what the   *)
(* packer's operations, one inside the other, leave alone and add to.      *)
(***************************************************************************)
EXTENDS Tree, SequenceTheorems, FiniteSetTheorems, WellFoundedInduction, TLAPS

----------------------------------------------------------------------------
(* Numbers and sequences.                                                    *)

LEMMA LeastOf ==
    ASSUME NEW T \in SUBSET Nat, T # {}
    PROVE  \E k \in T : \A y \in T : k <= y
<1>1. PICK k \in T : \A y \in T : ~ (<<y, k>> \in OpToRel(<, Nat))
  BY NatLessThanWellFounded, WFMin
<1>2. \A y \in T : ~(y < k)
  BY <1>1 DEF OpToRel
<1> QED BY <1>2

\* Induction over a set of numbers.
LEMMA Counting ==
    ASSUME NEW T, 0 \in T, \A k \in Nat : k \in T => k + 1 \in T
    PROVE  \A k \in Nat : k \in T
<1> DEFINE L == { k \in Nat : k \notin T }
<1>1. ASSUME L # {} PROVE FALSE
  <2>1. PICK k \in L : \A y \in L : k <= y
    BY <1>1, LeastOf
  <2>2. k \in Nat /\ k # 0 /\ k - 1 \in Nat
    BY <2>1
  <2>3. k - 1 \in T
    BY <2>1, <2>2
  <2>4. (k - 1) + 1 \in T
    BY <2>2, <2>3
  <2>5. (k - 1) + 1 = k
    BY <2>2
  <2> QED BY <2>1, <2>4, <2>5
<1> QED BY <1>1

LEMMA LastOfPrefix ==
    ASSUME NEW k \in Nat, NEW s, s \subseteq 1..k, k \in s
    PROVE  Max(s) = k
<1>1. Max(s) \in s /\ \A y \in s : Max(s) >= y
  <2>1. \E x \in s : \A y \in s : x >= y
    <3>1. \A y \in s : k >= y
      OBVIOUS
    <3> QED BY <3>1
  <2> QED BY <2>1 DEF Max
<1>2. Max(s) \in 1..k /\ Max(s) >= k
  BY <1>1
<1> QED BY <1>2

\* A sequence of whatever it has in it.
IsSeq(s) == s \in Seq({ s[i] : i \in DOMAIN s })

LEMMA IsSeqOf ==
    ASSUME NEW S, NEW s \in Seq(S)
    PROVE  IsSeq(s)
<1>1. s \in [1..Len(s) -> { s[i] : i \in DOMAIN s }] /\ Len(s) \in Nat
  OBVIOUS
<1> QED BY <1>1 DEF IsSeq

LEMMA SeqFacts ==
    ASSUME NEW s, IsSeq(s)
    PROVE  /\ Len(s) \in Nat /\ DOMAIN s = 1..Len(s)
           /\ s = [i \in 1..Len(s) |-> s[i]]
           /\ s = <<>> <=> Len(s) = 0
  BY DEF IsSeq

LEMMA IsSeqByLength ==
    ASSUME NEW s, NEW n \in Nat, s = [i \in 1..n |-> s[i]]
    PROVE  IsSeq(s) /\ Len(s) = n
<1>1. s \in Seq({ s[i] : i \in DOMAIN s })
  OBVIOUS
<1> QED BY <1>1 DEF IsSeq

LEMMA SameSeq ==
    ASSUME NEW s, IsSeq(s), NEW t, IsSeq(t), Len(s) = Len(t),
           \A i \in 1..Len(s) : s[i] = t[i]
    PROVE  s = t
  BY SeqFacts

LEMMA AppendAny ==
    ASSUME NEW s, IsSeq(s), NEW e
    PROVE  /\ IsSeq(Append(s, e)) /\ Len(Append(s, e)) = Len(s) + 1
           /\ \A i \in 1..Len(s) : Append(s, e)[i] = s[i]
           /\ Append(s, e)[Len(s) + 1] = e
<1> DEFINE S == { s[i] : i \in DOMAIN s } \cup {e}
<1>1. s \in Seq(S)
  BY DEF IsSeq
<1>2. e \in S
  OBVIOUS
<1> HIDE DEF S
<1>3. Append(s, e) \in Seq(S)
  BY <1>1, <1>2, AppendProperties
<1>4. IsSeq(Append(s, e))
  BY <1>3, IsSeqOf
<1> QED BY <1>1, <1>2, <1>4, AppendProperties

LEMMA ConcatAny ==
    ASSUME NEW s, IsSeq(s), NEW t, IsSeq(t)
    PROVE  /\ IsSeq(s \o t) /\ Len(s \o t) = Len(s) + Len(t)
           /\ \A i \in 1..Len(s) : (s \o t)[i] = s[i]
           /\ \A i \in 1..Len(t) : (s \o t)[Len(s) + i] = t[i]
<1> DEFINE S == { s[i] : i \in DOMAIN s } \cup { t[i] : i \in DOMAIN t }
<1>1. s \in Seq(S) /\ t \in Seq(S)
  BY DEF IsSeq
<1> HIDE DEF S
<1>2. s \o t \in Seq(S)
  BY <1>1, ConcatProperties
<1>3. IsSeq(s \o t)
  BY <1>2, IsSeqOf
<1>4. Len(s) \in Nat /\ Len(t) \in Nat
  BY SeqFacts
<1>5. /\ Len(s \o t) = Len(s) + Len(t)
      /\ \A i \in 1..Len(s) + Len(t) : (s \o t)[i] = IF i <= Len(s) THEN s[i] ELSE t[i - Len(s)]
  BY <1>1, ConcatProperties
<1>6. \A i \in 1..Len(t) : (s \o t)[Len(s) + i] = t[i]
  <2> SUFFICES ASSUME NEW i \in 1..Len(t) PROVE (s \o t)[Len(s) + i] = t[i]
    OBVIOUS
  <2>1. Len(s) + i \in 1..Len(s) + Len(t) /\ ~(Len(s) + i <= Len(s)) /\ (Len(s) + i) - Len(s) = i
    BY <1>4
  <2> QED BY <1>5, <2>1
<1>7. \A i \in 1..Len(s) : (s \o t)[i] = s[i]
  BY <1>4, <1>5
<1> QED BY <1>3, <1>5, <1>6, <1>7

LEMMA SubSeqAny ==
    ASSUME NEW s, IsSeq(s), NEW m \in Nat, NEW n \in Nat, m <= n, n <= Len(s)
    PROVE  /\ IsSeq(SubSeq(s, m + 1, n)) /\ Len(SubSeq(s, m + 1, n)) = n - m
           /\ \A i \in 1..(n - m) : SubSeq(s, m + 1, n)[i] = s[m + i]
<1> DEFINE S == { s[i] : i \in DOMAIN s }
<1>1. s \in Seq(S)
  BY DEF IsSeq
<1> HIDE DEF S
<1>2. SubSeq(s, m + 1, n) \in Seq(S)
  BY <1>1
<1>3. IsSeq(SubSeq(s, m + 1, n))
  BY <1>2, IsSeqOf
<1> QED BY <1>1, <1>2, <1>3

----------------------------------------------------------------------------
(* Folds. The prover instantiates no theorem with an operator, so that one   *)
(* operator, OneStep, stands for one step of any fold of the model.          *)

\* Replaced: an entry takes the place of the one with its path.
ReplaceOne(fs, e) ==
    IF \E i \in DOMAIN fs : fs[i].path = e.path
    THEN [i \in DOMAIN fs |-> IF fs[i].path = e.path THEN e ELSE fs[i]]
    ELSE Append(fs, e)

\* NotUnder: an entry that no selector is over stays.
LeaveOne(selection, left, e) ==
    IF \E s \in selection : Under(s, e.path) THEN left ELSE Append(left, e)

\* Attached: a pending extent goes to its file.
AttachOne(fs, x, unit) ==
    [fs EXCEPT ![x.file].extents = Append(@, [unit |-> unit, off |-> x.off, len |-> x.len])]

\* Chunks: a cell goes to the open chunk, which it may end.
ChunkOne(cut, c) ==
    LET open == Append(cut.open, c)
    IN  IF Len(open) = ChunkMax \/ (Len(open) >= ChunkMin /\ c % 3 = 0)
        THEN [done |-> Append(cut.done, open), open |-> <<>>]
        ELSE [cut EXCEPT !.open = open]

\* Kept: what a file was when it was read.
KeepOne(k, f) == [path \in DOMAIN k \cup {f.path} |-> IF path = f.path THEN AsRead(f) ELSE k[path]]

\* Live: a unit that was not met yet.
LiveOne(live, x) == IF x.unit \in ToSet(live) THEN live ELSE Append(live, x.unit)

\* Windows: an extent goes to the last window or opens one.
WindowOne(ws, x, lanes) ==
    IF ws # <<>> /\ (x.unit \in Last(ws).units \/ Cardinality(Last(ws).units) < lanes)
    THEN [ws EXCEPT ![Len(ws)] = [units |-> @.units \cup {x.unit}, extents |-> Append(@.extents, x)]]
    ELSE Append(ws, [units |-> {x.unit}, extents |-> <<x>>])

\* InWindows: the pieces of all the extents of a window.
PiecesIn(w) ==
    FlattenSeq([k \in DOMAIN w.extents |-> CutOut(units[w.extents[k].unit].cells, w.extents[k])])
DecodeOne(state, w, damaged) ==
    IF ~state.ok \/ w.units \cap damaged # {} THEN [state EXCEPT !.ok = FALSE]
    ELSE [state EXCEPT !.out = @ \o PiecesIn(w)]

\* Extracted: one entry, with the cache that the one before left.
ExtractOne(done, e, lanes, damaged) ==
    LET state == OneFile(done.cache, e, lanes, damaged)
    IN  [cache |-> state.cache, out |-> Append(done.out, OrRefused(state, e))]

OneStep(op, c, x, y) ==
    CASE op = "replace" -> ReplaceOne(x, y)
      [] op = "leave" -> LeaveOne(c, x, y)
      [] op = "attach" -> AttachOne(x, y, c)
      [] op = "place" -> Place(x, c, y)
      [] op = "chunk" -> ChunkOne(x, y)
      [] op = "wav" -> WavPiece(x, c.f, c.riff, (y - 1) * PieceLength(c.riff))
      [] op = "keep" -> KeepOne(x, y)
      [] op = "live" -> LiveOne(x, y)
      [] op = "join" -> x \o y
      [] op = "add" -> x + y
      [] op = "write" -> Written(x, y, c)
      [] op = "window" -> WindowOne(x, y, c)
      [] op = "decode" -> DecodeOne(x, y, c)
      [] op = "extract" -> ExtractOne(x, y, c.lanes, c.damaged)

\* What the fold computes for each set of places in the sequence.
IsFold(h, op, c, base, seq) ==
    h = [s \in SUBSET DOMAIN seq |->
            IF s = {} THEN base ELSE OneStep(op, c, h[s \ {Max(s)}], seq[Max(s)])]

LEMMA FoldExists ==
    ASSUME NEW op, NEW c, NEW base, NEW seq, NEW n \in Nat, DOMAIN seq = 1..n
    PROVE  \E h : IsFold(h, op, c, base, seq)
<1> DEFINE Folds(f, s) ==
             f[s] = IF s = {} THEN base ELSE OneStep(op, c, f[s \ {Max(s)}], seq[Max(s)])
           T == { k \in Nat : \E f : \A s \in SUBSET (1..k) : Folds(f, s) }
<1>1. 0 \in T
  <2> DEFINE f == [s \in {{}} |-> base]
  <2>1. \A s \in SUBSET (1..0) : s = {}
    OBVIOUS
  <2>2. \A s \in SUBSET (1..0) : Folds(f, s)
    BY <2>1
  <2> HIDE DEF f, Folds
  <2> QED BY <2>2
<1>2. ASSUME NEW k \in Nat, k \in T PROVE k + 1 \in T
  <2>1. PICK f : \A s \in SUBSET (1..k) : Folds(f, s)
    BY <1>2
  <2> DEFINE g == [s \in SUBSET (1..k + 1) |->
                     IF k + 1 \in s THEN OneStep(op, c, f[s \ {k + 1}], seq[k + 1]) ELSE f[s]]
  <2>2. ASSUME NEW s \in SUBSET (1..k + 1), k + 1 \notin s PROVE Folds(g, s)
    <3>1. s \in SUBSET (1..k)
      BY <2>2
    <3>2. Folds(f, s)
      BY <2>1, <3>1
    <3>3. \A u \in SUBSET s : u \in SUBSET (1..k + 1) /\ g[u] = f[u]
      BY <2>2
    <3>4. g[s] = f[s] /\ g[s \ {Max(s)}] = f[s \ {Max(s)}]
      BY <3>3
    <3> HIDE DEF g
    <3> QED BY <3>2, <3>4
  <2>3. ASSUME NEW s \in SUBSET (1..k + 1), k + 1 \in s PROVE Folds(g, s)
    <3>1. Max(s) = k + 1
      <4>1. k + 1 \in Nat /\ s \subseteq 1..k + 1
        OBVIOUS
      <4> HIDE DEF g, Folds
      <4> QED BY <2>3, <4>1, LastOfPrefix
    <3>2. s \ {k + 1} \in SUBSET (1..k + 1)
      OBVIOUS
    <3>3. g[s \ {k + 1}] = f[s \ {k + 1}]
      BY <3>2
    <3>4. g[s] = OneStep(op, c, f[s \ {k + 1}], seq[k + 1])
      BY <2>3
    <3> HIDE DEF g
    <3> QED BY <2>3, <3>1, <3>3, <3>4
  <2>4. \A s \in SUBSET (1..k + 1) : Folds(g, s)
    BY <2>2, <2>3
  <2>5. k + 1 \in Nat
    OBVIOUS
  <2> HIDE DEF g, Folds
  <2> QED BY <2>4, <2>5
<1>3. n \in T
  <2> HIDE DEF T
  <2> QED BY <1>1, <1>2, Counting
<1>4. PICK f : \A s \in SUBSET (1..n) : Folds(f, s)
  BY <1>3
<1> DEFINE e == [s \in SUBSET (1..n) |-> f[s]]
<1>5. e = [s \in SUBSET (1..n) |->
             IF s = {} THEN base ELSE OneStep(op, c, e[s \ {Max(s)}], seq[Max(s)])]
  BY <1>4
<1> HIDE DEF e
<1>6. IsFold(e, op, c, base, seq)
  BY <1>5 DEF IsFold
<1> QED BY <1>6

\* The values of a fold after each of the elements.
IsRun(g, op, c, base, seq) ==
    /\ g[0] = base
    /\ \A k \in 0..(Len(seq) - 1) : g[k + 1] = OneStep(op, c, g[k], seq[k + 1])

LEMMA FoldRuns ==
    ASSUME NEW op, NEW c, NEW base, NEW seq, IsSeq(seq),
           NEW h, IsFold(h, op, c, base, seq)
    PROVE  \E g : IsRun(g, op, c, base, seq) /\ g[Len(seq)] = h[DOMAIN seq]
<1> DEFINE n == Len(seq)
<1>1. n \in Nat /\ DOMAIN seq = 1..n
  BY SeqFacts
<1> HIDE DEF n
<1>2. \A s \in SUBSET (1..n) :
        h[s] = IF s = {} THEN base ELSE OneStep(op, c, h[s \ {Max(s)}], seq[Max(s)])
  BY <1>1 DEF IsFold
<1>3. h[{}] = base
  BY <1>2
<1>4. ASSUME NEW k \in 0..(n - 1) PROVE h[1..k + 1] = OneStep(op, c, h[1..k], seq[k + 1])
  <2>1. (1..k + 1) \in SUBSET (1..n) /\ (1..k + 1) # {} /\ (1..k + 1) \ {k + 1} = 1..k
    BY <1>1
  <2>2. Max(1..k + 1) = k + 1
    BY <1>1, LastOfPrefix
  <2> QED BY <1>2, <2>1, <2>2
<1> DEFINE g == [k \in 0..n |-> h[1..k]]
<1>5. g[0] = base /\ g[n] = h[1..n]
  <2>1. 1..0 = {}
    OBVIOUS
  <2> QED BY <1>1, <1>3, <2>1
<1>6. \A k \in 0..(n - 1) : g[k + 1] = OneStep(op, c, g[k], seq[k + 1])
  <2>1. \A k \in 0..(n - 1) : k \in 0..n /\ k + 1 \in 0..n
    BY <1>1
  <2> QED BY <1>4, <2>1
<1> HIDE DEF g
<1>7. IsRun(g, op, c, base, seq)
  BY <1>5, <1>6 DEF IsRun, n
<1> QED BY <1>1, <1>5, <1>7 DEF n

\* Sequence t is s and x, or more, behind it.
Begins(s, t) ==
    /\ IsSeq(s) /\ IsSeq(t) /\ Len(s) <= Len(t)
    /\ \A i \in 1..Len(s) : s[i] = t[i]
OneMore(s, t, x) == Begins(s, t) /\ Len(t) = Len(s) + 1 /\ t[Len(s) + 1] = x

\* A fold has one run.
LEMMA SameRun ==
    ASSUME NEW op, NEW c, NEW base, NEW s, NEW t, Begins(s, t),
           NEW g, NEW h, IsRun(g, op, c, base, s), IsRun(h, op, c, base, t)
    PROVE  \A k \in 0..Len(s) : g[k] = h[k]
<1>1. Len(s) \in Nat /\ Len(t) \in Nat /\ Len(s) <= Len(t)
  BY SeqFacts DEF Begins
<1> DEFINE T == { k \in Nat : k <= Len(s) => g[k] = h[k] }
<1>2. 0 \in T
  BY DEF IsRun
<1>3. ASSUME NEW k \in Nat, k \in T PROVE k + 1 \in T
  <2> SUFFICES ASSUME k + 1 <= Len(s) PROVE g[k + 1] = h[k + 1]
    OBVIOUS
  <2>1. /\ k <= Len(s) /\ k \in 0..(Len(s) - 1) /\ k \in 0..(Len(t) - 1)
        /\ k + 1 \in 1..Len(s)
    BY <1>1
  <2>2. g[k] = h[k]
    BY <1>3, <2>1
  <2>3. g[k + 1] = OneStep(op, c, g[k], s[k + 1]) /\ h[k + 1] = OneStep(op, c, h[k], t[k + 1])
    BY <2>1 DEF IsRun
  <2>4. s[k + 1] = t[k + 1]
    BY <2>1 DEF Begins
  <2> QED BY <2>2, <2>3, <2>4
<1> HIDE DEF T
<1>4. \A k \in Nat : k \in T
  BY <1>2, <1>3, Counting
<1> QED BY <1>1, <1>4 DEF T

LEMMA ReplacedRuns ==
    ASSUME NEW old, NEW entries, IsSeq(entries)
    PROVE  \E g : IsRun(g, "replace", 0, old, entries) /\ g[Len(entries)] = Replaced(old, entries)
<1> DEFINE Step(f_1) == [s \in SUBSET DOMAIN entries |->
                      IF s = {} THEN old ELSE ReplaceOne(f_1[s \ {Max(s)}], entries[Max(s)])]
           h == CHOOSE f_1 : f_1 = Step(f_1)
<1>1. PICK f_2 : IsFold(f_2, "replace", 0, old, entries)
  BY SeqFacts, FoldExists
<1>2. \A f_1 : IsFold(f_1, "replace", 0, old, entries) <=> f_1 = Step(f_1)
  BY DEF IsFold, OneStep
<1>3. Replaced(old, entries) = h[DOMAIN entries]
  BY DEF Replaced, ReplaceOne, FoldLeft, MapThenFoldSet
<1>4. h = Step(h)
  <2> HIDE DEF Step
  <2> QED BY <1>1, <1>2
<1>5. IsFold(h, "replace", 0, old, entries)
  BY <1>2, <1>4
<1> HIDE DEF h
<1> QED BY <1>3, <1>5, FoldRuns

LEMMA LeftRuns ==
    ASSUME NEW selection, NEW entries, IsSeq(entries)
    PROVE  \E g : IsRun(g, "leave", selection, <<>>, entries) /\ g[Len(entries)] = NotUnder(selection, entries)
<1> DEFINE Step(f_1) == [s \in SUBSET DOMAIN entries |->
                      IF s = {} THEN <<>> ELSE LeaveOne(selection, f_1[s \ {Max(s)}], entries[Max(s)])]
           h == CHOOSE f_1 : f_1 = Step(f_1)
<1>1. PICK f_2 : IsFold(f_2, "leave", selection, <<>>, entries)
  BY SeqFacts, FoldExists
<1>2. \A f_1 : IsFold(f_1, "leave", selection, <<>>, entries) <=> f_1 = Step(f_1)
  BY DEF IsFold, OneStep
<1>3. NotUnder(selection, entries) = h[DOMAIN entries]
  BY DEF NotUnder, LeaveOne, FoldLeft, MapThenFoldSet
<1>4. h = Step(h)
  <2> HIDE DEF Step
  <2> QED BY <1>1, <1>2
<1>5. IsFold(h, "leave", selection, <<>>, entries)
  BY <1>2, <1>4
<1> HIDE DEF h
<1> QED BY <1>3, <1>5, FoldRuns

LEMMA AttachedRuns ==
    ASSUME NEW fs, NEW pending, NEW unit, IsSeq(pending)
    PROVE  \E g : IsRun(g, "attach", unit, fs, pending) /\ g[Len(pending)] = Attached(fs, pending, unit)
<1> DEFINE Step(f_1) == [s \in SUBSET DOMAIN pending |->
                      IF s = {} THEN fs ELSE AttachOne(f_1[s \ {Max(s)}], pending[Max(s)], unit)]
           h == CHOOSE f_1 : f_1 = Step(f_1)
<1>1. PICK f_2 : IsFold(f_2, "attach", unit, fs, pending)
  BY SeqFacts, FoldExists
<1>2. \A f_1 : IsFold(f_1, "attach", unit, fs, pending) <=> f_1 = Step(f_1)
  BY DEF IsFold, OneStep
<1>3. Attached(fs, pending, unit) = h[DOMAIN pending]
  BY DEF Attached, AttachOne, FoldLeft, MapThenFoldSet
<1>4. h = Step(h)
  <2> HIDE DEF Step
  <2> QED BY <1>1, <1>2
<1>5. IsFold(h, "attach", unit, fs, pending)
  BY <1>2, <1>4
<1> HIDE DEF h
<1> QED BY <1>3, <1>5, FoldRuns

LEMMA PlacedRuns ==
    ASSUME NEW p, NEW file, NEW items, IsSeq(items)
    PROVE  \E g : IsRun(g, "place", file, p, items) /\ g[Len(items)] = PlacedAll(p, file, items)
<1> DEFINE Step(f_1) == [s \in SUBSET DOMAIN items |->
                      IF s = {} THEN p ELSE Place(f_1[s \ {Max(s)}], file, items[Max(s)])]
           h == CHOOSE f_1 : f_1 = Step(f_1)
<1>1. PICK f_2 : IsFold(f_2, "place", file, p, items)
  BY SeqFacts, FoldExists
<1>2. \A f_1 : IsFold(f_1, "place", file, p, items) <=> f_1 = Step(f_1)
  BY DEF IsFold, OneStep
<1>3. PlacedAll(p, file, items) = h[DOMAIN items]
  BY DEF PlacedAll, FoldLeft, MapThenFoldSet
<1>4. h = Step(h)
  <2> HIDE DEF Step
  <2> QED BY <1>1, <1>2
<1>5. IsFold(h, "place", file, p, items)
  BY <1>2, <1>4
<1> HIDE DEF h
<1> QED BY <1>3, <1>5, FoldRuns

NoCut == [done |-> <<>>, open |-> <<>>]

LEMMA ChunksRun ==
    ASSUME NEW cells, IsSeq(cells)
    PROVE  \E g : IsRun(g, "chunk", 0, NoCut, cells) /\ g[Len(cells)] = Chunks(cells)
<1> DEFINE Step(f_1) == [s \in SUBSET DOMAIN cells |->
                      IF s = {} THEN NoCut ELSE ChunkOne(f_1[s \ {Max(s)}], cells[Max(s)])]
           h == CHOOSE f_1 : f_1 = Step(f_1)
<1>1. PICK f_2 : IsFold(f_2, "chunk", 0, NoCut, cells)
  BY SeqFacts, FoldExists
<1>2. \A f_1 : IsFold(f_1, "chunk", 0, NoCut, cells) <=> f_1 = Step(f_1)
  BY DEF IsFold, OneStep
<1>3. Chunks(cells) = h[DOMAIN cells]
  BY DEF Chunks, ChunkOne, NoCut, FoldLeft, MapThenFoldSet
<1>4. h = Step(h)
  <2> HIDE DEF Step
  <2> QED BY <1>1, <1>2
<1>5. IsFold(h, "chunk", 0, NoCut, cells)
  BY <1>2, <1>4
<1> HIDE DEF h
<1> QED BY <1>3, <1>5, FoldRuns

\* The fold of WavSplit.
PiecesOf(p, f, riff, seq) ==
    FoldLeft(LAMBDA q, k : WavPiece(q, f, riff, (k - 1) * PieceLength(riff)), p, seq)

LEMMA PiecesRun ==
    ASSUME NEW p, NEW f, NEW riff, NEW seq, IsSeq(seq)
    PROVE  \E g : IsRun(g, "wav", [f |-> f, riff |-> riff], p, seq) /\ g[Len(seq)] = PiecesOf(p, f, riff, seq)
<1> DEFINE Step(f_1) == [s \in SUBSET DOMAIN seq |->
                      IF s = {} THEN p ELSE WavPiece(f_1[s \ {Max(s)}], f, riff, (seq[Max(s)] - 1) * PieceLength(riff))]
           h == CHOOSE f_1 : f_1 = Step(f_1)
<1>1. PICK f_2 : IsFold(f_2, "wav", [f |-> f, riff |-> riff], p, seq)
  BY SeqFacts, FoldExists
<1>2. \A f_1 : IsFold(f_1, "wav", [f |-> f, riff |-> riff], p, seq) <=> f_1 = Step(f_1)
  BY DEF IsFold, OneStep
<1>3. PiecesOf(p, f, riff, seq) = h[DOMAIN seq]
  BY DEF PiecesOf, FoldLeft, MapThenFoldSet
<1>4. h = Step(h)
  <2> HIDE DEF Step
  <2> QED BY <1>1, <1>2
<1>5. IsFold(h, "wav", [f |-> f, riff |-> riff], p, seq)
  BY <1>2, <1>4
<1> HIDE DEF h
<1> QED BY <1>3, <1>5, FoldRuns

LEMMA KeptRuns ==
    ASSUME NEW old, NEW work, IsSeq(work)
    PROVE  \E g : IsRun(g, "keep", 0, old, work) /\ g[Len(work)] = Kept(old, work)
<1> DEFINE Step(f_1) == [s \in SUBSET DOMAIN work |->
                      IF s = {} THEN old ELSE KeepOne(f_1[s \ {Max(s)}], work[Max(s)])]
           h == CHOOSE f_1 : f_1 = Step(f_1)
<1>1. PICK f_2 : IsFold(f_2, "keep", 0, old, work)
  BY SeqFacts, FoldExists
<1>2. \A f_1 : IsFold(f_1, "keep", 0, old, work) <=> f_1 = Step(f_1)
  BY DEF IsFold, OneStep
<1>3. Kept(old, work) = h[DOMAIN work]
  BY DEF Kept, KeepOne, FoldLeft, MapThenFoldSet
<1>4. h = Step(h)
  <2> HIDE DEF Step
  <2> QED BY <1>1, <1>2
<1>5. IsFold(h, "keep", 0, old, work)
  BY <1>2, <1>4
<1> HIDE DEF h
<1> QED BY <1>3, <1>5, FoldRuns

\* The fold of Live.
LiveIn(xs) ==
    FoldLeft(LAMBDA live, x : IF x.unit \in ToSet(live) THEN live ELSE Append(live, x.unit), <<>>, xs)

LEMMA LiveRuns ==
    ASSUME NEW xs, IsSeq(xs)
    PROVE  \E g : IsRun(g, "live", 0, <<>>, xs) /\ g[Len(xs)] = LiveIn(xs)
<1> DEFINE Step(f_1) == [s \in SUBSET DOMAIN xs |->
                      IF s = {} THEN <<>> ELSE LiveOne(f_1[s \ {Max(s)}], xs[Max(s)])]
           h == CHOOSE f_1 : f_1 = Step(f_1)
<1>1. PICK f_2 : IsFold(f_2, "live", 0, <<>>, xs)
  BY SeqFacts, FoldExists
<1>2. \A f_1 : IsFold(f_1, "live", 0, <<>>, xs) <=> f_1 = Step(f_1)
  BY DEF IsFold, OneStep
<1>3. LiveIn(xs) = h[DOMAIN xs]
  BY DEF LiveIn, LiveOne, FoldLeft, MapThenFoldSet
<1>4. h = Step(h)
  <2> HIDE DEF Step
  <2> QED BY <1>1, <1>2
<1>5. IsFold(h, "live", 0, <<>>, xs)
  BY <1>2, <1>4
<1> HIDE DEF h
<1> QED BY <1>3, <1>5, FoldRuns

LEMMA WindowsRun ==
    ASSUME NEW xs, NEW lanes, IsSeq(xs)
    PROVE  \E g : IsRun(g, "window", lanes, <<>>, xs) /\ g[Len(xs)] = Windows(xs, lanes)
<1> DEFINE Step(f_1) == [s \in SUBSET DOMAIN xs |->
                      IF s = {} THEN <<>> ELSE WindowOne(f_1[s \ {Max(s)}], xs[Max(s)], lanes)]
           h == CHOOSE f_1 : f_1 = Step(f_1)
<1>1. PICK f_2 : IsFold(f_2, "window", lanes, <<>>, xs)
  BY SeqFacts, FoldExists
<1>2. \A f_1 : IsFold(f_1, "window", lanes, <<>>, xs) <=> f_1 = Step(f_1)
  BY DEF IsFold, OneStep
<1>3. Windows(xs, lanes) = h[DOMAIN xs]
  BY DEF Windows, WindowOne, FoldLeft, MapThenFoldSet
<1>4. h = Step(h)
  <2> HIDE DEF Step
  <2> QED BY <1>1, <1>2
<1>5. IsFold(h, "window", lanes, <<>>, xs)
  BY <1>2, <1>4
<1> HIDE DEF h
<1> QED BY <1>3, <1>5, FoldRuns

ReadNothing(cache) == [ok |-> TRUE, cache |-> cache, out |-> <<>>]

LEMMA InOrderRuns ==
    ASSUME NEW cache, NEW e, NEW damaged, IsSeq(e.extents)
    PROVE  \E g : IsRun(g, "write", damaged, ReadNothing(cache), e.extents) /\ g[Len(e.extents)] = InOrder(cache, e, damaged)
<1> DEFINE Step(f_1) == [s \in SUBSET DOMAIN e.extents |->
                      IF s = {} THEN ReadNothing(cache) ELSE Written(f_1[s \ {Max(s)}], e.extents[Max(s)], damaged)]
           h == CHOOSE f_1 : f_1 = Step(f_1)
<1>1. PICK f_2 : IsFold(f_2, "write", damaged, ReadNothing(cache), e.extents)
  BY SeqFacts, FoldExists
<1>2. \A f_1 : IsFold(f_1, "write", damaged, ReadNothing(cache), e.extents) <=> f_1 = Step(f_1)
  BY DEF IsFold, OneStep
<1>3. InOrder(cache, e, damaged) = h[DOMAIN e.extents]
  BY DEF InOrder, ReadNothing, FoldLeft, MapThenFoldSet
<1>4. h = Step(h)
  <2> HIDE DEF Step
  <2> QED BY <1>1, <1>2
<1>5. IsFold(h, "write", damaged, ReadNothing(cache), e.extents)
  BY <1>2, <1>4
<1> HIDE DEF h
<1> QED BY <1>3, <1>5, FoldRuns

\* The fold of InWindows.
DecodedIn(cache, ws, damaged) ==
    FoldLeft(LAMBDA state, w : DecodeOne(state, w, damaged), ReadNothing(cache), ws)

LEMMA DecodedRuns ==
    ASSUME NEW cache, NEW ws, NEW damaged, IsSeq(ws)
    PROVE  \E g : IsRun(g, "decode", damaged, ReadNothing(cache), ws) /\ g[Len(ws)] = DecodedIn(cache, ws, damaged)
<1> DEFINE Step(f_1) == [s \in SUBSET DOMAIN ws |->
                      IF s = {} THEN ReadNothing(cache) ELSE DecodeOne(f_1[s \ {Max(s)}], ws[Max(s)], damaged)]
           h == CHOOSE f_1 : f_1 = Step(f_1)
<1>1. PICK f_2 : IsFold(f_2, "decode", damaged, ReadNothing(cache), ws)
  BY SeqFacts, FoldExists
<1>2. \A f_1 : IsFold(f_1, "decode", damaged, ReadNothing(cache), ws) <=> f_1 = Step(f_1)
  BY DEF IsFold, OneStep
<1>3. DecodedIn(cache, ws, damaged) = h[DOMAIN ws]
  BY DEF DecodedIn, FoldLeft, MapThenFoldSet
<1>4. h = Step(h)
  <2> HIDE DEF Step
  <2> QED BY <1>1, <1>2
<1>5. IsFold(h, "decode", damaged, ReadNothing(cache), ws)
  BY <1>2, <1>4
<1> HIDE DEF h
<1> QED BY <1>3, <1>5, FoldRuns

NothingOut == [cache |-> NoUnit, out |-> <<>>]
\* The fold of Extracted.
ExtractedFrom(fs, lanes, damaged) ==
    FoldLeft(LAMBDA done, e : ExtractOne(done, e, lanes, damaged), NothingOut, fs)

LEMMA ExtractedRuns ==
    ASSUME NEW fs, NEW lanes, NEW damaged, IsSeq(fs)
    PROVE  \E g : IsRun(g, "extract", [lanes |-> lanes, damaged |-> damaged], NothingOut, fs) /\ g[Len(fs)] = ExtractedFrom(fs, lanes, damaged)
<1> DEFINE Step(f_1) == [s \in SUBSET DOMAIN fs |->
                      IF s = {} THEN NothingOut ELSE ExtractOne(f_1[s \ {Max(s)}], fs[Max(s)], lanes, damaged)]
           h == CHOOSE f_1 : f_1 = Step(f_1)
<1>1. PICK f_2 : IsFold(f_2, "extract", [lanes |-> lanes, damaged |-> damaged], NothingOut, fs)
  BY SeqFacts, FoldExists
<1>2. \A f_1 : IsFold(f_1, "extract", [lanes |-> lanes, damaged |-> damaged], NothingOut, fs) <=> f_1 = Step(f_1)
  BY DEF IsFold, OneStep
<1>3. ExtractedFrom(fs, lanes, damaged) = h[DOMAIN fs]
  BY DEF ExtractedFrom, FoldLeft, MapThenFoldSet
<1>4. h = Step(h)
  <2> HIDE DEF Step
  <2> QED BY <1>1, <1>2
<1>5. IsFold(h, "extract", [lanes |-> lanes, damaged |-> damaged], NothingOut, fs)
  BY <1>2, <1>4
<1> HIDE DEF h
<1> QED BY <1>3, <1>5, FoldRuns

----------------------------------------------------------------------------
(* What the packer's operations leave alone: names, claims and warnings.     *)

PackerFields == {"tier", "units", "claims", "files", "buf", "kind", "pending", "votes",
                 "current", "piece", "trace", "warned", "failed"}
EntryFields == {"path", "size", "dir", "extents"}

IsEntry(e) == e = [x \in EntryFields |-> e[x]]
AreEntries(fs) == IsSeq(fs) /\ \A i \in 1..Len(fs) : IsEntry(fs[i])
IsPacker(p) ==
    /\ p = [x \in PackerFields |-> p[x]]
    /\ AreEntries(p.files) /\ IsSeq(p.pending)

SameNames(fs, gs) ==
    /\ AreEntries(gs) /\ Len(gs) = Len(fs)
    /\ \A i \in 1..Len(fs) : /\ gs[i].path = fs[i].path /\ gs[i].dir = fs[i].dir
                             /\ i < Len(fs) => gs[i].size = fs[i].size

SameSizes(fs, gs) == \A i \in 1..Len(fs) : gs[i].size = fs[i].size

\* What comes of packer p without a file being listed.
Kin(p, q) ==
    /\ IsPacker(q) /\ q.tier = p.tier /\ q.claims = p.claims /\ q.warned = p.warned
    /\ SameNames(p.files, q.files)

LEMMA KinOfKin ==
    ASSUME NEW p, NEW q, NEW r, Kin(p, q), Kin(q, r)
    PROVE  Kin(p, r)
  BY DEF Kin, SameNames

LEMMA KinToItself == ASSUME NEW p, IsPacker(p) PROVE Kin(p, p)
  BY DEF Kin, SameNames, IsPacker

LEMMA AttachOneSameNames ==
    ASSUME NEW fs, AreEntries(fs), NEW x, NEW unit
    PROVE  SameNames(fs, AttachOne(fs, x, unit)) /\ SameSizes(fs, AttachOne(fs, x, unit))
<1> DEFINE gs == AttachOne(fs, x, unit)
           new(i) == [fs[i] EXCEPT !.extents =
                        Append(@, [unit |-> unit, off |-> x.off, len |-> x.len])]
<1>1. Len(fs) \in Nat /\ fs = [i \in 1..Len(fs) |-> fs[i]]
  BY SeqFacts DEF AreEntries
<1>2. gs = [i \in 1..Len(fs) |-> IF i = x.file THEN new(i) ELSE fs[i]]
  BY <1>1 DEF AttachOne
<1>3. IsSeq(gs) /\ Len(gs) = Len(fs)
  <2> DEFINE hs == [i \in 1..Len(fs) |-> IF i = x.file THEN new(i) ELSE fs[i]]
  <2>1. hs = [i \in 1..Len(fs) |-> hs[i]]
    OBVIOUS
  <2> HIDE DEF hs
  <2>2. IsSeq(hs) /\ Len(hs) = Len(fs)
    BY <1>1, <2>1, IsSeqByLength
  <2> QED BY <1>2, <2>2 DEF hs
<1>4. ASSUME NEW i \in 1..Len(fs)
      PROVE  /\ IsEntry(new(i)) /\ new(i).path = fs[i].path /\ new(i).dir = fs[i].dir
             /\ new(i).size = fs[i].size
  BY DEF AreEntries, IsEntry, EntryFields
<1>5. ASSUME NEW i \in 1..Len(fs)
      PROVE  /\ IsEntry(gs[i]) /\ gs[i].path = fs[i].path /\ gs[i].dir = fs[i].dir
             /\ gs[i].size = fs[i].size
  <2>1. gs[i] = IF i = x.file THEN new(i) ELSE fs[i]
    BY <1>2
  <2> HIDE DEF gs, new
  <2> QED BY <1>4, <2>1 DEF AreEntries
<1> HIDE DEF gs
<1> QED BY <1>3, <1>5 DEF SameNames, SameSizes, AreEntries, gs

LEMMA AttachedSameNames ==
    ASSUME NEW fs, AreEntries(fs), NEW pending, IsSeq(pending), NEW unit
    PROVE  /\ SameNames(fs, Attached(fs, pending, unit))
           /\ SameSizes(fs, Attached(fs, pending, unit))
<1>1. PICK g : IsRun(g, "attach", unit, fs, pending) /\ g[Len(pending)] = Attached(fs, pending, unit)
  BY AttachedRuns
<1>2. Len(pending) \in Nat
  BY SeqFacts
<1> DEFINE T == { k \in Nat : k <= Len(pending) => SameNames(fs, g[k]) /\ SameSizes(fs, g[k]) }
<1>3. 0 \in T
  BY <1>1 DEF IsRun, SameNames, SameSizes, AreEntries
<1>4. ASSUME NEW k \in Nat, k \in T PROVE k + 1 \in T
  <2> SUFFICES ASSUME k + 1 <= Len(pending) PROVE SameNames(fs, g[k + 1]) /\ SameSizes(fs, g[k + 1])
    OBVIOUS
  <2>1. k \in 0..(Len(pending) - 1) /\ SameNames(fs, g[k]) /\ SameSizes(fs, g[k])
    BY <1>2, <1>4
  <2>2. g[k + 1] = AttachOne(g[k], pending[k + 1], unit)
    BY <1>1, <2>1 DEF IsRun, OneStep
  <2>3. SameNames(g[k], g[k + 1]) /\ SameSizes(g[k], g[k + 1])
    BY <2>1, <2>2, AttachOneSameNames DEF SameNames
  <2> QED BY <2>1, <2>3 DEF SameNames, SameSizes
<1> HIDE DEF T
<1>5. Len(pending) \in T
  BY <1>2, <1>3, <1>4, Counting
<1> QED BY <1>1, <1>5 DEF T

LEMMA EmptyIsSeq == IsSeq(<<>>) /\ Len(<<>>) = 0
  BY IsSeqByLength DEF IsSeq

LEMMA ClosedKin ==
    ASSUME NEW p, IsPacker(p), NEW unit, NEW cut
    PROVE  Kin(p, Closed(p, unit, cut)) /\ SameSizes(p.files, Closed(p, unit, cut).files)
<1> DEFINE q == Closed(p, unit, cut)
<1>1. /\ q = [x \in PackerFields |-> q[x]]
      /\ q.tier = p.tier /\ q.claims = p.claims /\ q.warned = p.warned
      /\ q.pending = <<>> /\ q.files = Attached(p.files, p.pending, unit)
  BY DEF IsPacker, PackerFields, Closed
<1>2. SameNames(p.files, q.files) /\ SameSizes(p.files, q.files)
  BY <1>1, AttachedSameNames DEF IsPacker
<1> HIDE DEF q
<1> QED BY <1>1, <1>2, EmptyIsSeq DEF Kin, SameNames, IsPacker, q

LEMMA FlushKin ==
    ASSUME NEW p, IsPacker(p), NEW cut
    PROVE  Kin(p, Flush(p, cut)) /\ SameSizes(p.files, Flush(p, cut).files)
<1>1. CASE p.buf = <<>>
  <2>1. LET q == [p EXCEPT !.pending = <<>>]
        IN  /\ q = [x \in PackerFields |-> q[x]]
            /\ q.tier = p.tier /\ q.claims = p.claims /\ q.warned = p.warned
            /\ q.pending = <<>> /\ q.files = p.files
    BY DEF IsPacker, PackerFields
  <2> QED BY <1>1, <2>1, EmptyIsSeq DEF Flush, Kin, SameNames, SameSizes, IsPacker
<1>2. CASE p.buf # <<>> /\ Known(p) # {}
  BY <1>2, ClosedKin DEF Flush
<1>3. CASE p.buf # <<>> /\ Known(p) = {}
  <2>1. LET q == Submitted(p)
        IN  /\ q = [x \in PackerFields |-> q[x]]
            /\ q.tier = p.tier /\ q.claims = p.claims /\ q.warned = p.warned
            /\ q.pending = p.pending /\ q.files = p.files
    BY DEF Submitted, IsPacker, PackerFields
  <2>2. IsPacker(Submitted(p)) /\ Kin(p, Submitted(p))
    BY <2>1 DEF IsPacker, Kin, SameNames
  <2>3. /\ Kin(Submitted(p), Flush(p, cut))
        /\ SameSizes(Submitted(p).files, Flush(p, cut).files)
    BY <1>3, <2>2, ClosedKin DEF Flush
  <2> QED BY <2>1, <2>2, <2>3, KinOfKin
<1> QED BY <1>1, <1>2, <1>3

LEMMA AppendedKin ==
    ASSUME NEW p, IsPacker(p), NEW file, NEW item
    PROVE  Kin(p, Appended(p, file, item))
<1> DEFINE q == Appended(p, file, item)
<1>1. /\ q = [x \in PackerFields |-> q[x]]
      /\ q.tier = p.tier /\ q.claims = p.claims /\ q.warned = p.warned /\ q.files = p.files
      /\ q.pending = Append(p.pending, [file |-> file, off |-> Len(p.buf), len |-> Len(item)])
  BY DEF Appended, IsPacker, PackerFields
<1> HIDE DEF q
<1>2. IsSeq(q.pending)
  <2> DEFINE x == [file |-> file, off |-> Len(p.buf), len |-> Len(item)]
  <2>1. IsSeq(p.pending) /\ q.pending = Append(p.pending, x)
    BY <1>1 DEF IsPacker
  <2> HIDE DEF x
  <2> QED BY <2>1, AppendAny
<1> QED BY <1>1, <1>2 DEF Kin, SameNames, IsPacker, q

LEMMA PlaceKin ==
    ASSUME NEW p, IsPacker(p), NEW file, NEW item
    PROVE  Kin(p, Place(p, file, item))
<1> DEFINE a == IF Overshoots(p, item) THEN Flush(p, "Overshoot") ELSE p
           b == Appended(a, file, item)
<1>1. Kin(p, a)
  BY FlushKin, KinToItself
<1>2. IsPacker(a)
  BY <1>1 DEF Kin
<1>3. Kin(a, b)
  BY <1>2, AppendedKin
<1>4. IsPacker(b)
  BY <1>3 DEF Kin
<1>5. Kin(b, CutAfter(b, item))
  BY <1>4, FlushKin, KinToItself DEF CutAfter
<1>6. Place(p, file, item) = CutAfter(b, item)
  BY DEF Place
<1> HIDE DEF a, b
<1> QED BY <1>1, <1>3, <1>5, <1>6, KinOfKin

LEMMA PlacedAllKin ==
    ASSUME NEW p, IsPacker(p), NEW file, NEW items, IsSeq(items)
    PROVE  Kin(p, PlacedAll(p, file, items))
<1>1. PICK g : IsRun(g, "place", file, p, items) /\ g[Len(items)] = PlacedAll(p, file, items)
  BY PlacedRuns
<1>2. Len(items) \in Nat
  BY SeqFacts
<1> DEFINE T == { k \in Nat : k <= Len(items) => Kin(p, g[k]) }
<1>3. 0 \in T
  BY <1>1, KinToItself DEF IsRun
<1>4. ASSUME NEW k \in Nat, k \in T PROVE k + 1 \in T
  <2> SUFFICES ASSUME k + 1 <= Len(items) PROVE Kin(p, g[k + 1])
    OBVIOUS
  <2>1. k \in 0..(Len(items) - 1) /\ Kin(p, g[k])
    BY <1>2, <1>4
  <2>2. g[k + 1] = Place(g[k], file, items[k + 1])
    BY <1>1, <2>1 DEF IsRun, OneStep
  <2>3. Kin(g[k], g[k + 1])
    BY <2>1, <2>2, PlaceKin DEF Kin
  <2> QED BY <2>1, <2>3, KinOfKin
<1> HIDE DEF T
<1>5. Len(items) \in T
  BY <1>2, <1>3, <1>4, Counting
<1> QED BY <1>1, <1>5 DEF T

----------------------------------------------------------------------------
(* Chunks. *)

\* The items are the first n cells, one slice after the other.
Slices(items, cells, n) ==
    /\ IsSeq(items)
    /\ \E at \in [0..Len(items) -> 0..n] :
          /\ at[0] = 0 /\ at[Len(items)] = n
          /\ \A j \in 0..(Len(items) - 1) :
                at[j] <= at[j + 1] /\ items[j + 1] = SubSeq(cells, at[j] + 1, at[j + 1])

LEMMA MoreSlices ==
    ASSUME NEW items, NEW cells, NEW n \in Nat, Slices(items, cells, n), NEW m \in Nat, n <= m
    PROVE  Slices(Append(items, SubSeq(cells, n + 1, m)), cells, m)
<1> DEFINE new == Append(items, SubSeq(cells, n + 1, m))
<1>1. /\ IsSeq(new) /\ Len(new) = Len(items) + 1
      /\ \A i \in 1..Len(items) : new[i] = items[i]
      /\ new[Len(items) + 1] = SubSeq(cells, n + 1, m)
      /\ Len(items) \in Nat
  <2> DEFINE item == SubSeq(cells, n + 1, m)
  <2>1. IsSeq(items)
    BY DEF Slices
  <2>2. Len(items) \in Nat
    BY <2>1, SeqFacts
  <2> HIDE DEF item
  <2>3. /\ IsSeq(Append(items, item)) /\ Len(Append(items, item)) = Len(items) + 1
        /\ \A i \in 1..Len(items) : Append(items, item)[i] = items[i]
        /\ Append(items, item)[Len(items) + 1] = item
    BY <2>1, AppendAny
  <2> QED BY <2>2, <2>3 DEF item
<1>2. PICK at \in [0..Len(items) -> 0..n] :
          /\ at[0] = 0 /\ at[Len(items)] = n
          /\ \A j \in 0..(Len(items) - 1) :
                at[j] <= at[j + 1] /\ items[j + 1] = SubSeq(cells, at[j] + 1, at[j + 1])
  BY DEF Slices
<1> DEFINE to == [j \in 0..Len(items) + 1 |-> IF j = Len(items) + 1 THEN m ELSE at[j]]
<1>3. to \in [0..Len(items) + 1 -> 0..m]
  BY <1>1
<1>4. to[0] = 0 /\ to[Len(items) + 1] = m
  BY <1>1, <1>2
<1>5. \A j \in 0..Len(items) : to[j] = at[j]
  BY <1>1
<1> HIDE DEF to, new
<1>6. ASSUME NEW j \in 0..Len(items)
      PROVE  to[j] <= to[j + 1] /\ new[j + 1] = SubSeq(cells, to[j] + 1, to[j + 1])
  <2>1. CASE j = Len(items)
    BY <1>1, <1>2, <1>4, <1>5, <2>1
  <2>2. CASE j # Len(items)
    <3>1. j \in 0..(Len(items) - 1) /\ j + 1 \in 1..Len(items) /\ j + 1 \in 0..Len(items)
      BY <1>1, <2>2
    <3> QED BY <1>1, <1>2, <1>5, <3>1
  <2> QED BY <2>1, <2>2
<1>7. Len(new) - 1 = Len(items)
  BY <1>1
<1>8. /\ to \in [0..Len(new) -> 0..m] /\ to[0] = 0 /\ to[Len(new)] = m
      /\ \A j \in 0..(Len(new) - 1) :
            to[j] <= to[j + 1] /\ new[j + 1] = SubSeq(cells, to[j] + 1, to[j + 1])
  BY <1>1, <1>3, <1>4, <1>6, <1>7
<1>9. Slices(new, cells, m)
  BY <1>1, <1>8 DEF Slices
<1> QED BY <1>9 DEF new

LEMMA NoSlices == ASSUME NEW cells PROVE Slices(<<>>, cells, 0)
<1> DEFINE at == [j \in 0..0 |-> 0]
<1>1. at \in [0..0 -> 0..0] /\ at[0] = 0
  OBVIOUS
<1> HIDE DEF at
<1> QED BY <1>1, EmptyIsSeq DEF Slices

\* What is cut of the first k cells, and what is open.
CutInv(cut, cells, k) ==
    /\ cut = [done |-> cut.done, open |-> cut.open]
    /\ \E n \in 0..k : Slices(cut.done, cells, n) /\ cut.open = SubSeq(cells, n + 1, k)

LEMMA ChunkOneKeeps ==
    ASSUME NEW cells, IsSeq(cells), NEW k \in Nat, k < Len(cells), NEW cut, CutInv(cut, cells, k)
    PROVE  CutInv(ChunkOne(cut, cells[k + 1]), cells, k + 1)
<1>1. PICK n \in 0..k : Slices(cut.done, cells, n) /\ cut.open = SubSeq(cells, n + 1, k)
  BY DEF CutInv
<1> DEFINE open == Append(cut.open, cells[k + 1])
<1>2. open = SubSeq(cells, n + 1, k + 1)
  <2>1. Len(cells) \in Nat
    BY SeqFacts
  <2>2. /\ IsSeq(cut.open) /\ Len(cut.open) = k - n
        /\ \A i \in 1..(k - n) : cut.open[i] = cells[n + i]
    BY <1>1, <2>1, SubSeqAny
  <2> DEFINE s == SubSeq(cells, n + 1, k + 1)
  <2>3. /\ IsSeq(s) /\ Len(s) = (k + 1) - n
        /\ \A i \in 1..((k + 1) - n) : s[i] = cells[n + i]
    BY <2>1, SubSeqAny
  <2>4. /\ IsSeq(open) /\ Len(open) = Len(cut.open) + 1
        /\ \A i \in 1..Len(cut.open) : open[i] = cut.open[i]
        /\ open[Len(cut.open) + 1] = cells[k + 1]
    BY <2>2, AppendAny
  <2> HIDE DEF s, open
  <2>5. ASSUME NEW i \in 1..Len(open) PROVE open[i] = s[i]
    <3>1. CASE i <= k - n
      BY <2>2, <2>3, <2>4, <3>1
    <3>2. CASE i = (k - n) + 1
      <4>1. n + i = k + 1
        BY <3>2
      <4> QED BY <2>2, <2>3, <2>4, <3>2, <4>1
    <3> QED BY <2>2, <2>4, <3>1, <3>2
  <2>6. Len(open) = Len(s)
    BY <2>2, <2>3, <2>4
  <2> QED BY <2>3, <2>4, <2>5, <2>6, SameSeq DEF s
<1> HIDE DEF open
<1>3. CASE ChunkOne(cut, cells[k + 1]) = [done |-> Append(cut.done, open), open |-> <<>>]
  <2>1. Slices(Append(cut.done, open), cells, k + 1)
    BY <1>1, <1>2, MoreSlices
  <2>2. SubSeq(cells, (k + 1) + 1, k + 1) = <<>>
    BY SubSeqEmpty
  <2> DEFINE done == Append(cut.done, open)
  <2> HIDE DEF done
  <2>3. k + 1 \in 0..k + 1
    OBVIOUS
  <2>4. CutInv([done |-> done, open |-> <<>>], cells, k + 1)
    BY <2>1, <2>2, <2>3 DEF CutInv, done
  <2> QED BY <1>3, <2>4 DEF done
<1>4. CASE ChunkOne(cut, cells[k + 1]) = [cut EXCEPT !.open = open]
  <2>1. cut = [done |-> cut.done, open |-> cut.open]
    BY DEF CutInv
  <2>2. ChunkOne(cut, cells[k + 1]) = [done |-> cut.done, open |-> open]
    BY <1>4, <2>1
  <2>3. n \in 0..k + 1
    OBVIOUS
  <2>4. CutInv([done |-> cut.done, open |-> open], cells, k + 1)
    BY <1>1, <1>2, <2>3 DEF CutInv
  <2> QED BY <2>2, <2>4
<1> QED BY <1>3, <1>4 DEF ChunkOne, open

\* The chunks of a file are all its bytes, each once and in order.
LEMMA ChunksAreSlices ==
    ASSUME NEW cells, IsSeq(cells)
    PROVE  Slices(ChunksOf(Chunks(cells)), cells, Len(cells))
<1>1. PICK g : IsRun(g, "chunk", 0, NoCut, cells) /\ g[Len(cells)] = Chunks(cells)
  BY ChunksRun
<1>2. Len(cells) \in Nat
  BY SeqFacts
<1> DEFINE T == { k \in Nat : k <= Len(cells) => CutInv(g[k], cells, k) }
<1>3. 0 \in T
  <2>1. SubSeq(cells, 0 + 1, 0) = <<>>
    BY SubSeqEmpty
  <2>2. CutInv([done |-> <<>>, open |-> <<>>], cells, 0)
    BY <2>1, NoSlices DEF CutInv
  <2> QED BY <1>1, <2>2 DEF IsRun, NoCut
<1>4. ASSUME NEW k \in Nat, k \in T PROVE k + 1 \in T
  <2> SUFFICES ASSUME k + 1 <= Len(cells) PROVE CutInv(g[k + 1], cells, k + 1)
    OBVIOUS
  <2>1. k \in 0..(Len(cells) - 1) /\ k < Len(cells) /\ CutInv(g[k], cells, k)
    BY <1>2, <1>4
  <2>2. g[k + 1] = ChunkOne(g[k], cells[k + 1])
    BY <1>1, <2>1 DEF IsRun, OneStep
  <2> QED BY <2>1, <2>2, ChunkOneKeeps
<1> HIDE DEF T
<1>5. CutInv(Chunks(cells), cells, Len(cells))
  <2>1. Len(cells) \in T
    BY <1>2, <1>3, <1>4, Counting
  <2> QED BY <1>1, <1>2, <2>1 DEF T
<1>6. PICK n \in 0..Len(cells) : /\ Slices(Chunks(cells).done, cells, n)
                                /\ Chunks(cells).open = SubSeq(cells, n + 1, Len(cells))
  BY <1>5 DEF CutInv
<1>7. CASE Chunks(cells).open = <<>>
  <2>1. n = Len(cells)
    <3>1. Len(SubSeq(cells, n + 1, Len(cells))) = Len(cells) - n
      BY <1>2, SubSeqAny
    <3> QED BY <1>2, <1>6, <1>7, <3>1, EmptyIsSeq
  <2> QED BY <1>6, <1>7, <2>1 DEF ChunksOf
<1>8. CASE Chunks(cells).open # <<>>
  BY <1>2, <1>6, <1>8, MoreSlices DEF ChunksOf
<1> QED BY <1>7, <1>8

----------------------------------------------------------------------------
(* add_file lists one file and leaves the names of the others alone.         *)

LEMMA WavPieceKin ==
    ASSUME NEW p, IsPacker(p), NEW f, NEW riff, NEW done
    PROVE  Kin(p, WavPiece(p, f, riff, done))
<1> DEFINE run == IF PieceLength(riff) < riff.len - done THEN PieceLength(riff) ELSE riff.len - done
           from == IF done = 0 THEN 0 ELSE riff.off + done
           upto == IF done + run = riff.len THEN f.len ELSE riff.off + done + run
           x == [file |-> Len(p.files), off |-> 0, len |-> upto - from]
           piece == [start |-> IF done = 0 THEN riff.off ELSE 0, len |-> run, frame |-> riff.frame]
           cells == SubSeq(f.cells, from + 1, upto)
           q == [p EXCEPT !.buf = cells, !.pending = Append(@, x), !.kind = "wav", !.piece = piece]
<1>1. WavPiece(p, f, riff, done) = Flush(q, "Solo")
  BY DEF WavPiece
<1> HIDE DEF x, piece, cells
<1>2. /\ q = [y \in PackerFields |-> q[y]]
      /\ q.tier = p.tier /\ q.claims = p.claims /\ q.warned = p.warned /\ q.files = p.files
      /\ q.pending = Append(p.pending, x)
  BY DEF IsPacker, PackerFields
<1> HIDE DEF q
<1>3. IsSeq(q.pending)
  <2>1. IsSeq(p.pending)
    BY DEF IsPacker
  <2>2. IsSeq(Append(p.pending, x))
    BY <2>1, AppendAny
  <2> QED BY <1>2, <2>2
<1>4. Kin(p, q)
  BY <1>2, <1>3 DEF Kin, SameNames, IsPacker
<1>5. Kin(q, Flush(q, "Solo"))
  BY <1>4, FlushKin DEF Kin
<1> QED BY <1>1, <1>4, <1>5, KinOfKin

LEMMA PiecesKin ==
    ASSUME NEW p, IsPacker(p), NEW f, NEW riff, NEW seq, IsSeq(seq)
    PROVE  Kin(p, PiecesOf(p, f, riff, seq))
<1> DEFINE c == [f |-> f, riff |-> riff]
<1>1. PICK g : IsRun(g, "wav", c, p, seq) /\ g[Len(seq)] = PiecesOf(p, f, riff, seq)
  BY PiecesRun
<1>2. Len(seq) \in Nat
  BY SeqFacts
<1> DEFINE T == { k \in Nat : k <= Len(seq) => Kin(p, g[k]) }
<1>3. 0 \in T
  BY <1>1, KinToItself DEF IsRun
<1>4. ASSUME NEW k \in Nat, k \in T PROVE k + 1 \in T
  <2> SUFFICES ASSUME k + 1 <= Len(seq) PROVE Kin(p, g[k + 1])
    OBVIOUS
  <2>1. k \in 0..(Len(seq) - 1) /\ Kin(p, g[k])
    BY <1>2, <1>4
  <2>2. g[k + 1] = WavPiece(g[k], f, riff, (seq[k + 1] - 1) * PieceLength(riff))
    BY <1>1, <2>1 DEF IsRun, OneStep
  <2>3. Kin(g[k], g[k + 1])
    BY <2>1, <2>2, WavPieceKin DEF Kin
  <2> QED BY <2>1, <2>3, KinOfKin
<1> HIDE DEF T
<1>5. Len(seq) \in T
  BY <1>2, <1>3, <1>4, Counting
<1> QED BY <1>1, <1>5 DEF T

\* What is assumed of a file that is added.
IsFile(f) == f.path \in Seq(STRING) /\ f.len \in Nat /\ f.cells \in Seq(Nat)

\* How many pieces a .wav is cut into.
PieceCount(riff) == (riff.len + PieceLength(riff) - 1) \div PieceLength(riff)

LEMMA PiecesAreCounted ==
    ASSUME NEW f, IsFile(f), Splits(f)
    PROVE  LET riff == LookOf(f.cells).riff
           IN  /\ riff.frame \in Nat \ {0} /\ riff.off \in Nat /\ riff.len \in Nat \ {0}
               /\ PieceLength(riff) \in Nat \ {0} /\ PieceCount(riff) \in Nat
               /\ riff.off + riff.len <= f.len
<1> DEFINE riff == LookOf(f.cells).riff
<1>1. riff.frame \in Nat \ {0} /\ riff.off \in Nat /\ riff.len \in Nat \ {0}
  BY LooksAssumption DEF Splits, LookOf, Noise
<1>2. PieceLength(riff) # 0 /\ riff.off + riff.len <= f.len
  BY DEF Splits
<1> HIDE DEF riff
<1>3. PieceLength(riff) \in Nat
  <2>1. Target \in Nat /\ Target \div riff.frame \in Nat
    BY <1>1, GeometryAssumption
  <2> QED BY <1>1, <2>1 DEF PieceLength
<1>4. PieceCount(riff) \in Nat
  <2> DEFINE m == PieceLength(riff)
  <2>1. m \in Nat /\ m > 0 /\ riff.len + m - 1 \in Nat
    BY <1>1, <1>2, <1>3
  <2> HIDE DEF m
  <2>2. (riff.len + m - 1) \div m \in Nat
    BY <2>1
  <2> QED BY <2>2 DEF m, PieceCount
<1> QED BY <1>1, <1>2, <1>3, <1>4 DEF riff

LEMMA NumberedIsSeq ==
    ASSUME NEW n \in Nat
    PROVE  LET s == [k \in 1..n |-> k]
           IN  IsSeq(s) /\ Len(s) = n /\ \A k \in 1..n : s[k] = k
<1> DEFINE s == [k \in 1..n |-> k]
<1>1. s = [k \in 1..n |-> s[k]] /\ \A k \in 1..n : s[k] = k
  OBVIOUS
<1> HIDE DEF s
<1> QED BY <1>1, IsSeqByLength DEF s

LEMMA WavSplitKin ==
    ASSUME NEW p, IsPacker(p), NEW f, IsFile(f), Splits(f)
    PROVE  Kin(p, WavSplit(p, f, LookOf(f.cells).riff))
<1> DEFINE riff == LookOf(f.cells).riff
           seq == [k \in 1..PieceCount(riff) |-> k]
           q == Flush(p, "BeforeSolo")
<1>1. PieceCount(riff) \in Nat
  BY PiecesAreCounted
<1> HIDE DEF riff
<1>2. CASE Len(f.cells) < f.len
  <2>1. LET r == [p EXCEPT !.failed = TRUE]
        IN  /\ r = [x \in PackerFields |-> r[x]]
            /\ r.tier = p.tier /\ r.claims = p.claims /\ r.warned = p.warned
            /\ r.pending = p.pending /\ r.files = p.files
    BY DEF IsPacker, PackerFields
  <2> QED BY <1>2, <2>1 DEF WavSplit, Kin, SameNames, IsPacker, riff
<1>3. CASE ~(Len(f.cells) < f.len)
  <2>1. WavSplit(p, f, riff) = PiecesOf(q, f, riff, seq)
    BY <1>3 DEF WavSplit, PiecesOf, PieceCount
  <2>2. Kin(p, q)
    BY FlushKin
  <2>3. IsSeq(seq)
    BY <1>1, NumberedIsSeq
  <2> HIDE DEF q, seq
  <2>4. Kin(q, PiecesOf(q, f, riff, seq))
    BY <2>2, <2>3, PiecesKin DEF Kin
  <2> QED BY <2>1, <2>2, <2>4, KinOfKin DEF riff
<1> QED BY <1>2, <1>3

\* A file gets its size when it has been read.
Sized(fs, n, size) == [fs EXCEPT ![n].size = size]

LEMMA SizedSameNames ==
    ASSUME NEW fs, AreEntries(fs), NEW n, n = Len(fs), NEW size
    PROVE  SameNames(fs, Sized(fs, n, size))
<1> DEFINE gs == Sized(fs, n, size)
           new(i) == [fs[i] EXCEPT !.size = size]
<1>1. Len(fs) \in Nat /\ fs = [i \in 1..Len(fs) |-> fs[i]]
  BY SeqFacts DEF AreEntries
<1>2. gs = [i \in 1..Len(fs) |-> IF i = n THEN new(i) ELSE fs[i]]
  BY <1>1 DEF Sized
<1>3. IsSeq(gs) /\ Len(gs) = Len(fs)
  <2> DEFINE hs == [i \in 1..Len(fs) |-> IF i = n THEN new(i) ELSE fs[i]]
  <2>1. hs = [i \in 1..Len(fs) |-> hs[i]]
    OBVIOUS
  <2> HIDE DEF hs
  <2>2. IsSeq(hs) /\ Len(hs) = Len(fs)
    BY <1>1, <2>1, IsSeqByLength
  <2> QED BY <1>2, <2>2 DEF hs
<1>4. ASSUME NEW i \in 1..Len(fs)
      PROVE  IsEntry(new(i)) /\ new(i).path = fs[i].path /\ new(i).dir = fs[i].dir
  BY DEF AreEntries, IsEntry, EntryFields
<1>5. ASSUME NEW i \in 1..Len(fs)
      PROVE  /\ IsEntry(gs[i]) /\ gs[i].path = fs[i].path /\ gs[i].dir = fs[i].dir
             /\ i < Len(fs) => gs[i].size = fs[i].size
  <2>1. gs[i] = IF i = n THEN new(i) ELSE fs[i]
    BY <1>2
  <2>2. i < Len(fs) => i # n
    BY <1>1
  <2> HIDE DEF gs, new
  <2> QED BY <1>4, <2>1, <2>2 DEF AreEntries
<1> HIDE DEF gs
<1> QED BY <1>3, <1>5 DEF SameNames, AreEntries, gs

Finished(p, n, size) == [p EXCEPT !.current = Refused, !.files[n].size = size]

LEMMA SizedKin ==
    ASSUME NEW p, IsPacker(p), NEW n, n = Len(p.files), NEW size
    PROVE  Kin(p, Finished(p, n, size))
<1> DEFINE q == Finished(p, n, size)
<1>1. /\ q = [x \in PackerFields |-> q[x]]
      /\ q.tier = p.tier /\ q.claims = p.claims /\ q.warned = p.warned
      /\ q.pending = p.pending /\ q.files = Sized(p.files, n, size)
  BY DEF IsPacker, PackerFields, Sized, Finished
<1> HIDE DEF q
<1>2. SameNames(p.files, q.files)
  BY <1>1, SizedSameNames DEF IsPacker
<1>3. Kin(p, q)
  BY <1>1, <1>2 DEF Kin, SameNames, IsPacker
<1> QED BY <1>3 DEF q

LEMMA OpenedKin ==
    ASSUME NEW p, IsPacker(p), NEW f, NEW plan
    PROVE  Kin(p, Classed(Opened(p, f, plan), f, plan))
<1> DEFINE q == Opened(p, f, plan)
           r == Classed(q, f, plan)
<1>1. Kin(p, q)
  BY FlushKin, KinToItself DEF Opened
<1> HIDE DEF q
<1>2. /\ r = [x \in PackerFields |-> r[x]]
      /\ r.tier = q.tier /\ r.claims = q.claims /\ r.warned = q.warned
      /\ r.pending = q.pending /\ r.files = q.files
  BY <1>1 DEF Classed, Kin, IsPacker, PackerFields
<1> HIDE DEF r
<1>3. Kin(q, r)
  BY <1>1, <1>2 DEF Kin, SameNames, IsPacker
<1> QED BY <1>1, <1>3, KinOfKin DEF q, r

LEMMA OneItem == ASSUME NEW c PROVE IsSeq(<<c>>) /\ Len(<<c>>) = 1 /\ <<c>>[1] = c
<1>1. <<c>> \in Seq({c})
  OBVIOUS
<1> QED BY <1>1, IsSeqOf

\* What a file is cut into before it is placed.
ItemsOf(f) == IF ReadWhole(f) THEN <<f.cells>> ELSE ChunksOf(Chunks(f.cells))

LEMMA ItemsAreSeq == ASSUME NEW f, IsFile(f) PROVE IsSeq(ItemsOf(f))
<1>1. IsSeq(f.cells)
  BY IsSeqOf DEF IsFile
<1>2. Slices(ChunksOf(Chunks(f.cells)), f.cells, Len(f.cells))
  BY <1>1, ChunksAreSlices
<1> QED BY <1>2, OneItem DEF ItemsOf, Slices

LEMMA AddOpenedKin ==
    ASSUME NEW p, IsPacker(p), NEW f, IsFile(f), NEW plan
    PROVE  Kin(p, AddOpened(p, f, plan))
<1>1. CASE Splits(f)
  <2> DEFINE q == WavSplit(p, f, LookOf(f.cells).riff)
  <2>1. Kin(p, q)
    BY <1>1, WavSplitKin
  <2>2. AddOpened(p, f, plan) = Finished(q, Len(p.files), f.len)
    BY <1>1 DEF AddOpened, Finished
  <2> HIDE DEF q
  <2>3. Kin(q, AddOpened(p, f, plan))
    <3>1. IsPacker(q) /\ Len(p.files) = Len(q.files)
      BY <2>1 DEF Kin, SameNames
    <3> QED BY <2>2, <3>1, SizedKin
  <2> QED BY <2>1, <2>3, KinOfKin
<1>2. CASE ~Splits(f)
  <2> DEFINE q == PlacedAll(p, Len(p.files), ItemsOf(f))
             r == IF Alone(f, plan) THEN Flush(q, "Solo") ELSE q
  <2>1. Kin(p, q)
    BY ItemsAreSeq, PlacedAllKin
  <2>2. AddOpened(p, f, plan) = Finished(r, Len(q.files), Len(f.cells))
    BY <1>2 DEF AddOpened, Done, ItemsOf, Finished
  <2> HIDE DEF q
  <2>3. Kin(q, r)
    BY <2>1, FlushKin, KinToItself DEF Kin
  <2> HIDE DEF r
  <2>4. Kin(r, AddOpened(p, f, plan))
    <3>1. IsPacker(r) /\ Len(q.files) = Len(r.files)
      BY <2>3 DEF Kin, SameNames
    <3> QED BY <2>2, <3>1, SizedKin
  <2> QED BY <2>1, <2>3, <2>4, KinOfKin
<1> QED BY <1>1, <1>2

LEMMA AddFileKin ==
    ASSUME NEW p, NEW f, IsFile(f), IsPacker(Listed(p, f))
    PROVE  Kin(Listed(p, f), AddFile(p, f))
<1> DEFINE q == Listed(p, f)
           plan == FilePlan(f, p.tier)
           r == Classed(Opened(q, f, plan), f, plan)
<1>1. CASE f.len = 0
  BY <1>1, KinToItself DEF AddFile
<1>2. CASE f.len # 0
  <2>1. AddFile(p, f) = AddOpened(r, f, plan)
    BY <1>2 DEF AddFile, AddPlanned
  <2> HIDE DEF q, plan
  <2>2. Kin(q, r)
    BY OpenedKin DEF q
  <2> HIDE DEF r
  <2>3. Kin(r, AddOpened(r, f, plan))
    BY <2>2, AddOpenedKin DEF Kin
  <2> QED BY <2>1, <2>2, <2>3, KinOfKin DEF q
<1> QED BY <1>1, <1>2

LEMMA MaxIsIn ==
    ASSUME NEW n \in Nat, NEW s, s \subseteq 1..n, s # {}
    PROVE  Max(s) \in s /\ \A y \in s : Max(s) >= y
<1> DEFINE T == { k \in Nat : n - k \in s }
<1>1. T # {}
  <2>1. PICK x : x \in s
    OBVIOUS
  <2>2. n - x \in Nat /\ n - (n - x) = x
    BY <2>1
  <2> QED BY <2>1, <2>2
<1>2. PICK k \in T : \A y \in T : k <= y
  BY <1>1, LeastOf
<1>3. \A y \in s : n - k >= y
  <2> SUFFICES ASSUME NEW y \in s PROVE n - k >= y
    OBVIOUS
  <2>1. n - y \in Nat /\ n - (n - y) = y
    OBVIOUS
  <2>2. k <= n - y
    BY <1>2, <2>1
  <2> QED BY <1>2, <2>2
<1>4. n - k \in s
  BY <1>2
<1> QED BY <1>3, <1>4 DEF Max


----------------------------------------------------------------------------
(* What the writer's records and remove make of the entries.                 *)

PathsOf(fs) == { fs[i].path : i \in 1..Len(fs) }
OnePathOnce(fs) == \A i, j \in 1..Len(fs) : fs[i].path = fs[j].path => i = j

\* The entries after the first n of the new ones: "Entries with the same archive path are
\* replaced", the last one wins.
LastWins(old, entries, n, fs) ==
    /\ AreEntries(fs) /\ OnePathOnce(fs)
    /\ PathsOf(fs) = PathsOf(old) \cup { entries[m].path : m \in 1..n }
    /\ \A i \in 1..Len(fs) :
          \/ \E j \in 1..n : /\ fs[i] = entries[j]
                             /\ \A m \in (j + 1)..n : entries[m].path # entries[j].path
          \/ \E j \in 1..Len(old) : /\ fs[i] = old[j]
                                    /\ \A m \in 1..n : entries[m].path # old[j].path

\* An entry takes the place of the one with its path, or the place after the last.
LEMMA ReplaceOneFacts ==
    ASSUME NEW fs, AreEntries(fs), OnePathOnce(fs), NEW e, IsEntry(e)
    PROVE  LET gs == ReplaceOne(fs, e)
           IN  /\ AreEntries(gs) /\ OnePathOnce(gs)
               /\ PathsOf(gs) = PathsOf(fs) \cup {e.path}
               /\ \A i \in 1..Len(gs) :
                     gs[i] = e \/ (i \in 1..Len(fs) /\ gs[i] = fs[i] /\ fs[i].path # e.path)
<1> DEFINE gs == ReplaceOne(fs, e)
<1>1. /\ Len(fs) \in Nat /\ DOMAIN fs = 1..Len(fs) /\ IsSeq(fs)
      /\ \A i \in 1..Len(fs) : IsEntry(fs[i])
  BY SeqFacts DEF AreEntries
<1>2. CASE \E i \in 1..Len(fs) : fs[i].path = e.path
  <2> DEFINE hs == [i \in 1..Len(fs) |-> IF fs[i].path = e.path THEN e ELSE fs[i]]
  <2>1. /\ hs = [i \in 1..Len(fs) |-> hs[i]]
        /\ \A i \in 1..Len(fs) : hs[i] = IF fs[i].path = e.path THEN e ELSE fs[i]
    OBVIOUS
  <2>2. gs = hs
    BY <1>1, <1>2 DEF ReplaceOne
  <2> HIDE DEF hs
  <2>3. IsSeq(hs) /\ Len(hs) = Len(fs)
    BY <1>1, <2>1, IsSeqByLength
  <2>4. \A i \in 1..Len(fs) : hs[i].path = fs[i].path /\ IsEntry(hs[i])
    BY <1>1, <2>1
  <2>5. AreEntries(hs) /\ OnePathOnce(hs)
    BY <2>3, <2>4 DEF AreEntries, OnePathOnce
  <2>6. PathsOf(hs) = PathsOf(fs) \cup {e.path}
    BY <1>2, <2>3, <2>4 DEF PathsOf
  <2> HIDE DEF gs
  <2> QED BY <2>1, <2>2, <2>3, <2>5, <2>6 DEF gs
<1>3. CASE ~ \E i \in 1..Len(fs) : fs[i].path = e.path
  <2>1. gs = Append(fs, e)
    BY <1>1, <1>3 DEF ReplaceOne
  <2> HIDE DEF gs
  <2>2. /\ IsSeq(gs) /\ Len(gs) = Len(fs) + 1 /\ gs[Len(fs) + 1] = e
        /\ \A i \in 1..Len(fs) : gs[i] = fs[i]
    BY <1>1, <2>1, AppendAny
  <2>3. \A i \in 1..Len(gs) : i \in 1..Len(fs) \/ i = Len(fs) + 1
    BY <1>1, <2>2
  <2>4. AreEntries(gs)
    BY <1>1, <2>2, <2>3 DEF AreEntries
  <2>5. OnePathOnce(gs)
    BY <1>3, <2>2, <2>3 DEF OnePathOnce
  <2>6. PathsOf(gs) = PathsOf(fs) \cup {e.path}
    <3>1. Len(fs) + 1 \in 1..Len(gs) /\ \A i \in 1..Len(fs) : i \in 1..Len(gs)
      BY <1>1, <2>2
    <3> QED BY <2>2, <2>3, <3>1 DEF PathsOf
  <2> QED BY <1>3, <2>2, <2>3, <2>4, <2>5, <2>6 DEF gs
<1> QED BY <1>2, <1>3, <1>1

LEMMA ReplacedFacts ==
    ASSUME NEW old, AreEntries(old), OnePathOnce(old), NEW entries, AreEntries(entries)
    PROVE  LastWins(old, entries, Len(entries), Replaced(old, entries))
<1>1. PICK g : /\ IsRun(g, "replace", 0, old, entries)
               /\ g[Len(entries)] = Replaced(old, entries)
  BY ReplacedRuns DEF AreEntries
<1>2. Len(entries) \in Nat
  BY SeqFacts DEF AreEntries
<1> DEFINE T == { k \in Nat : k <= Len(entries) => LastWins(old, entries, k, g[k]) }
<1>3. 0 \in T
  <2>1. g[0] = old
    BY <1>1 DEF IsRun
  <2>2. LastWins(old, entries, 0, old)
    BY DEF LastWins
  <2> QED BY <2>1, <2>2
<1>4. ASSUME NEW k \in Nat, k \in T PROVE k + 1 \in T
  <2> SUFFICES ASSUME k + 1 <= Len(entries) PROVE LastWins(old, entries, k + 1, g[k + 1])
    OBVIOUS
  <2>1. k \in 0..(Len(entries) - 1) /\ k + 1 \in 1..Len(entries) /\ LastWins(old, entries, k, g[k])
    BY <1>2, <1>4
  <2> DEFINE fs == g[k]
             gs == g[k + 1]
             e == entries[k + 1]
  <2>2. gs = ReplaceOne(fs, e)
    BY <1>1, <2>1 DEF IsRun, OneStep
  <2>3. IsEntry(e)
    BY <2>1 DEF AreEntries
  <2> HIDE DEF fs, gs
  <2>4. AreEntries(fs) /\ OnePathOnce(fs)
    BY <2>1 DEF LastWins, fs
  <2>5. /\ AreEntries(gs) /\ OnePathOnce(gs)
        /\ PathsOf(gs) = PathsOf(fs) \cup {e.path}
        /\ \A i \in 1..Len(gs) :
              gs[i] = e \/ (i \in 1..Len(fs) /\ gs[i] = fs[i] /\ fs[i].path # e.path)
    <3> HIDE DEF e
    <3> QED BY <2>2, <2>3, <2>4, ReplaceOneFacts
  <2>6. \A m : m \in 1..(k + 1) <=> m \in 1..k \/ m = k + 1
    OBVIOUS
  <2>7. PathsOf(gs) = PathsOf(old) \cup { entries[m].path : m \in 1..(k + 1) }
    <3>1. PathsOf(fs) = PathsOf(old) \cup { entries[m].path : m \in 1..k }
      BY <2>1 DEF LastWins, fs
    <3> QED BY <2>5, <2>6, <3>1
  <2>8. ASSUME NEW i \in 1..Len(gs)
        PROVE  \/ \E j \in 1..(k + 1) : /\ gs[i] = entries[j]
                                        /\ \A m \in (j + 1)..(k + 1) : entries[m].path # entries[j].path
               \/ \E j \in 1..Len(old) : /\ gs[i] = old[j]
                                         /\ \A m \in 1..(k + 1) : entries[m].path # old[j].path
    <3>1. CASE gs[i] = e
      <4>1. k + 1 \in 1..(k + 1) /\ (k + 1 + 1)..(k + 1) = {}
        OBVIOUS
      <4> QED BY <3>1, <4>1
    <3>2. CASE gs[i] # e
      <4>1. i \in 1..Len(fs) /\ gs[i] = fs[i] /\ fs[i].path # e.path
        BY <2>5, <3>2
      <4>2. CASE \E j \in 1..k : /\ fs[i] = entries[j]
                                 /\ \A m \in (j + 1)..k : entries[m].path # entries[j].path
        <5>1. PICK j \in 1..k : /\ fs[i] = entries[j]
                                /\ \A m \in (j + 1)..k : entries[m].path # entries[j].path
          BY <4>2
        <5>2. j \in 1..(k + 1) /\ \A m \in (j + 1)..(k + 1) : m \in (j + 1)..k \/ m = k + 1
          OBVIOUS
        <5> QED BY <4>1, <5>1, <5>2
      <4>3. CASE \E j \in 1..Len(old) : /\ fs[i] = old[j]
                                        /\ \A m \in 1..k : entries[m].path # old[j].path
        BY <2>6, <4>1, <4>3
      <4> QED BY <2>1, <4>1, <4>2, <4>3 DEF LastWins, fs
    <3> QED BY <3>1, <3>2
  <2> QED BY <2>5, <2>7, <2>8 DEF LastWins, gs
<1> HIDE DEF T
<1>5. Len(entries) \in T
  BY <1>2, <1>3, <1>4, Counting
<1> QED BY <1>1, <1>5 DEF T

\* What is left of the first n entries.
LeftOf(entries, n, fs) ==
    /\ AreEntries(fs) /\ OnePathOnce(fs)
    /\ \A i \in 1..Len(fs) : \E j \in 1..n : fs[i] = entries[j]

LEMMA LeftFacts ==
    ASSUME NEW selection, NEW entries, AreEntries(entries), OnePathOnce(entries)
    PROVE  LeftOf(entries, Len(entries), NotUnder(selection, entries))
<1>1. PICK g : /\ IsRun(g, "leave", selection, <<>>, entries)
               /\ g[Len(entries)] = NotUnder(selection, entries)
  BY LeftRuns DEF AreEntries
<1>2. Len(entries) \in Nat
  BY SeqFacts DEF AreEntries
<1> DEFINE T == { k \in Nat : k <= Len(entries) => LeftOf(entries, k, g[k]) }
<1>3. 0 \in T
  <2>1. LeftOf(entries, 0, <<>>)
    BY EmptyIsSeq DEF LeftOf, AreEntries, OnePathOnce
  <2> QED BY <1>1, <2>1 DEF IsRun
<1>4. ASSUME NEW k \in Nat, k \in T PROVE k + 1 \in T
  <2> SUFFICES ASSUME k + 1 <= Len(entries) PROVE LeftOf(entries, k + 1, g[k + 1])
    OBVIOUS
  <2> DEFINE fs == g[k]
             gs == g[k + 1]
             e == entries[k + 1]
  <2>1. k \in 0..(Len(entries) - 1) /\ k + 1 \in 1..Len(entries) /\ LeftOf(entries, k, fs)
    BY <1>2, <1>4
  <2>2. gs = LeaveOne(selection, fs, e)
    BY <1>1, <2>1 DEF IsRun, OneStep
  <2>3. IsEntry(e)
    BY <2>1 DEF AreEntries
  <2>4. \A m : m \in 1..k => m \in 1..(k + 1) /\ m \in 1..Len(entries) /\ m # k + 1
    BY <2>1, <1>2
  <2> HIDE DEF fs, gs
  <2>5. CASE gs = fs
    BY <2>1, <2>4, <2>5 DEF LeftOf, gs
  <2>6. CASE gs = Append(fs, e)
    <3>1. AreEntries(fs) /\ OnePathOnce(fs) /\ Len(fs) \in Nat
      BY <2>1, SeqFacts DEF LeftOf, AreEntries
    <3>2. /\ IsSeq(gs) /\ Len(gs) = Len(fs) + 1 /\ gs[Len(fs) + 1] = e
          /\ \A i \in 1..Len(fs) : gs[i] = fs[i]
      <4> HIDE DEF e
      <4> QED BY <2>6, <3>1, AppendAny DEF AreEntries
    <3>3. \A i \in 1..Len(gs) : i \in 1..Len(fs) \/ i = Len(fs) + 1
      BY <3>1, <3>2
    <3>4. AreEntries(gs)
      BY <2>3, <3>1, <3>2, <3>3 DEF AreEntries
    <3>5. \A i \in 1..Len(fs) : fs[i].path # e.path
      <4> SUFFICES ASSUME NEW i \in 1..Len(fs), fs[i].path = e.path PROVE FALSE
        OBVIOUS
      <4>1. PICK j \in 1..k : fs[i] = entries[j]
        BY <2>1 DEF LeftOf
      <4> QED BY <2>1, <2>4, <4>1 DEF OnePathOnce
    <3>6. OnePathOnce(gs)
      BY <3>1, <3>2, <3>3, <3>5 DEF OnePathOnce
    <3>7. \A i \in 1..Len(gs) : \E j \in 1..(k + 1) : gs[i] = entries[j]
      <4>1. k + 1 \in 1..(k + 1)
        OBVIOUS
      <4> QED BY <2>1, <2>4, <3>2, <3>3, <4>1 DEF LeftOf
    <3> QED BY <3>4, <3>6, <3>7 DEF LeftOf, gs
  <2> QED BY <2>2, <2>5, <2>6 DEF LeaveOne
<1> HIDE DEF T
<1>5. Len(entries) \in T
  BY <1>2, <1>3, <1>4, Counting
<1> QED BY <1>1, <1>5 DEF T

----------------------------------------------------------------------------
(* The directories that the walk comes through.                              *)

IsWork(work) == IsSeq(work) /\ \A k \in 1..Len(work) : IsFile(work[k])

LEMMA SeqOfSet ==
    ASSUME NEW S, IsFiniteSet(S)
    PROVE  IsSeq(SetToSeq(S))
<1>1. PICK n \in Nat : ExistsBijection(1..n, S)
  BY FS_NatBijection
<1>2. Cardinality(S) = n
  BY <1>1, FS_CountingElements
<1>3. PICK f : f \in Bijection(1..n, S)
  BY <1>1 DEF ExistsBijection
<1>4. f \in [1..Cardinality(S) -> S] /\ IsInjective(f)
  BY <1>2, <1>3 DEF Bijection, Injection
<1>5. SetToSeq(S) \in [1..n -> S]
  BY <1>2, <1>4 DEF SetToSeq
<1>6. SetToSeq(S) = [i \in 1..n |-> SetToSeq(S)[i]]
  BY <1>5
<1> QED BY <1>6, IsSeqByLength

LEMMA DirsAreEntries ==
    ASSUME NEW work, IsWork(work)
    PROVE  LET dirs == [k \in DOMAIN DirsOf(work) |-> DirEntry(DirsOf(work)[k])]
           IN  AreEntries(dirs) /\ \A k \in 1..Len(dirs) : dirs[k].dir
<1> DEFINE Above(k) == { SubSeq(work[k].path, 1, n) : n \in 1..(Len(work[k].path) - 1) }
           S == { Above(k) : k \in DOMAIN work }
           seq == DirsOf(work)
           dirs == [k \in DOMAIN seq |-> DirEntry(seq[k])]
<1>1. Len(work) \in Nat /\ DOMAIN work = 1..Len(work)
  BY SeqFacts DEF IsWork
<1>2. ASSUME NEW k \in 1..Len(work) PROVE IsFiniteSet(Above(k))
  <2> DEFINE m == Len(work[k].path) - 1
             N == 1..m
             f == [n \in N |-> SubSeq(work[k].path, 1, n)]
  <2>1. m \in Int
    BY DEF IsWork, IsFile
  <2>2. IsFiniteSet(N)
    <3> HIDE DEF m
    <3> QED BY <2>1, FS_Interval
  <2>3. f \in Surjection(N, Above(k))
    BY DEF Surjection
  <2> HIDE DEF N, f, Above
  <2> QED BY <2>2, <2>3, FS_Surjection
<1>3. IsFiniteSet(S)
  <2> DEFINE f == [k \in 1..Len(work) |-> Above(k)]
  <2>1. f \in Surjection(1..Len(work), S)
    <3> HIDE DEF Above
    <3> QED BY <1>1 DEF Surjection
  <2>2. IsFiniteSet(1..Len(work))
    BY <1>1, FS_Interval
  <2> HIDE DEF f, S
  <2> QED BY <2>1, <2>2, FS_Surjection
<1>4. \A X \in S : IsFiniteSet(X)
  <2> HIDE DEF Above
  <2> QED BY <1>1, <1>2
<1>5. IsSeq(seq)
  <2>1. seq = SetToSeq(UNION S)
    BY DEF DirsOf
  <2> HIDE DEF S, seq
  <2> QED BY <1>3, <1>4, <2>1, FS_UNION, SeqOfSet
<1> HIDE DEF seq
<1>6. Len(seq) \in Nat /\ DOMAIN seq = 1..Len(seq)
  BY <1>5, SeqFacts
<1>7. /\ dirs = [k \in 1..Len(seq) |-> dirs[k]]
      /\ \A k \in 1..Len(seq) : dirs[k] = DirEntry(seq[k])
  BY <1>6
<1>8. \A x : IsEntry(DirEntry(x)) /\ DirEntry(x).dir
  BY DEF IsEntry, EntryFields, DirEntry
<1> HIDE DEF dirs
<1>9. IsSeq(dirs) /\ Len(dirs) = Len(seq)
  BY <1>6, <1>7, IsSeqByLength
<1>10. AreEntries(dirs) /\ \A k \in 1..Len(dirs) : dirs[k].dir
  BY <1>7, <1>8, <1>9 DEF AreEntries
<1> QED BY <1>10 DEF dirs, seq

----------------------------------------------------------------------------
(* note_case_collision: what the packer knows of the names.                  *)

\* Every name of the archive is claimed by one of its entries, and what is listed either
\* claims its own or was warned of.
NamesAreKnown(p, old) ==
    /\ \A i \in 1..Len(old) :
          /\ CollisionKey(old[i].path) \in DOMAIN p.claims
          /\ p.claims[CollisionKey(old[i].path)] \in PathsOf(old)
    /\ \A k \in 1..Len(p.files) :
          \/ CollisionKey(p.files[k].path) \in p.warned
          \/ /\ CollisionKey(p.files[k].path) \in DOMAIN p.claims
             /\ p.claims[CollisionKey(p.files[k].path)] = p.files[k].path

LEMMA KinKnowsNames ==
    ASSUME NEW p, NEW q, NEW old, NamesAreKnown(p, old), Kin(p, q)
    PROVE  NamesAreKnown(q, old)
  BY DEF NamesAreKnown, Kin, SameNames

LEMMA ListedKnowsNames ==
    ASSUME NEW p, IsPacker(p), NEW f, NEW old, NamesAreKnown(p, old)
    PROVE  IsPacker(Listed(p, f)) /\ NamesAreKnown(Listed(p, f), old)
<1> DEFINE key == CollisionKey(f.path)
           taken == key \in DOMAIN p.claims
           e == [path |-> f.path, size |-> f.len, dir |-> FALSE, extents |-> <<>>]
           q == Listed(p, f)
<1>1. /\ q = [x \in PackerFields |-> q[x]]
      /\ q.pending = p.pending /\ q.files = Append(p.files, e)
      /\ q.warned = IF taken /\ p.claims[key] # f.path THEN p.warned \cup {key} ELSE p.warned
      /\ q.claims = IF taken THEN p.claims
                    ELSE [c \in DOMAIN p.claims \cup {key} |->
                             IF c = key THEN f.path ELSE p.claims[c]]
  <2> HIDE DEF e
  <2> QED BY DEF Listed, IsPacker, PackerFields, e
<1>2. IsEntry(e) /\ e.path = f.path
  BY DEF IsEntry, EntryFields
<1> HIDE DEF e, q
<1>3. /\ IsSeq(q.files) /\ Len(q.files) = Len(p.files) + 1 /\ q.files[Len(p.files) + 1] = e
      /\ \A k \in 1..Len(p.files) : q.files[k] = p.files[k]
  <2>1. IsSeq(p.files)
    BY DEF IsPacker, AreEntries
  <2> DEFINE fs == p.files
             gs == Append(fs, e)
  <2> HIDE DEF fs
  <2>2. IsSeq(fs)
    BY <2>1 DEF fs
  <2>3. /\ IsSeq(gs) /\ Len(gs) = Len(fs) + 1 /\ gs[Len(fs) + 1] = e
        /\ \A k \in 1..Len(fs) : gs[k] = fs[k]
    BY <2>2, AppendAny
  <2> HIDE DEF gs
  <2>4. q.files = gs
    BY <1>1 DEF gs, fs
  <2> QED BY <2>3, <2>4 DEF fs
<1>4. \A k \in 1..Len(q.files) : k \in 1..Len(p.files) \/ k = Len(p.files) + 1
  BY <1>3, SeqFacts DEF IsPacker, AreEntries
<1>5. IsPacker(q)
  <2>1. AreEntries(q.files)
    BY <1>2, <1>3, <1>4 DEF IsPacker, AreEntries
  <2> QED BY <1>1, <2>1 DEF IsPacker
<1>6. \A c \in DOMAIN p.claims : c \in DOMAIN q.claims /\ q.claims[c] = p.claims[c]
  <2> HIDE DEF key
  <2> QED BY <1>1
<1>7. p.warned \subseteq q.warned
  <2> HIDE DEF key
  <2> QED BY <1>1
<1>8. key \in q.warned \/ (key \in DOMAIN q.claims /\ q.claims[key] = f.path)
  <2> HIDE DEF key
  <2> QED BY <1>1
<1> HIDE DEF taken
<1>9. ASSUME NEW k \in 1..Len(q.files)
      PROVE  \/ CollisionKey(q.files[k].path) \in q.warned
             \/ /\ CollisionKey(q.files[k].path) \in DOMAIN q.claims
                /\ q.claims[CollisionKey(q.files[k].path)] = q.files[k].path
  <2>1. CASE k \in 1..Len(p.files)
    <3>1. q.files[k] = p.files[k]
      BY <1>3, <2>1
    <3>2. \/ CollisionKey(p.files[k].path) \in p.warned
          \/ /\ CollisionKey(p.files[k].path) \in DOMAIN p.claims
             /\ p.claims[CollisionKey(p.files[k].path)] = p.files[k].path
      BY <2>1 DEF NamesAreKnown
    <3> QED BY <1>6, <1>7, <3>1, <3>2
  <2>2. CASE k = Len(p.files) + 1
    <3>1. q.files[k].path = f.path
      BY <1>2, <1>3, <2>2
    <3> QED BY <1>8, <3>1
  <2> QED BY <1>4, <2>1, <2>2
<1>10. NamesAreKnown(q, old)
  BY <1>6, <1>9 DEF NamesAreKnown
<1> QED BY <1>5, <1>10 DEF q

LEMMA AddFileKnowsNames ==
    ASSUME NEW p, IsPacker(p), NEW f, IsFile(f), NEW old, NamesAreKnown(p, old)
    PROVE  IsPacker(AddFile(p, f)) /\ NamesAreKnown(AddFile(p, f), old)
<1>1. IsPacker(Listed(p, f)) /\ NamesAreKnown(Listed(p, f), old)
  BY ListedKnowsNames
<1>2. Kin(Listed(p, f), AddFile(p, f))
  BY <1>1, AddFileKin
<1> QED BY <1>1, <1>2, KinKnowsNames DEF Kin

LEMMA NewPackerKnowsNames ==
    ASSUME AreEntries(files), NEW tier
    PROVE  LET p == NewPacker(tier, units, Claims)
           IN  IsPacker(p) /\ NamesAreKnown(p, files)
<1> DEFINE p == NewPacker(tier, units, Claims)
<1>1. p = [x \in PackerFields |-> p[x]] /\ p.files = <<>> /\ p.pending = <<>> /\ p.claims = Claims
  BY DEF NewPacker, PackerFields
<1> HIDE DEF p
<1>2. IsPacker(p)
  BY <1>1, EmptyIsSeq DEF IsPacker, AreEntries
<1>3. Len(files) \in Nat /\ DOMAIN files = 1..Len(files)
  BY SeqFacts DEF AreEntries
<1>4. ASSUME NEW i \in 1..Len(files)
      PROVE  /\ CollisionKey(files[i].path) \in DOMAIN Claims
             /\ Claims[CollisionKey(files[i].path)] \in PathsOf(files)
  <2> DEFINE key == CollisionKey(files[i].path)
             s == { k \in DOMAIN files : CollisionKey(files[k].path) = key }
  <2>1. i \in s /\ s \subseteq 1..Len(files)
    BY <1>3
  <2>2. key \in Keys
    BY <1>3 DEF Keys
  <2>3. Claims[key] = files[Max(s)].path /\ key \in DOMAIN Claims
    BY <2>2 DEF Claims
  <2> HIDE DEF s, key
  <2>4. Max(s) \in 1..Len(files)
    BY <1>3, <2>1, MaxIsIn
  <2> QED BY <2>3, <2>4 DEF PathsOf, key
<1>5. NamesAreKnown(p, files)
  BY <1>1, <1>4, EmptyIsSeq DEF NamesAreKnown
<1> QED BY <1>2, <1>5 DEF p

----------------------------------------------------------------------------
(* The invariant.                                                            *)

AddFields == {"on", "at", "work", "p"}
AddRuns ==
    /\ add = [x \in AddFields |-> add[x]]
    /\ IsWork(add.work) /\ IsPacker(add.p) /\ NamesAreKnown(add.p, files)

\* No path has two entries, and the add that runs knows whose each name is.
TreeInv ==
    /\ AreEntries(files) /\ OnePathOnce(files)
    /\ add.on => AddRuns

LEMMA InitTree == Init => TreeInv
  BY EmptyIsSeq DEF Init, Idle, TreeInv, AreEntries, OnePathOnce

\* The entries of the archive and of those the pair of files may consist.
Apart(fs, gs, known) ==
    \A i, j \in 1..Len(gs) :
        /\ i # j /\ ~gs[i].dir /\ ~gs[j].dir
        /\ CollisionKey(gs[i].path) = CollisionKey(gs[j].path)
        => \/ CollisionKey(gs[i].path) \in known
           \/ gs[i].path \in PathsOf(fs) /\ gs[j].path \in PathsOf(fs)

LEMMA BeginAddStep ==
    ASSUME TreeInv, BeginAdd
    PROVE  TreeInv' /\ Apart(files, files', warned')
<1> DEFINE p == NewPacker(Now.tier, units, Claims)
<1>1. AreEntries(files) /\ OnePathOnce(files) /\ files' = files
  BY DEF TreeInv, BeginAdd
<1>2. IsPacker(p) /\ NamesAreKnown(p, files)
  BY <1>1, NewPackerKnowsNames
<1>3. add' = [on |-> TRUE, at |-> 0, work |-> <<>>, p |-> p]
  BY DEF BeginAdd
<1> HIDE DEF p
<1>4. add' = [x \in AddFields |-> add'[x]] /\ add'.work = <<>> /\ add'.p = p
  BY <1>3 DEF AddFields
<1>5. IsWork(<<>>)
  BY EmptyIsSeq DEF IsWork
<1>6. AddRuns'
  BY <1>1, <1>2, <1>4, <1>5 DEF AddRuns
<1> QED BY <1>1, <1>6 DEF TreeInv, Apart, PathsOf

LEMMA TakeFileStep ==
    ASSUME TreeInv, NEW i \in DOMAIN Catalogue, TakeFile(i)
    PROVE  TreeInv' /\ Apart(files, files', warned')
<1> DEFINE f == Catalogue[i]
           p == add.p
<1>1. /\ AreEntries(files) /\ OnePathOnce(files) /\ files' = files
      /\ add = [x \in AddFields |-> add[x]]
      /\ IsWork(add.work) /\ IsPacker(p) /\ NamesAreKnown(p, files)
  BY DEF TreeInv, TakeFile, AddRuns
<1>2. IsFile(f)
  BY CatalogueAssumption DEF IsFile
<1>3. /\ add' = [x \in AddFields |-> add'[x]]
      /\ add'.work = Append(add.work, f) /\ add'.p = AddFile(p, f)
  <2> HIDE DEF f
  <2>1. add' = [add EXCEPT !.at = i, !.work = Append(@, f), !.p = AddFile(@, f)]
    BY DEF TakeFile, f
  <2> QED BY <1>1, <2>1 DEF AddFields
<1> HIDE DEF f, p
<1>4. IsPacker(AddFile(p, f)) /\ NamesAreKnown(AddFile(p, f), files)
  BY <1>1, <1>2, AddFileKnowsNames
<1>5. IsWork(Append(add.work, f))
  <2> DEFINE w == add.work
  <2>1. IsSeq(w) /\ \A k \in 1..Len(w) : IsFile(w[k])
    BY <1>1 DEF IsWork
  <2> HIDE DEF w
  <2>2. IsSeq(Append(w, f))
    BY <2>1, AppendAny
  <2>3. \A k \in 1..Len(Append(w, f)) : IsFile(Append(w, f)[k])
    <3>1. /\ Len(w) \in Nat /\ Len(Append(w, f)) = Len(w) + 1 /\ Append(w, f)[Len(w) + 1] = f
          /\ \A k \in 1..Len(w) : Append(w, f)[k] = w[k]
      BY <2>1, AppendAny, SeqFacts
    <3>2. \A k \in 1..Len(Append(w, f)) : k \in 1..Len(w) \/ k = Len(w) + 1
      BY <3>1
    <3> QED BY <1>2, <2>1, <3>1, <3>2
  <2> QED BY <2>2, <2>3 DEF IsWork, w
<1>6. AddRuns'
  BY <1>1, <1>3, <1>4, <1>5 DEF AddRuns
<1> QED BY <1>1, <1>6 DEF TreeInv, Apart, PathsOf

\* What a finished add leaves of the names.
LEMMA FinishAddStep ==
    ASSUME TreeInv, FinishAdd
    PROVE  TreeInv' /\ Apart(files, files', warned')
<1> DEFINE q == Flush(add.p, "End")
           dirs == [k \in DOMAIN DirsOf(add.work) |-> DirEntry(DirsOf(add.work)[k])]
           entries == dirs \o q.files
<1>1. /\ AreEntries(files) /\ OnePathOnce(files)
      /\ IsWork(add.work) /\ IsPacker(add.p) /\ NamesAreKnown(add.p, files)
  BY DEF TreeInv, FinishAdd, AddRuns
<1>2. Kin(add.p, q)
  BY <1>1, FlushKin
<1>3. NamesAreKnown(q, files) /\ AreEntries(q.files)
  <2> HIDE DEF q
  <2> QED BY <1>1, <1>2, KinKnowsNames DEF Kin, IsPacker
<1>4. AreEntries(dirs) /\ \A k \in 1..Len(dirs) : dirs[k].dir
  BY <1>1, DirsAreEntries
<1>5. ~add'.on
  BY DEF FinishAdd, Idle
<1>6. files' = Replaced(files, entries) /\ warned' = warned \cup q.warned
  BY DEF FinishAdd, Committed
<1> HIDE DEF q, dirs, entries
<1>7. /\ IsSeq(entries) /\ Len(entries) = Len(dirs) + Len(q.files)
      /\ \A k \in 1..Len(dirs) : entries[k] = dirs[k]
      /\ \A k \in 1..Len(q.files) : entries[Len(dirs) + k] = q.files[k]
  <2>1. IsSeq(dirs) /\ IsSeq(q.files)
    BY <1>3, <1>4 DEF AreEntries
  <2>2. IsSeq(dirs \o q.files)
    BY <2>1, ConcatAny
  <2> QED BY <2>1, <2>2, ConcatAny DEF entries
<1>8. Len(dirs) \in Nat /\ Len(q.files) \in Nat
  BY <1>3, <1>4, SeqFacts DEF AreEntries
<1>9. ASSUME NEW k \in 1..Len(entries)
      PROVE  \/ k \in 1..Len(dirs)
             \/ \E m \in 1..Len(q.files) : entries[k] = q.files[m]
  <2>1. k \notin 1..Len(dirs) => k - Len(dirs) \in 1..Len(q.files) /\ Len(dirs) + (k - Len(dirs)) = k
    BY <1>7, <1>8
  <2> QED BY <1>7, <2>1
<1>10. AreEntries(entries)
  BY <1>3, <1>4, <1>7, <1>9 DEF AreEntries
<1>11. LastWins(files, entries, Len(entries), files')
  BY <1>1, <1>6, <1>10, ReplacedFacts
<1>12. TreeInv'
  BY <1>5, <1>11 DEF TreeInv, LastWins
<1>13. ASSUME NEW i \in 1..Len(files'), ~files'[i].dir
       PROVE  \/ files'[i].path \in PathsOf(files)
              \/ \E m \in 1..Len(q.files) : files'[i] = q.files[m]
  <2>1. CASE \E k \in 1..Len(entries) : files'[i] = entries[k]
    <3>1. PICK k \in 1..Len(entries) : files'[i] = entries[k]
      BY <2>1
    <3>2. k \notin 1..Len(dirs)
      BY <1>4, <1>7, <1>13, <3>1
    <3> QED BY <1>9, <3>1, <3>2
  <2>2. CASE \E k \in 1..Len(files) : files'[i] = files[k]
    BY <2>2 DEF PathsOf
  <2> QED BY <1>11, <2>1, <2>2 DEF LastWins
<1>14. ASSUME NEW i \in 1..Len(files'), NEW j \in 1..Len(files'),
              i # j, ~files'[i].dir, ~files'[j].dir,
              CollisionKey(files'[i].path) = CollisionKey(files'[j].path),
              CollisionKey(files'[i].path) \notin warned',
              files'[i].path \notin PathsOf(files)
       PROVE  FALSE
  <2> DEFINE key == CollisionKey(files'[i].path)
  <2>1. PICK m \in 1..Len(q.files) : files'[i] = q.files[m]
    BY <1>13, <1>14
  <2>2. key \in DOMAIN q.claims /\ q.claims[key] = files'[i].path
    BY <1>3, <1>6, <1>14, <2>1 DEF NamesAreKnown
  <2>3. CASE files'[j].path \in PathsOf(files)
    <3>1. PICK k \in 1..Len(files) : files[k].path = files'[j].path
      BY <2>3 DEF PathsOf
    <3>2. q.claims[key] \in PathsOf(files)
      BY <1>3, <1>14, <3>1 DEF NamesAreKnown
    <3> QED BY <1>14, <2>2, <3>2
  <2>4. CASE \E k \in 1..Len(q.files) : files'[j] = q.files[k]
    <3>1. PICK k \in 1..Len(q.files) : files'[j] = q.files[k]
      BY <2>4
    <3>2. q.claims[key] = files'[j].path
      BY <1>3, <1>6, <1>14, <3>1 DEF NamesAreKnown
    <3>3. files'[i].path = files'[j].path
      BY <2>2, <3>2
    <3> QED BY <1>11, <1>14, <3>3 DEF LastWins, OnePathOnce
  <2> QED BY <1>13, <1>14, <2>3, <2>4
<1>15. Apart(files, files', warned')
  BY <1>14 DEF Apart
<1> QED BY <1>12, <1>15

LEMMA RenameStep ==
    ASSUME TreeInv, NEW from, NEW to, Rename(from, to)
    PROVE  TreeInv' /\ Apart(files, files', warned')
<1> DEFINE path(i) == Moved(files[i].path, from, to)
           new(i) == [files[i] EXCEPT !.path = path(i)]
<1>1. /\ AreEntries(files) /\ OnePathOnce(files) /\ ~add'.on
      /\ Len(files) \in Nat /\ DOMAIN files = 1..Len(files)
  BY SeqFacts DEF TreeInv, AreEntries, Rename, Edit
<1>2. files' = [i \in 1..Len(files) |-> new(i)]
  BY <1>1 DEF Rename
<1>3. ASSUME NEW i \in 1..Len(files)
      PROVE  IsEntry(new(i)) /\ new(i).path = path(i)
  <2> HIDE DEF path
  <2> QED BY <1>1 DEF AreEntries, IsEntry, EntryFields
<1>4. IsSeq(files') /\ Len(files') = Len(files)
  <2>1. files' = [i \in 1..Len(files) |-> files'[i]]
    <3> HIDE DEF new
    <3> QED BY <1>2
  <2> QED BY <1>1, <2>1, IsSeqByLength
<1>5. ASSUME NEW i \in 1..Len(files)
      PROVE  /\ files'[i].path = path(i) /\ IsEntry(files'[i])
             /\ ~Under(from, files[i].path) => path(i) = files[i].path
  <2>1. ~Under(from, files[i].path) => path(i) = files[i].path
    BY DEF Moved
  <2>2. files'[i] = new(i)
    BY <1>2
  <2> HIDE DEF new, path
  <2> QED BY <1>3, <2>1, <2>2
<1>6. ASSUME NEW i \in 1..Len(files), NEW j \in 1..Len(files), i # j, Under(from, files[i].path)
      PROVE  CollisionKey(path(i)) # CollisionKey(path(j))
  BY <1>1, <1>6 DEF Rename, NothingCollides
<1> HIDE DEF new, path
<1>7. OnePathOnce(files')
  <2> SUFFICES ASSUME NEW i \in 1..Len(files), NEW j \in 1..Len(files), path(i) = path(j), i # j
               PROVE  FALSE
    BY <1>4, <1>5 DEF OnePathOnce
  <2> QED BY <1>1, <1>5, <1>6 DEF OnePathOnce
<1>8. Apart(files, files', warned')
  <2> SUFFICES ASSUME NEW i \in 1..Len(files), NEW j \in 1..Len(files), i # j,
                      CollisionKey(path(i)) = CollisionKey(path(j))
               PROVE  path(i) \in PathsOf(files) /\ path(j) \in PathsOf(files)
    BY <1>4, <1>5 DEF Apart
  <2>1. ~Under(from, files[i].path) /\ ~Under(from, files[j].path)
    BY <1>6
  <2> QED BY <1>5, <2>1 DEF PathsOf
<1> QED BY <1>1, <1>4, <1>5, <1>7, <1>8 DEF TreeInv, AreEntries

LEMMA RemoveStep ==
    ASSUME TreeInv, NEW selection, RemovePaths(selection)
    PROVE  TreeInv' /\ Apart(files, files', warned')
<1>1. /\ AreEntries(files) /\ OnePathOnce(files) /\ ~add'.on
      /\ files' = NotUnder(selection, files)
  BY DEF TreeInv, RemovePaths, Edit
<1>2. LeftOf(files, Len(files), files')
  BY <1>1, LeftFacts
<1>3. \A i \in 1..Len(files') : files'[i].path \in PathsOf(files)
  BY <1>2 DEF LeftOf, PathsOf
<1> QED BY <1>1, <1>2, <1>3 DEF TreeInv, LeftOf, Apart

LEMMA CompactStep ==
    ASSUME TreeInv, Compact
    PROVE  TreeInv' /\ Apart(files, files', warned')
<1> DEFINE moved(i) == [k \in DOMAIN files[i].extents |-> Remapped(Live, files[i].extents[k])]
           new(i) == [files[i] EXCEPT !.extents = moved(i)]
<1>1. /\ AreEntries(files) /\ OnePathOnce(files) /\ ~add'.on
      /\ Len(files) \in Nat /\ DOMAIN files = 1..Len(files)
  BY SeqFacts DEF TreeInv, AreEntries, Compact, Edit
<1>2. files' = [i \in 1..Len(files) |-> new(i)]
  BY <1>1 DEF Compact, CompactTo
<1> HIDE DEF moved
<1>3. ASSUME NEW i \in 1..Len(files)
      PROVE  IsEntry(new(i)) /\ new(i).path = files[i].path
  BY <1>1 DEF AreEntries, IsEntry, EntryFields
<1> HIDE DEF new
<1>4. files' = [i \in 1..Len(files) |-> files'[i]] /\ \A i \in 1..Len(files) : files'[i] = new(i)
  BY <1>2
<1>5. IsSeq(files') /\ Len(files') = Len(files)
  BY <1>1, <1>4, IsSeqByLength
<1>6. \A i \in 1..Len(files) : IsEntry(files'[i]) /\ files'[i].path = files[i].path
  BY <1>3, <1>4
<1>7. AreEntries(files') /\ OnePathOnce(files')
  BY <1>1, <1>5, <1>6 DEF AreEntries, OnePathOnce
<1>8. \A i \in 1..Len(files') : files'[i].path \in PathsOf(files)
  BY <1>5, <1>6 DEF PathsOf
<1> QED BY <1>1, <1>7, <1>8 DEF TreeInv, Apart

LEMMA TreeStep ==
    ASSUME TreeInv, [Next]_vars
    PROVE  TreeInv' /\ Apart(files, files', warned')
<1>1. CASE BeginAdd
  BY <1>1, BeginAddStep
<1>2. CASE \E i \in DOMAIN Catalogue : add.on /\ i \in Now.files /\ TakeFile(i)
  BY <1>2, TakeFileStep
<1>3. CASE FinishAdd
  BY <1>3, FinishAddStep
<1>4. CASE AddFails
  BY <1>4 DEF AddFails, Idle, TreeInv, Apart, PathsOf
<1>5. CASE \E m \in Moves : Rename(m[1], m[2])
  BY <1>5, RenameStep
<1>6. CASE \E s \in Selections : RemovePaths(s)
  BY <1>6, RemoveStep
<1>7. CASE Compact
  BY <1>7, CompactStep
<1>8. CASE UNCHANGED vars
  BY <1>8 DEF vars, TreeInv, AddRuns, Apart, PathsOf
<1> QED BY <1>1, <1>2, <1>3, <1>4, <1>5, <1>6, <1>7, <1>8 DEF Next

THEOREM TreeInvHolds == Spec => []TreeInv
<1>1. TreeInv /\ [Next]_vars => TreeInv'
  BY TreeStep
<1> QED BY InitTree, <1>1, PTL DEF Spec

\* No path of the archive has two entries, whatever adds replaced, renames moved and
\* removals left (archive.rs: add_paths_with, rename, remove).
THEOREM NoPathTwice == Spec => []OnePathOnce(files)
<1>1. TreeInv => OnePathOnce(files)
  BY DEF TreeInv
<1> QED BY TreeInvHolds, <1>1, PTL

\* Two files whose names differ only in case come to be in the archive only with a warning,
\* or where entries of both names were there before (note_case_collision, rename).
THEOREM KeptApartHolds == Spec => KeptApart
<1> DEFINE Kept1 ==
      \A i, j \in DOMAIN files' :
          /\ i # j /\ ~files'[i].dir /\ ~files'[j].dir
          /\ CollisionKey(files'[i].path) = CollisionKey(files'[j].path)
          => \/ CollisionKey(files'[i].path) \in warned'
             \/ { files'[i].path, files'[j].path } \subseteq { files[k].path : k \in DOMAIN files }
<1>1. TreeInv /\ [Next]_vars => [Kept1]_vars
  <2> SUFFICES ASSUME TreeInv, [Next]_vars PROVE Kept1
    OBVIOUS
  <2>1. TreeInv' /\ Apart(files, files', warned')
    BY TreeStep
  <2>2. DOMAIN files = 1..Len(files) /\ DOMAIN files' = 1..Len(files')
    BY <2>1, SeqFacts DEF TreeInv, AreEntries
  <2>3. PathsOf(files) = { files[k].path : k \in DOMAIN files }
    BY <2>2 DEF PathsOf
  <2> QED BY <2>1, <2>2, <2>3 DEF Apart
<1>2. [][Kept1]_vars => KeptApart
  BY PTL DEF KeptApart
<1> HIDE DEF Kept1
<1> QED BY TreeInvHolds, <1>1, <1>2, PTL DEF Spec

----------------------------------------------------------------------------
(* What extents spell.                                                       *)

AreUnits(U) == IsSeq(U) /\ \A u \in 1..Len(U) : U[u].cells \in Seq(Nat)
Grows(U, V) == Len(U) <= Len(V) /\ \A u \in 1..Len(U) : V[u] = U[u]

IsWithin(x, data) == x.off \in Nat /\ x.len \in Nat /\ x.off + x.len <= Len(data)
IsExtent(U, x) ==
    /\ x = [unit |-> x.unit, off |-> x.off, len |-> x.len]
    /\ x.unit \in 1..Len(U) /\ IsWithin(x, U[x.unit].cells)
PieceOf(U, x) == CutOut(U[x.unit].cells, x)

\* s[k] is what the first k extents give, one after the other.
SpelledBy(U, xs, s) ==
    /\ s \in [0..Len(xs) -> Seq(Nat)] /\ s[0] = <<>>
    /\ \A k \in 0..(Len(xs) - 1) : s[k + 1] = s[k] \o PieceOf(U, xs[k + 1])

Spells(U, xs, cells) ==
    /\ IsSeq(xs) /\ \A k \in 1..Len(xs) : IsExtent(U, xs[k])
    /\ \E s : SpelledBy(U, xs, s) /\ s[Len(xs)] = cells

LEMMA CutIsCells ==
    ASSUME NEW data \in Seq(Nat), NEW x, IsWithin(x, data)
    PROVE  CutOut(data, x) \in Seq(Nat) /\ Len(CutOut(data, x)) = x.len
<1>1. /\ x.off + 1 \in Int /\ x.off + x.len \in Int
      /\ \A i \in (x.off + 1)..(x.off + x.len) : data[i] \in Nat
      /\ x.len \in Nat /\ x.off \in Nat
  BY DEF IsWithin
<1>2. /\ SubSeq(data, x.off + 1, x.off + x.len) \in Seq(Nat)
      /\ Len(SubSeq(data, x.off + 1, x.off + x.len)) =
            IF x.off + 1 <= x.off + x.len THEN (x.off + x.len) - (x.off + 1) + 1 ELSE 0
  BY <1>1, SubSeqProperties
<1>3. (IF x.off + 1 <= x.off + x.len THEN (x.off + x.len) - (x.off + 1) + 1 ELSE 0) = x.len
  BY <1>1
<1>4. Len(SubSeq(data, x.off + 1, x.off + x.len)) = x.len
  BY <1>2, <1>3
<1> QED BY <1>2, <1>4 DEF CutOut

LEMMA CutOfConcat ==
    ASSUME NEW data \in Seq(Nat), NEW more \in Seq(Nat), NEW x, IsWithin(x, data)
    PROVE  IsWithin(x, data \o more) /\ CutOut(data \o more, x) = CutOut(data, x)
<1>1. x.off \in Nat /\ x.len \in Nat /\ x.off + x.len <= Len(data)
  BY DEF IsWithin
<1>2. IsWithin(x, data \o more)
  <2> DEFINE both == data \o more
  <2>1. Len(both) = Len(data) + Len(more) /\ Len(data) \in Nat /\ Len(more) \in Nat
    BY ConcatProperties
  <2> HIDE DEF both
  <2>2. x.off + x.len <= Len(both)
    BY <1>1, <2>1
  <2> QED BY <1>1, <2>2 DEF IsWithin, both
<1>3. CASE x.len = 0
  <2>1. x.off + 1 \in Int /\ x.off + x.len \in Int /\ x.off + x.len < x.off + 1
    BY <1>1, <1>3
  <2>2. /\ SubSeq(data, x.off + 1, x.off + x.len) = <<>>
        /\ SubSeq(data \o more, x.off + 1, x.off + x.len) = <<>>
    BY <2>1, SubSeqEmpty
  <2> QED BY <1>2, <2>2 DEF CutOut
<1>4. CASE x.len # 0
  <2>1. x.off + 1 \in 1..Len(data) /\ x.off + x.len \in 1..Len(data)
    BY <1>1, <1>4
  <2>2. SubSeq(data \o more, x.off + 1, x.off + x.len) = SubSeq(data, x.off + 1, x.off + x.len)
    BY <2>1, SubSeqOfConcat1
  <2> QED BY <1>2, <2>2 DEF CutOut
<1> QED BY <1>3, <1>4

LEMMA CutAtEnd ==
    ASSUME NEW data \in Seq(Nat), NEW item \in Seq(Nat), NEW x,
           x.off = Len(data), x.len = Len(item)
    PROVE  IsWithin(x, data \o item) /\ CutOut(data \o item, x) = item
<1>1. Len(data) \in Nat /\ Len(item) \in Nat /\ Len(data \o item) = Len(data) + Len(item)
  BY ConcatProperties
<1>2. CASE item = <<>>
  <2>1. Len(item) = 0
    BY <1>2
  <2>2. SubSeq(data \o item, Len(data) + 1, Len(data) + Len(item)) = <<>>
    BY <1>1, <2>1, SubSeqEmpty
  <2> QED BY <1>1, <1>2, <2>2 DEF CutOut, IsWithin
<1>3. CASE item # <<>>
  <2>1. Len(item) # 0
    BY <1>3
  <2>2. /\ Len(data) + 1 \in (Len(data) + 1)..(Len(data) + Len(item))
        /\ Len(data) + Len(item) \in (Len(data) + 1)..(Len(data) + Len(item))
        /\ (Len(data) + 1) - Len(data) = 1 /\ (Len(data) + Len(item)) - Len(data) = Len(item)
    BY <1>1, <2>1
  <2>3. SubSeq(data \o item, Len(data) + 1, Len(data) + Len(item)) = SubSeq(item, 1, Len(item))
    BY <2>2, SubSeqOfConcat2
  <2> QED BY <1>1, <2>3, SubSeqFull DEF CutOut, IsWithin
<1> QED BY <1>2, <1>3

LEMMA SpellsNothing == ASSUME NEW U PROVE Spells(U, <<>>, <<>>)
<1> DEFINE s == [k \in 0..0 |-> <<>>]
<1>1. s \in [0..0 -> Seq(Nat)] /\ s[0] = <<>>
  OBVIOUS
<1> HIDE DEF s
<1>2. SpelledBy(U, <<>>, s)
  BY <1>1, EmptyIsSeq DEF SpelledBy
<1> QED BY <1>1, <1>2, EmptyIsSeq DEF Spells

LEMMA SpellsMore ==
    ASSUME NEW U, AreUnits(U), NEW xs, NEW cells, Spells(U, xs, cells), NEW x, IsExtent(U, x)
    PROVE  Spells(U, Append(xs, x), cells \o PieceOf(U, x))
<1> DEFINE ys == Append(xs, x)
           n == Len(xs)
<1>1. /\ IsSeq(ys) /\ Len(ys) = n + 1 /\ ys[n + 1] = x /\ n \in Nat
      /\ \A k \in 1..n : ys[k] = xs[k]
  BY AppendAny, SeqFacts DEF Spells
<1>2. PICK s : SpelledBy(U, xs, s) /\ s[n] = cells
  BY DEF Spells
<1>3. /\ s \in [0..n -> Seq(Nat)] /\ s[0] = <<>>
      /\ \A k \in 0..(n - 1) : s[k + 1] = s[k] \o PieceOf(U, xs[k + 1])
  BY <1>2 DEF SpelledBy
<1>4. PieceOf(U, x) \in Seq(Nat)
  BY CutIsCells DEF AreUnits, IsExtent, PieceOf
<1>5. cells \o PieceOf(U, x) \in Seq(Nat)
  BY <1>1, <1>2, <1>3, <1>4, ConcatProperties
<1> HIDE DEF ys, n
<1> DEFINE t == [k \in 0..n + 1 |-> IF k = n + 1 THEN cells \o PieceOf(U, x) ELSE s[k]]
<1>6. /\ t \in [0..n + 1 -> Seq(Nat)] /\ t[n + 1] = cells \o PieceOf(U, x)
      /\ \A k \in 0..n : t[k] = s[k]
  <2>1. \A k \in 0..n + 1 : k # n + 1 => k \in 0..n
    BY <1>1
  <2>2. n + 1 \in 0..n + 1 /\ \A k \in 0..n : k \in 0..n + 1 /\ k # n + 1
    BY <1>1
  <2> QED BY <1>3, <1>5, <2>1, <2>2
<1> HIDE DEF t
<1>7. ASSUME NEW k \in 0..n PROVE t[k + 1] = t[k] \o PieceOf(U, ys[k + 1])
  <2>1. CASE k = n
    BY <1>1, <1>2, <1>6, <2>1
  <2>2. CASE k # n
    <3>1. k \in 0..(n - 1) /\ k + 1 \in 1..n /\ k + 1 \in 0..n
      BY <1>1, <2>2
    <3> QED BY <1>1, <1>3, <1>6, <3>1
  <2> QED BY <2>1, <2>2
<1>8. (n + 1) - 1 = n /\ 0 \in 0..n
  BY <1>1
<1>9. SpelledBy(U, ys, t)
  BY <1>1, <1>3, <1>6, <1>7, <1>8 DEF SpelledBy
<1>10. \A k \in 1..Len(ys) : IsExtent(U, ys[k])
  <2>1. \A k \in 1..Len(ys) : k \in 1..n \/ k = n + 1
    BY <1>1
  <2> QED BY <1>1, <2>1 DEF Spells, n
<1>11. Spells(U, ys, cells \o PieceOf(U, x))
  BY <1>1, <1>6, <1>9, <1>10 DEF Spells
<1> QED BY <1>11 DEF ys

\* Units that are there stay as they are, whatever comes behind them.
LEMMA SpellsInMore ==
    ASSUME NEW U, NEW V, AreUnits(U), AreUnits(V), Grows(U, V),
           NEW xs, NEW cells, Spells(U, xs, cells)
    PROVE  Spells(V, xs, cells)
<1>1. ASSUME NEW x, IsExtent(U, x) PROVE IsExtent(V, x) /\ PieceOf(V, x) = PieceOf(U, x)
  <2>1. x.unit \in 1..Len(V) /\ V[x.unit] = U[x.unit]
    <3>1. Len(U) \in Nat /\ Len(V) \in Nat /\ Len(U) <= Len(V) /\ x.unit \in 1..Len(U)
      BY <1>1, SeqFacts DEF AreUnits, Grows, IsExtent
    <3> QED BY <3>1 DEF Grows
  <2> QED BY <1>1, <2>1 DEF IsExtent, PieceOf
<1>2. PICK s : SpelledBy(U, xs, s) /\ s[Len(xs)] = cells
  BY DEF Spells
<1>3. \A k \in 0..(Len(xs) - 1) : k + 1 \in 1..Len(xs)
  BY SeqFacts DEF Spells
<1>4. SpelledBy(V, xs, s)
  BY <1>1, <1>2, <1>3 DEF SpelledBy, Spells
<1> QED BY <1>1, <1>2, <1>4 DEF Spells

LEMMA SpelledIsCells ==
    ASSUME NEW U, NEW xs, NEW cells, Spells(U, xs, cells)
    PROVE  cells \in Seq(Nat)
<1>1. PICK s : SpelledBy(U, xs, s) /\ s[Len(xs)] = cells
  BY DEF Spells
<1>2. Len(xs) \in 0..Len(xs)
  BY SeqFacts DEF Spells
<1> QED BY <1>1, <1>2 DEF SpelledBy

----------------------------------------------------------------------------
(* What the packer owes: the extents that a file has and those it will have  *)
(* from the open unit spell what was read of it so far.                      *)

Taken(p, f, h, k) ==
    IF p.pending[k].file = f THEN h \o CutOut(p.buf, p.pending[k]) ELSE h

\* h[k] is what file f has after k of the pending extents.
DueBy(p, f, h) ==
    /\ h \in [0..Len(p.pending) -> Seq(Nat)]
    /\ \A k \in 0..(Len(p.pending) - 1) : h[k + 1] = Taken(p, f, h[k], k + 1)

Due(p, f, cells) ==
    \E h : /\ DueBy(p, f, h) /\ h[Len(p.pending)] = cells
           /\ Spells(p.units, p.files[f].extents, h[0])

Ready(p) ==
    /\ IsPacker(p) /\ AreUnits(p.units) /\ p.buf \in Seq(Nat)
    /\ \A k \in 1..Len(p.pending) :
          IsWithin(p.pending[k], p.buf) /\ p.pending[k].file \in 1..Len(p.files)

Owes(p, goal) == Ready(p) /\ \A f \in 1..Len(p.files) : Due(p, f, goal[f])

\* Nothing is open.
IsClean(p) == p.buf = <<>> /\ p.pending = <<>>

LEMMA AttachedSpells ==
    ASSUME NEW p, Ready(p), NEW V, AreUnits(V), Grows(p.units, V),
           NEW u \in 1..Len(V), V[u].cells = p.buf,
           NEW f \in 1..Len(p.files), NEW cells, Due(p, f, cells)
    PROVE  Spells(V, Attached(p.files, p.pending, u)[f].extents, cells)
<1> DEFINE n == Len(p.pending)
           fs == p.files
<1>1. /\ IsPacker(p) /\ AreUnits(p.units) /\ p.buf \in Seq(Nat)
      /\ \A k \in 1..n : IsWithin(p.pending[k], p.buf)
      /\ IsSeq(p.pending) /\ n \in Nat /\ AreEntries(fs)
  BY SeqFacts DEF Ready, IsPacker
<1>2. PICK h : DueBy(p, f, h) /\ h[n] = cells /\ Spells(p.units, fs[f].extents, h[0])
  BY DEF Due
<1>3. PICK g : IsRun(g, "attach", u, fs, p.pending) /\ g[n] = Attached(fs, p.pending, u)
  BY <1>1, AttachedRuns
<1> DEFINE T == { k \in Nat : k <= n => /\ SameNames(fs, g[k])
                                        /\ Spells(V, g[k][f].extents, h[k]) }
<1> HIDE DEF fs
<1>4. 0 \in T
  <2>1. Spells(V, fs[f].extents, h[0])
    BY <1>1, <1>2, SpellsInMore
  <2> QED BY <1>1, <1>3, <2>1 DEF IsRun, SameNames, AreEntries
<1>5. ASSUME NEW k \in Nat, k \in T PROVE k + 1 \in T
  <2> SUFFICES ASSUME k + 1 <= n
               PROVE  SameNames(fs, g[k + 1]) /\ Spells(V, g[k + 1][f].extents, h[k + 1])
    OBVIOUS
  <2> DEFINE x == p.pending[k + 1]
             gs == g[k]
             y == [unit |-> u, off |-> x.off, len |-> x.len]
  <2>1. /\ k \in 0..(n - 1) /\ k + 1 \in 1..n
        /\ SameNames(fs, gs) /\ Spells(V, gs[f].extents, h[k])
    BY <1>1, <1>5
  <2>2. g[k + 1] = AttachOne(gs, x, u)
    BY <1>3, <2>1 DEF IsRun, OneStep
  <2>3. SameNames(fs, g[k + 1])
    <3> HIDE DEF x, gs, T
    <3>1. SameNames(gs, AttachOne(gs, x, u))
      BY <2>1, AttachOneSameNames DEF SameNames
    <3> QED BY <2>1, <2>2, <3>1 DEF SameNames
  <2>4. h[k + 1] = IF x.file = f THEN h[k] \o CutOut(p.buf, x) ELSE h[k]
    BY <1>2, <2>1 DEF DueBy, Taken
  <2>5. IsWithin(x, p.buf)
    BY <1>1, <2>1
  <2> HIDE DEF x, T
  <2>6. IsExtent(V, y) /\ PieceOf(V, y) = CutOut(p.buf, x)
    BY <2>5 DEF IsExtent, IsWithin, PieceOf, CutOut
  <2>7. f \in 1..Len(gs) /\ DOMAIN gs = 1..Len(gs) /\ AreEntries(gs)
    <3> HIDE DEF gs
    <3> QED BY <2>1, SeqFacts DEF SameNames, AreEntries, fs
  <2>8. IsEntry(gs[f])
    BY <2>7 DEF AreEntries
  <2>9. g[k + 1][f].extents = IF x.file = f THEN Append(gs[f].extents, y) ELSE gs[f].extents
    <3> HIDE DEF gs, y
    <3>1. CASE x.file = f
      <4>1. AttachOne(gs, x, u)[f] = [gs[f] EXCEPT !.extents = Append(gs[f].extents, y)]
        BY <2>7, <3>1 DEF AttachOne, y
      <4>2. AttachOne(gs, x, u)[f].extents = Append(gs[f].extents, y)
        BY <2>8, <4>1 DEF IsEntry, EntryFields
      <4> QED BY <2>2, <3>1, <4>2
    <3>2. CASE x.file # f
      <4>1. AttachOne(gs, x, u)[f] = gs[f]
        BY <2>7, <3>2 DEF AttachOne
      <4> QED BY <2>2, <3>2, <4>1
    <3> QED BY <3>1, <3>2
  <2>10. Spells(V, g[k + 1][f].extents, h[k + 1])
    <3> HIDE DEF gs, y
    <3>1. Spells(V, Append(gs[f].extents, y), h[k] \o PieceOf(V, y))
      BY <2>1, <2>6, SpellsMore
    <3> QED BY <2>1, <2>4, <2>6, <2>9, <3>1
  <2> QED BY <2>3, <2>10
<1> HIDE DEF T
<1>6. n \in T
  BY <1>1, <1>4, <1>5, Counting
<1> QED BY <1>1, <1>2, <1>3, <1>6 DEF T, fs

\* With nothing pending a file has what its extents spell.
LEMMA DueWhenClean ==
    ASSUME NEW p, p.pending = <<>>, NEW f, NEW cells, Spells(p.units, p.files[f].extents, cells)
    PROVE  Due(p, f, cells)
<1> DEFINE h == [k \in 0..0 |-> cells]
<1>1. cells \in Seq(Nat) /\ Len(p.pending) = 0
  BY SpelledIsCells, EmptyIsSeq
<1>2. h \in [0..0 -> Seq(Nat)] /\ h[0] = cells /\ 0..(0 - 1) = {}
  BY <1>1
<1> HIDE DEF h
<1>3. DueBy(p, f, h)
  BY <1>1, <1>2 DEF DueBy
<1> QED BY <1>1, <1>2, <1>3 DEF Due

\* What an unit that is closed leaves: the same cells, from the units alone.
LEMMA ClosedOwes ==
    ASSUME NEW p, NEW goal, Owes(p, goal), NEW u \in 1..Len(p.units), p.units[u].cells = p.buf,
           NEW cut
    PROVE  LET q == Closed(p, u, cut)
           IN  Owes(q, goal) /\ IsClean(q) /\ q.units = p.units
<1> DEFINE q == Closed(p, u, cut)
<1>1. IsPacker(p) /\ AreUnits(p.units)
  BY DEF Owes, Ready
<1>2. /\ q.units = p.units /\ q.buf = <<>> /\ q.pending = <<>>
      /\ q.files = Attached(p.files, p.pending, u)
  BY <1>1 DEF IsPacker, PackerFields, Closed
<1>3. Kin(p, q)
  BY <1>1, ClosedKin
<1> HIDE DEF q
<1>4. Ready(q)
  BY <1>1, <1>2, <1>3, EmptyIsSeq DEF Ready, Kin
<1>5. Len(q.files) = Len(p.files)
  BY <1>3 DEF Kin, SameNames
<1>6. Grows(p.units, p.units)
  BY <1>1, SeqFacts DEF AreUnits, Grows
<1>7. ASSUME NEW f \in 1..Len(p.files) PROVE Due(q, f, goal[f])
  <2>1. Spells(p.units, Attached(p.files, p.pending, u)[f].extents, goal[f])
    BY <1>1, <1>6, AttachedSpells DEF Owes
  <2> QED BY <1>2, <2>1, DueWhenClean
<1> QED BY <1>2, <1>4, <1>5, <1>7 DEF Owes, IsClean, q

LEMMA GrowsOn ==
    ASSUME NEW U, NEW V, NEW W, AreUnits(U), AreUnits(V), AreUnits(W), Grows(U, V), Grows(V, W)
    PROVE  Grows(U, W)
<1>1. Len(U) \in Nat /\ Len(V) \in Nat /\ Len(W) \in Nat
  BY SeqFacts DEF AreUnits
<1>2. \A u \in 1..Len(U) : u \in 1..Len(V)
  BY <1>1 DEF Grows
<1> QED BY <1>1, <1>2 DEF Grows

LEMMA GrowsNot == ASSUME NEW U, AreUnits(U) PROVE Grows(U, U)
  BY SeqFacts DEF AreUnits, Grows

\* More units, and the same buffer, pending and extents: as much is due.
LEMMA OwesSame ==
    ASSUME NEW p, NEW q, NEW goal, Owes(p, goal), IsPacker(q),
           AreUnits(q.units), Grows(p.units, q.units),
           q.buf = p.buf, q.pending = p.pending, Len(q.files) = Len(p.files),
           \A f \in 1..Len(p.files) : q.files[f].extents = p.files[f].extents
    PROVE  Owes(q, goal)
<1>1. Ready(q)
  BY DEF Ready, Owes
<1>2. ASSUME NEW f \in 1..Len(p.files) PROVE Due(q, f, goal[f])
  <2>1. PICK h : /\ DueBy(p, f, h) /\ h[Len(p.pending)] = goal[f]
                 /\ Spells(p.units, p.files[f].extents, h[0])
    BY DEF Owes, Due
  <2>2. DueBy(q, f, h)
    BY <2>1 DEF DueBy, Taken
  <2>3. Spells(q.units, q.files[f].extents, h[0])
    BY <2>1, SpellsInMore DEF Owes, Ready
  <2> QED BY <2>1, <2>2, <2>3 DEF Due
<1> QED BY <1>1, <1>2 DEF Owes

LEMMA EmptyFlushOwes ==
    ASSUME NEW p, NEW goal, Owes(p, goal), p.buf = <<>>
    PROVE  LET q == [p EXCEPT !.pending = <<>>]
           IN  Owes(q, goal) /\ IsClean(q) /\ q.units = p.units
<1> DEFINE q == [p EXCEPT !.pending = <<>>]
           n == Len(p.pending)
<1>1. IsPacker(p) /\ AreUnits(p.units) /\ n \in Nat
  BY SeqFacts DEF Owes, Ready, IsPacker
<1>2. /\ q = [x \in PackerFields |-> q[x]]
      /\ q.units = p.units /\ q.buf = <<>> /\ q.pending = <<>> /\ q.files = p.files
  BY <1>1 DEF IsPacker, PackerFields
<1> HIDE DEF q
<1>3. Ready(q)
  <2>1. IsPacker(q)
    BY <1>1, <1>2, EmptyIsSeq DEF IsPacker
  <2>2. 1..Len(q.pending) = {}
    <3>1. Len(q.pending) = 0
      BY <1>2, EmptyIsSeq
    <3> QED BY <3>1
  <2>3. q.buf \in Seq(Nat)
    <3>1. q.buf = p.buf
      BY <1>2
    <3> QED BY <3>1 DEF Owes, Ready
  <2> QED BY <1>1, <1>2, <2>1, <2>2, <2>3 DEF Ready
<1>4. ASSUME NEW f \in 1..Len(p.files) PROVE Due(q, f, goal[f])
  <2>1. PICK h : /\ DueBy(p, f, h) /\ h[n] = goal[f]
                 /\ Spells(p.units, p.files[f].extents, h[0])
    BY DEF Owes, Due
  <2>2. ASSUME NEW k \in 0..(n - 1) PROVE h[k + 1] = h[k]
    <3> DEFINE x == p.pending[k + 1]
    <3>1. k + 1 \in 1..n /\ k \in 0..n
      BY <1>1
    <3>2. x.off \in Nat /\ x.len \in Nat /\ x.off + x.len <= 0
      BY <3>1, EmptyIsSeq DEF Owes, Ready, IsWithin
    <3>3. x.off + 1 \in Int /\ x.off + x.len \in Int /\ x.off + x.len < x.off + 1
      BY <3>2
    <3>4. CutOut(p.buf, x) = <<>>
      BY <3>3, SubSeqEmpty DEF CutOut
    <3>5. h[k] \o <<>> = h[k]
      BY <2>1, <3>1, ConcatEmptySeq DEF DueBy
    <3> QED BY <2>1, <3>4, <3>5 DEF DueBy, Taken
  <2> DEFINE T == { k \in Nat : k <= n => h[k] = h[0] }
  <2>3. 0 \in T
    OBVIOUS
  <2>4. ASSUME NEW k \in Nat, k \in T PROVE k + 1 \in T
    <3> SUFFICES ASSUME k + 1 <= n PROVE h[k + 1] = h[0]
      OBVIOUS
    <3>1. k \in 0..(n - 1) /\ k <= n
      BY <1>1
    <3> QED BY <2>2, <2>4, <3>1
  <2> HIDE DEF T
  <2>5. n \in T
    BY <1>1, <2>3, <2>4, Counting
  <2>6. h[n] = h[0]
    BY <1>1, <2>5 DEF T
  <2> QED BY <1>2, <2>1, <2>6, DueWhenClean
<1> QED BY <1>2, <1>3, <1>4 DEF Owes, IsClean, q

LEMMA SubmittedOwes ==
    ASSUME NEW p, NEW goal, Owes(p, goal)
    PROVE  LET q == Submitted(p)
           IN  /\ Owes(q, goal) /\ Grows(p.units, q.units) /\ q.buf = p.buf
               /\ Len(q.units) = Len(p.units) + 1
               /\ Len(p.units) + 1 \in 1..Len(q.units)
               /\ q.units[Len(p.units) + 1].cells = q.buf
<1> DEFINE q == Submitted(p)
           v == Unit(p, UnitPlan(p.votes, p.buf, p.tier))
           n == Len(p.units)
<1>1. IsPacker(p) /\ AreUnits(p.units) /\ IsSeq(p.units) /\ n \in Nat /\ p.buf \in Seq(Nat)
  BY SeqFacts DEF Owes, Ready, AreUnits
<1>2. v.cells = p.buf
  BY DEF Unit
<1> HIDE DEF v
<1>3. /\ q = [x \in PackerFields |-> q[x]] /\ q.units = Append(p.units, v)
      /\ q.buf = p.buf /\ q.pending = p.pending /\ q.files = p.files
  BY <1>1 DEF Submitted, IsPacker, PackerFields, v
<1> HIDE DEF q
<1>4. IsPacker(q)
  BY <1>1, <1>3 DEF IsPacker
<1>5. /\ IsSeq(q.units) /\ Len(q.units) = n + 1 /\ q.units[n + 1] = v
      /\ \A u \in 1..n : q.units[u] = p.units[u]
  <2> DEFINE U == p.units
  <2>1. IsSeq(U) /\ n = Len(U) /\ q.units = Append(U, v)
    BY <1>1, <1>3
  <2> HIDE DEF U, n
  <2>2. IsSeq(Append(U, v))
    BY <2>1, AppendAny
  <2> QED BY <2>1, <2>2, AppendAny DEF U
<1>6. AreUnits(q.units)
  <2>1. \A u \in 1..Len(q.units) : u \in 1..n \/ u = n + 1
    BY <1>1, <1>5
  <2> QED BY <1>1, <1>2, <1>5, <2>1 DEF AreUnits
<1>7. Grows(p.units, q.units)
  BY <1>1, <1>5 DEF Grows
<1>8. Owes(q, goal)
  BY <1>3, <1>4, <1>6, <1>7, OwesSame
<1>9. n + 1 \in 1..Len(q.units)
  BY <1>1, <1>5
<1> QED BY <1>2, <1>3, <1>5, <1>7, <1>8, <1>9 DEF q

LEMMA FlushOwes ==
    ASSUME NEW p, NEW goal, Owes(p, goal), NEW cut
    PROVE  LET q == Flush(p, cut)
           IN  Owes(q, goal) /\ IsClean(q) /\ Grows(p.units, q.units)
<1>1. AreUnits(p.units) /\ IsSeq(p.units)
  BY DEF Owes, Ready, AreUnits
<1>2. CASE p.buf = <<>>
  <2>1. Flush(p, cut) = [p EXCEPT !.pending = <<>>]
    BY <1>2 DEF Flush
  <2> DEFINE q == [p EXCEPT !.pending = <<>>]
  <2>2. Owes(q, goal) /\ IsClean(q) /\ q.units = p.units
    BY <1>2, EmptyFlushOwes
  <2> HIDE DEF q
  <2> QED BY <1>1, <2>1, <2>2, GrowsNot DEF q
<1>3. CASE p.buf # <<>> /\ Known(p) # {}
  <2> DEFINE u == CHOOSE u_1 \in Known(p) : \A v \in Known(p) : v <= u_1
  <2>1. Known(p) \subseteq 1..Len(p.units) /\ Len(p.units) \in Nat
    BY <1>1, SeqFacts DEF Known
  <2>2. \E w \in Known(p) : \A v \in Known(p) : v <= w
    <3>1. Max(Known(p)) \in Known(p) /\ \A v \in Known(p) : Max(Known(p)) >= v
      BY <1>3, <2>1, MaxIsIn
    <3>2. \A v \in Known(p) : v <= Max(Known(p))
      <4> DEFINE m == Max(Known(p))
      <4> HIDE DEF m
      <4>1. m \in Nat /\ \A v \in Known(p) : v \in Nat /\ m >= v
        BY <2>1, <3>1 DEF m
      <4> QED BY <4>1 DEF m
    <3> QED BY <3>1, <3>2
  <2>3. u \in Known(p)
    BY <2>2
  <2>4. Flush(p, cut) = Closed(p, u, cut)
    BY <1>3 DEF Flush
  <2> HIDE DEF u
  <2>5. u \in 1..Len(p.units) /\ p.units[u].cells = p.buf
    BY <2>1, <2>3 DEF Known
  <2> DEFINE q == Closed(p, u, cut)
  <2>6. Owes(q, goal) /\ IsClean(q) /\ q.units = p.units
    BY <2>5, ClosedOwes
  <2> HIDE DEF q
  <2> QED BY <1>1, <2>4, <2>6, GrowsNot DEF q
<1>4. CASE p.buf # <<>> /\ Known(p) = {}
  <2> DEFINE r == Submitted(p)
             u == Len(p.units) + 1
             q == Closed(r, u, cut)
  <2>1. Flush(p, cut) = q
    BY <1>4 DEF Flush
  <2>2. /\ Owes(r, goal) /\ Grows(p.units, r.units)
        /\ u \in 1..Len(r.units) /\ r.units[u].cells = r.buf
    BY SubmittedOwes
  <2> HIDE DEF r, u
  <2>3. Owes(q, goal) /\ IsClean(q) /\ q.units = r.units
    BY <2>2, ClosedOwes
  <2> HIDE DEF q
  <2> QED BY <2>1, <2>2, <2>3
<1> QED BY <1>2, <1>3, <1>4

\* What file n has got since.
Added(goal, n, item, goal2, N) ==
    \A f \in 1..N : goal2[f] = IF f = n THEN goal[f] \o item ELSE goal[f]

LEMMA AppendedOwes ==
    ASSUME NEW p, NEW goal, Owes(p, goal), NEW n \in 1..Len(p.files), NEW item \in Seq(Nat),
           NEW goal2, Added(goal, n, item, goal2, Len(p.files))
    PROVE  LET q == Appended(p, n, item)
           IN  Owes(q, goal2) /\ q.units = p.units /\ Len(q.files) = Len(p.files)
<1> DEFINE q == Appended(p, n, item)
           x == [file |-> n, off |-> Len(p.buf), len |-> Len(item)]
           m == Len(p.pending)
<1>1. /\ IsPacker(p) /\ AreUnits(p.units) /\ p.buf \in Seq(Nat)
      /\ IsSeq(p.pending) /\ m \in Nat
  BY SeqFacts DEF Owes, Ready, IsPacker
<1>2. /\ q.units = p.units /\ q.buf = p.buf \o item /\ q.files = p.files
      /\ q.pending = Append(p.pending, x)
  BY <1>1 DEF Appended, IsPacker, PackerFields
<1>3. x.file = n /\ x.off = Len(p.buf) /\ x.len = Len(item)
  OBVIOUS
<1>4. IsPacker(q)
  BY <1>1, AppendedKin DEF Kin
<1> HIDE DEF q, x
<1>5. IsWithin(x, q.buf) /\ CutOut(q.buf, x) = item
  <2> DEFINE had == p.buf
  <2>1. had \in Seq(Nat) /\ x.off = Len(had) /\ x.len = Len(item) /\ q.buf = had \o item
    BY <1>1, <1>2, <1>3
  <2> HIDE DEF had
  <2>2. IsWithin(x, had \o item) /\ CutOut(had \o item, x) = item
    BY <2>1, CutAtEnd
  <2> QED BY <2>1, <2>2
<1>6. ASSUME NEW y, IsWithin(y, p.buf) PROVE IsWithin(y, q.buf) /\ CutOut(q.buf, y) = CutOut(p.buf, y)
  BY <1>1, <1>2, <1>6, CutOfConcat
<1>7. /\ IsSeq(q.pending) /\ Len(q.pending) = m + 1 /\ q.pending[m + 1] = x
      /\ \A k \in 1..m : q.pending[k] = p.pending[k]
  <2> DEFINE s == p.pending
  <2>1. IsSeq(s) /\ m = Len(s) /\ q.pending = Append(s, x)
    BY <1>1, <1>2
  <2> HIDE DEF s, m
  <2>2. IsSeq(Append(s, x))
    BY <2>1, AppendAny
  <2> QED BY <2>1, <2>2, AppendAny DEF s
<1>8. \A k \in 1..Len(q.pending) : k \in 1..m \/ k = m + 1
  BY <1>1, <1>7
<1>9. Ready(q)
  <2>1. q.buf \in Seq(Nat)
    BY <1>1, <1>2, ConcatProperties
  <2>2. \A k \in 1..Len(q.pending) :
           IsWithin(q.pending[k], q.buf) /\ q.pending[k].file \in 1..Len(q.files)
    BY <1>2, <1>3, <1>5, <1>6, <1>7, <1>8 DEF Owes, Ready
  <2> QED BY <1>1, <1>2, <1>4, <2>1, <2>2 DEF Ready
<1>10. ASSUME NEW f \in 1..Len(p.files) PROVE Due(q, f, goal2[f])
  <2>1. PICK h : /\ DueBy(p, f, h) /\ h[m] = goal[f]
                 /\ Spells(p.units, p.files[f].extents, h[0])
    BY DEF Owes, Due
  <2>2. /\ h \in [0..m -> Seq(Nat)]
        /\ \A k \in 0..(m - 1) : h[k + 1] = Taken(p, f, h[k], k + 1)
    BY <2>1 DEF DueBy
  <2> DEFINE last == IF f = n THEN goal[f] \o item ELSE goal[f]
             h2 == [k \in 0..m + 1 |-> IF k = m + 1 THEN last ELSE h[k]]
  <2>3. last = goal2[f]
    BY DEF Added
  <2>4. last \in Seq(Nat)
    <3>1. m \in 0..m
      BY <1>1
    <3> HIDE DEF m
    <3>2. h[m] \in Seq(Nat)
      BY <2>2, <3>1
    <3>3. goal[f] \in Seq(Nat)
      BY <2>1, <3>2
    <3> QED BY <3>3, ConcatProperties
  <2> HIDE DEF last
  <2>5. /\ h2 \in [0..m + 1 -> Seq(Nat)] /\ h2[m + 1] = last
        /\ \A k \in 0..m : h2[k] = h[k]
    BY <1>1, <2>2, <2>4
  <2> HIDE DEF h2
  <2>6. ASSUME NEW k \in 0..m PROVE h2[k + 1] = Taken(q, f, h2[k], k + 1)
    <3>1. CASE k = m
      BY <1>1, <1>3, <1>5, <1>7, <2>1, <2>5, <3>1 DEF Taken, last
    <3>2. CASE k # m
      <4>1. k \in 0..(m - 1) /\ k + 1 \in 1..m /\ k + 1 \in 0..m
        BY <1>1, <3>2
      <4>2. IsWithin(p.pending[k + 1], p.buf)
        BY <4>1 DEF Owes, Ready
      <4>3. Taken(q, f, h[k], k + 1) = Taken(p, f, h[k], k + 1)
        BY <1>6, <1>7, <4>1, <4>2 DEF Taken
      <4> QED BY <2>2, <2>5, <4>1, <4>3
    <3> QED BY <3>1, <3>2
  <2>7. (m + 1) - 1 = m /\ 0 \in 0..m
    BY <1>1
  <2>8. DueBy(q, f, h2)
    BY <1>7, <2>5, <2>6, <2>7 DEF DueBy
  <2>9. Spells(q.units, q.files[f].extents, h2[0])
    BY <1>2, <2>1, <2>5, <2>7
  <2> QED BY <1>7, <2>3, <2>5, <2>8, <2>9 DEF Due
<1> QED BY <1>2, <1>9, <1>10 DEF Owes, q

LEMMA PlaceOwes ==
    ASSUME NEW p, NEW goal, Owes(p, goal), NEW n \in 1..Len(p.files), NEW item \in Seq(Nat),
           NEW goal2, Added(goal, n, item, goal2, Len(p.files))
    PROVE  LET q == Place(p, n, item)
           IN  Owes(q, goal2) /\ Grows(p.units, q.units) /\ Len(q.files) = Len(p.files)
<1> DEFINE a == IF Overshoots(p, item) THEN Flush(p, "Overshoot") ELSE p
           b == Appended(a, n, item)
           c == CutAfter(b, item)
<1>1. AreUnits(p.units) /\ IsPacker(p)
  BY DEF Owes, Ready
<1>2. Owes(a, goal) /\ Grows(p.units, a.units) /\ Len(a.files) = Len(p.files)
  BY <1>1, FlushOwes, FlushKin, GrowsNot DEF Kin, SameNames
<1> HIDE DEF a
<1>3. Owes(b, goal2) /\ b.units = a.units /\ Len(b.files) = Len(a.files)
  BY <1>2, AppendedOwes
<1> HIDE DEF b
<1>4. AreUnits(a.units) /\ AreUnits(b.units)
  BY <1>2, <1>3 DEF Owes, Ready
<1>5. Owes(c, goal2) /\ Grows(b.units, c.units)
  BY <1>3, <1>4, FlushOwes, GrowsNot DEF CutAfter
<1> HIDE DEF c
<1>6. Grows(p.units, c.units)
  BY <1>1, <1>2, <1>3, <1>4, <1>5, GrowsOn DEF Owes, Ready
<1>7. Place(p, n, item) = c
  BY DEF Place, a, b, c
<1>8. Len(Place(p, n, item).files) = Len(p.files)
  BY <1>1, PlaceKin DEF Kin, SameNames
<1> HIDE DEF a, b, c
<1> QED BY <1>5, <1>6, <1>7, <1>8

\* The goals when file n has the cells.
With(goal, n, cells, N) == [f \in 1..N |-> IF f = n THEN cells ELSE goal[f]]

LEMMA OwesThat ==
    ASSUME NEW p, NEW goal, Owes(p, goal), NEW goal2,
           \A f \in 1..Len(p.files) : goal2[f] = goal[f]
    PROVE  Owes(p, goal2)
  BY DEF Owes

LEMMA CutInTwo ==
    ASSUME NEW cells \in Seq(Nat), NEW a \in 0..Len(cells), NEW b \in 0..Len(cells), a <= b
    PROVE  /\ SubSeq(cells, 1, a) \in Seq(Nat)
           /\ SubSeq(cells, a + 1, b) \in Seq(Nat) /\ Len(SubSeq(cells, a + 1, b)) = b - a
           /\ SubSeq(cells, 1, a) \o SubSeq(cells, a + 1, b) = SubSeq(cells, 1, b)
<1>1. Len(cells) \in Nat
  OBVIOUS
<1>2. \A i \in 1..Len(cells) : cells[i] \in Nat
  OBVIOUS
<1>3. SubSeq(cells, 1, a) \in Seq(Nat)
  <2>1. \A i \in 1..a : cells[i] \in Nat
    BY <1>1, <1>2
  <2> QED BY <2>1, SubSeqProperties
<1>4. /\ SubSeq(cells, a + 1, b) \in Seq(Nat)
      /\ Len(SubSeq(cells, a + 1, b)) = IF a + 1 <= b THEN b - (a + 1) + 1 ELSE 0
  <2>1. \A i \in (a + 1)..b : cells[i] \in Nat
    BY <1>1, <1>2
  <2> QED BY <2>1, SubSeqProperties
<1>5. (IF a + 1 <= b THEN b - (a + 1) + 1 ELSE 0) = b - a
  OBVIOUS
<1>6. SubSeq(cells, 1, a) \o SubSeq(cells, a + 1, b) = SubSeq(cells, 1, b)
  <2>1. 1 \in 1..Len(cells) + 1 /\ a \in (1 - 1)..Len(cells) /\ b \in a..Len(cells)
    BY <1>1
  <2> QED BY <2>1, ConcatAdjacentSubSeq
<1>7. Len(SubSeq(cells, a + 1, b)) = b - a
  BY <1>4, <1>5
<1> QED BY <1>3, <1>4, <1>6, <1>7

\* Slices of the cells, one after the other, are the cells.
LEMMA PlacedAllOwes ==
    ASSUME NEW p, NEW goal, Owes(p, goal), NEW n \in 1..Len(p.files), goal[n] = <<>>,
           NEW cells \in Seq(Nat), NEW items, Slices(items, cells, Len(cells))
    PROVE  LET q == PlacedAll(p, n, items)
           IN  Owes(q, With(goal, n, cells, Len(p.files))) /\ Grows(p.units, q.units)
<1> DEFINE m == Len(items)
           N == Len(p.files)
<1>1. /\ IsSeq(items) /\ m \in Nat /\ IsSeq(cells) /\ Len(cells) \in Nat /\ AreUnits(p.units)
  BY SeqFacts, IsSeqOf DEF Slices, Owes, Ready
<1>2. PICK at \in [0..m -> 0..Len(cells)] :
          /\ at[0] = 0 /\ at[m] = Len(cells)
          /\ \A j \in 0..(m - 1) :
                at[j] <= at[j + 1] /\ items[j + 1] = SubSeq(cells, at[j] + 1, at[j + 1])
  BY DEF Slices
<1>3. PICK g : IsRun(g, "place", n, p, items) /\ g[m] = PlacedAll(p, n, items)
  BY <1>1, PlacedRuns
<1> DEFINE T == { k \in Nat : k <= m =>
                    /\ Grows(p.units, g[k].units) /\ Len(g[k].files) = N
                    /\ Owes(g[k], With(goal, n, SubSeq(cells, 1, at[k]), N)) }
<1>4. 0 \in T
  <2>1. g[0] = p /\ Grows(p.units, p.units)
    BY <1>1, <1>3, GrowsNot DEF IsRun
  <2>2. SubSeq(cells, 1, at[0]) = <<>>
    BY <1>2, SubSeqEmpty
  <2>3. Owes(p, With(goal, n, <<>>, N))
    <3>1. \A f \in 1..N : With(goal, n, <<>>, N)[f] = goal[f]
      BY DEF With
    <3> QED BY <3>1, OwesThat
  <2> QED BY <2>1, <2>2, <2>3
<1>5. ASSUME NEW k \in Nat, k \in T PROVE k + 1 \in T
  <2> SUFFICES ASSUME k + 1 <= m
               PROVE  /\ Grows(p.units, g[k + 1].units) /\ Len(g[k + 1].files) = N
                      /\ Owes(g[k + 1], With(goal, n, SubSeq(cells, 1, at[k + 1]), N))
    OBVIOUS
  <2> DEFINE had1 == SubSeq(cells, 1, at[k])
             item == items[k + 1]
             has1 == SubSeq(cells, 1, at[k + 1])
             goal1 == With(goal, n, had1, N)
             goal2 == With(goal, n, has1, N)
  <2>1. /\ k \in 0..(m - 1) /\ k \in 0..m /\ k + 1 \in 0..m /\ k <= m
        /\ Grows(p.units, g[k].units) /\ Len(g[k].files) = N /\ Owes(g[k], goal1)
    BY <1>1, <1>5
  <2>2. g[k + 1] = Place(g[k], n, item)
    BY <1>3, <2>1 DEF IsRun, OneStep
  <2>3. at[k] \in 0..Len(cells) /\ at[k + 1] \in 0..Len(cells) /\ at[k] <= at[k + 1]
        /\ item = SubSeq(cells, at[k] + 1, at[k + 1])
    BY <1>2, <2>1
  <2>4. had1 \o item = has1 /\ had1 \in Seq(Nat) /\ item \in Seq(Nat)
    <3> DEFINE a == at[k]
               b == at[k + 1]
    <3>1. a \in 0..Len(cells) /\ b \in 0..Len(cells) /\ a <= b /\ item = SubSeq(cells, a + 1, b)
      BY <2>3
    <3> HIDE DEF a, b, T, item
    <3>2. /\ SubSeq(cells, 1, a) \in Seq(Nat) /\ SubSeq(cells, a + 1, b) \in Seq(Nat)
          /\ SubSeq(cells, 1, a) \o SubSeq(cells, a + 1, b) = SubSeq(cells, 1, b)
      BY <3>1, CutInTwo
    <3> QED BY <3>1, <3>2 DEF a, b
  <2> HIDE DEF T, had1, item, has1
  <2>5. Added(goal1, n, item, goal2, N)
    BY <2>4 DEF Added, With
  <2> HIDE DEF goal1, goal2
  <2>6. /\ Owes(g[k + 1], goal2) /\ Grows(g[k].units, g[k + 1].units)
        /\ Len(g[k + 1].files) = N
    <3> DEFINE r == g[k]
               q == Place(r, n, item)
    <3>1. /\ Owes(r, goal1) /\ n \in 1..Len(r.files) /\ Added(goal1, n, item, goal2, Len(r.files))
          /\ item \in Seq(Nat)
      BY <2>1, <2>4, <2>5
    <3> HIDE DEF r, N
    <3>2. Owes(q, goal2) /\ Grows(r.units, q.units) /\ Len(q.files) = Len(r.files)
      BY <3>1, PlaceOwes
    <3> HIDE DEF q
    <3> QED BY <2>1, <2>2, <3>2 DEF r, q
  <2>7. Grows(p.units, g[k + 1].units)
    BY <1>1, <2>1, <2>6, GrowsOn DEF Owes, Ready
  <2> QED BY <2>6, <2>7 DEF goal2, has1
<1> HIDE DEF T
<1>6. m \in T
  BY <1>1, <1>4, <1>5, Counting
<1>7. SubSeq(cells, 1, at[m]) = cells
  BY <1>2, SubSeqFull
<1> HIDE DEF m
<1>8. m <= m
  BY <1>1
<1> QED BY <1>3, <1>6, <1>7, <1>8 DEF T

\* An open buffer with one item is what appending the item to nothing gives.
LEMMA OpenedOwes ==
    ASSUME NEW p, NEW goal, Owes(p, goal), IsClean(p), NEW n \in 1..Len(p.files),
           NEW item \in Seq(Nat), NEW goal2, Added(goal, n, item, goal2, Len(p.files)),
           NEW q, IsPacker(q), q.units = p.units, q.files = p.files, q.buf = item,
           q.pending = Append(p.pending, [file |-> n, off |-> 0, len |-> Len(item)])
    PROVE  Owes(q, goal2)
<1> DEFINE r == Appended(p, n, item)
<1>1. IsPacker(p) /\ AreUnits(p.units) /\ p.buf = <<>>
  BY DEF Owes, Ready, IsClean
<1>2. Len(p.buf) = 0 /\ p.buf \o item = item
  BY <1>1, EmptyIsSeq, ConcatEmptySeq
<1>3. /\ r.units = p.units /\ r.buf = item /\ r.files = p.files
      /\ r.pending = Append(p.pending, [file |-> n, off |-> 0, len |-> Len(item)])
  BY <1>1, <1>2 DEF Appended, IsPacker, PackerFields
<1>4. Owes(r, goal2)
  BY AppendedOwes
<1> HIDE DEF r
<1>5. AreUnits(q.units) /\ Grows(r.units, q.units)
  BY <1>1, <1>3, GrowsNot
<1> QED BY <1>3, <1>4, <1>5, OwesSame

\* Pieces of length m, the last one shorter, reach the end of L and none begins behind it.
LEMMA PiecesReach ==
    ASSUME NEW L \in Nat \ {0}, NEW m \in Nat \ {0}, NEW K, K = (L + m - 1) \div m
    PROVE  /\ K \in Nat \ {0} /\ K * m >= L
           /\ \A k \in 0..(K - 1) : k * m < L
<1>1. K \in Int /\ K * m <= L + m - 1 /\ L + m - 1 < (K + 1) * m
  OBVIOUS
<1>2. (K + 1) * m = K * m + m
  BY <1>1
<1>3. K * m >= L
  BY <1>1, <1>2
<1>4. K > 0
  <2> SUFFICES ASSUME K <= 0 PROVE FALSE
    BY <1>1
  <2>1. K * m <= 0
    BY <1>1
  <2> QED BY <1>1, <1>3, <2>1
<1>5. ASSUME NEW k \in 0..(K - 1) PROVE k * m < L
  <2>1. k <= K - 1 /\ k \in Nat
    BY <1>1
  <2>2. k * m <= (K - 1) * m
    BY <1>1, <2>1
  <2>3. (K - 1) * m = K * m - m
    BY <1>1
  <2> QED BY <1>1, <2>1, <2>2, <2>3
<1> QED BY <1>1, <1>3, <1>4, <1>5

LEMMA TimesNext ==
    ASSUME NEW k \in Nat, NEW m \in Nat \ {0}
    PROVE  /\ k * m \in Nat /\ (k + 1) * m = k * m + m /\ (k = 0 <=> k * m = 0)
           /\ (k + 1) * m \in Nat
  OBVIOUS

\* Where the first k pieces of a .wav end.
EndOf(f, riff, k) ==
    IF k = 0 THEN 0
    ELSE IF k * PieceLength(riff) >= riff.len THEN f.len ELSE riff.off + k * PieceLength(riff)

\* A piece begins where the one before it ends.
LEMMA PiecesMeet ==
    ASSUME NEW f, IsFile(f), Splits(f), NEW riff, riff = LookOf(f.cells).riff,
           NEW k \in 0..(PieceCount(riff) - 1), NEW d, d = k * PieceLength(riff),
           NEW run, run = IF PieceLength(riff) < riff.len - d THEN PieceLength(riff) ELSE riff.len - d
    PROVE  /\ EndOf(f, riff, k) = IF d = 0 THEN 0 ELSE riff.off + d
           /\ EndOf(f, riff, k + 1) = IF d + run = riff.len THEN f.len ELSE riff.off + d + run
           /\ EndOf(f, riff, k) \in 0..f.len /\ EndOf(f, riff, k + 1) \in 0..f.len
           /\ EndOf(f, riff, k) <= EndOf(f, riff, k + 1)
<1> DEFINE m == PieceLength(riff)
           L == riff.len
           o == riff.off
           K == PieceCount(riff)
           e == (k + 1) * m
<1>1. /\ o \in Nat /\ L \in Nat \ {0} /\ m \in Nat \ {0} /\ o + L <= f.len /\ f.len \in Nat
      /\ K \in Nat
  BY PiecesAreCounted DEF IsFile
<1>2. /\ K * m >= L
      /\ \A j \in 0..(K - 1) : j * m < L
  <2>1. K = (L + m - 1) \div m
    BY DEF PieceCount
  <2> HIDE DEF m, L, K
  <2> QED BY <1>1, <2>1, PiecesReach
<1>3. d < L /\ k \in Nat
  <2>1. k \in 0..(K - 1) /\ d = k * m
    OBVIOUS
  <2> HIDE DEF K, m, L
  <2> QED BY <1>1, <1>2, <2>1
<1>4. d \in Nat /\ e = d + m /\ (k = 0 <=> d = 0) /\ k + 1 # 0
  <2>1. d = k * m
    OBVIOUS
  <2> HIDE DEF m
  <2> QED BY <1>1, <1>3, <2>1, TimesNext
<1>5. /\ EndOf(f, riff, k) = IF k = 0 THEN 0 ELSE IF d >= L THEN f.len ELSE o + d
      /\ EndOf(f, riff, k + 1) = IF k + 1 = 0 THEN 0 ELSE IF e >= L THEN f.len ELSE o + e
      /\ run = IF m < L - d THEN m ELSE L - d
  BY DEF EndOf
<1> HIDE DEF m, L, o, K, e
<1> DEFINE E1 == EndOf(f, riff, k)
           E2 == EndOf(f, riff, k + 1)
           F == f.len
<1>6. /\ E1 = IF d = 0 THEN 0 ELSE o + d
      /\ E2 = IF e >= L THEN F ELSE o + e
      /\ F \in Nat /\ o + L <= F
  BY <1>1, <1>3, <1>4, <1>5
<1> HIDE DEF E1, E2, F
<1>7. E2 = IF d + run = L THEN F ELSE o + d + run
  BY <1>1, <1>3, <1>4, <1>5, <1>6
<1>8. E1 \in 0..F /\ E2 \in 0..F /\ E1 <= E2
  BY <1>1, <1>3, <1>4, <1>6
<1> QED BY <1>6, <1>7, <1>8 DEF E1, E2, F, o, L

LEMMA WavPieceOwes ==
    ASSUME NEW f, IsFile(f), Splits(f), NEW riff, riff = LookOf(f.cells).riff,
           Len(f.cells) >= f.len, NEW k \in 0..(PieceCount(riff) - 1),
           NEW p, NEW goal, Owes(p, goal), IsClean(p), NEW n, n = Len(p.files), n \in 1..n,
           NEW goal2,
           Added(goal, n, SubSeq(f.cells, EndOf(f, riff, k) + 1, EndOf(f, riff, k + 1)), goal2, n)
    PROVE  LET q == WavPiece(p, f, riff, k * PieceLength(riff))
           IN  /\ Owes(q, goal2) /\ IsClean(q) /\ Grows(p.units, q.units)
               /\ Len(q.files) = n
<1> DEFINE d == k * PieceLength(riff)
           run == IF PieceLength(riff) < riff.len - d THEN PieceLength(riff) ELSE riff.len - d
           from == IF d = 0 THEN 0 ELSE riff.off + d
           upto == IF d + run = riff.len THEN f.len ELSE riff.off + d + run
           x == [file |-> Len(p.files), off |-> 0, len |-> upto - from]
           piece == [start |-> IF d = 0 THEN riff.off ELSE 0, len |-> run, frame |-> riff.frame]
           item == SubSeq(f.cells, from + 1, upto)
           q == [p EXCEPT !.buf = item, !.pending = Append(@, x), !.kind = "wav", !.piece = piece]
           E1 == EndOf(f, riff, k)
           E2 == EndOf(f, riff, k + 1)
<1>1. WavPiece(p, f, riff, d) = Flush(q, "Solo")
  BY DEF WavPiece
<1>2. E1 = from /\ E2 = upto /\ E1 \in 0..f.len /\ E2 \in 0..f.len /\ E1 <= E2
  <2> HIDE DEF E1, E2, d
  <2>1. /\ EndOf(f, riff, k) = from /\ EndOf(f, riff, k + 1) = upto
        /\ EndOf(f, riff, k) \in 0..f.len /\ EndOf(f, riff, k + 1) \in 0..f.len
        /\ EndOf(f, riff, k) <= EndOf(f, riff, k + 1)
    <3> HIDE DEF run
    <3>1. run = IF PieceLength(riff) < riff.len - d THEN PieceLength(riff) ELSE riff.len - d
      BY DEF run
    <3>2. d = k * PieceLength(riff)
      BY DEF d
    <3> QED BY <3>1, <3>2, PiecesMeet
  <2> QED BY <2>1 DEF E1, E2
<1> HIDE DEF from, upto, piece, E1, E2
<1>3. item \in Seq(Nat) /\ Len(item) = upto - from /\ item = SubSeq(f.cells, E1 + 1, E2)
  <2> DEFINE cells == f.cells
  <2>1. cells \in Seq(Nat) /\ Len(cells) \in Nat /\ Len(cells) >= f.len /\ f.len \in Nat
    BY DEF IsFile
  <2> HIDE DEF cells
  <2>2. E1 \in 0..Len(cells) /\ E2 \in 0..Len(cells) /\ E1 <= E2
    BY <1>2, <2>1
  <2>3. SubSeq(cells, E1 + 1, E2) \in Seq(Nat) /\ Len(SubSeq(cells, E1 + 1, E2)) = E2 - E1
    BY <2>1, <2>2, CutInTwo
  <2> QED BY <1>2, <2>3 DEF cells
<1>4. x = [file |-> n, off |-> 0, len |-> Len(item)]
  BY <1>3
<1> HIDE DEF item, x, d
<1>5. IsPacker(p)
  BY DEF Owes, Ready
<1>6. /\ q = [y \in PackerFields |-> q[y]]
      /\ q.units = p.units /\ q.files = p.files /\ q.buf = item
      /\ q.pending = Append(p.pending, x)
  BY <1>5 DEF IsPacker, PackerFields
<1> HIDE DEF q
<1>7. IsPacker(q)
  <2>1. IsSeq(p.pending)
    BY <1>5 DEF IsPacker
  <2>2. IsSeq(Append(p.pending, x))
    BY <2>1, AppendAny
  <2> QED BY <1>5, <1>6, <2>2 DEF IsPacker
<1>8. Added(goal, n, item, goal2, Len(p.files))
  BY <1>3 DEF E1, E2
<1>9. Owes(q, goal2)
  <2>1. n \in 1..Len(p.files)
    OBVIOUS
  <2> QED BY <1>3, <1>4, <1>6, <1>7, <1>8, <2>1, OpenedOwes
<1> DEFINE r == Flush(q, "Solo")
<1>10. Owes(r, goal2) /\ IsClean(r) /\ Grows(q.units, r.units)
  BY <1>9, FlushOwes
<1>11. Len(r.files) = n
  BY <1>6, <1>7, FlushKin DEF Kin, SameNames
<1> HIDE DEF r
<1> QED BY <1>1, <1>6, <1>10, <1>11 DEF r, d

LEMMA PiecesOwe ==
    ASSUME NEW f, IsFile(f), Splits(f), NEW riff, riff = LookOf(f.cells).riff,
           Len(f.cells) >= f.len,
           NEW p, NEW goal, Owes(p, goal), IsClean(p), NEW n, n = Len(p.files), n \in 1..n,
           goal[n] = <<>>
    PROVE  LET q == PiecesOf(p, f, riff, [k \in 1..PieceCount(riff) |-> k])
           IN  /\ Owes(q, With(goal, n, SubSeq(f.cells, 1, f.len), n)) /\ Grows(p.units, q.units)
<1> DEFINE K == PieceCount(riff)
           seq == [k \in 1..K |-> k]
           cells == f.cells
           E(k) == EndOf(f, riff, k)
<1>1. K \in Nat /\ AreUnits(p.units) /\ cells \in Seq(Nat) /\ f.len \in Nat /\ Len(cells) \in Nat
  BY PiecesAreCounted DEF IsFile, Owes, Ready
<1>2. IsSeq(seq) /\ Len(seq) = K /\ \A k \in 1..K : seq[k] = k
  BY <1>1, NumberedIsSeq
<1> HIDE DEF seq, K
<1>3. PICK g : /\ IsRun(g, "wav", [f |-> f, riff |-> riff], p, seq)
               /\ g[Len(seq)] = PiecesOf(p, f, riff, seq)
  BY <1>2, PiecesRun
<1>4. ASSUME NEW k \in 0..(K - 1)
      PROVE  /\ E(k) \in 0..f.len /\ E(k + 1) \in 0..f.len /\ E(k) <= E(k + 1)
  <2> DEFINE d == k * PieceLength(riff)
             run == IF PieceLength(riff) < riff.len - d THEN PieceLength(riff) ELSE riff.len - d
  <2>1. /\ d = k * PieceLength(riff)
        /\ run = IF PieceLength(riff) < riff.len - d THEN PieceLength(riff) ELSE riff.len - d
    OBVIOUS
  <2> HIDE DEF d, run
  <2> QED BY <2>1, PiecesMeet DEF K
<1> DEFINE T == { k \in Nat : k <= K =>
                    /\ Grows(p.units, g[k].units) /\ Len(g[k].files) = n /\ IsClean(g[k])
                    /\ Owes(g[k], With(goal, n, SubSeq(cells, 1, E(k)), n)) }
<1>5. 0 \in T
  <2>1. g[0] = p /\ Grows(p.units, p.units)
    BY <1>1, <1>3, GrowsNot DEF IsRun
  <2>2. SubSeq(cells, 1, E(0)) = <<>>
    BY SubSeqEmpty DEF EndOf
  <2>3. Owes(p, With(goal, n, <<>>, n))
    <3>1. \A f_1 \in 1..n : With(goal, n, <<>>, n)[f_1] = goal[f_1]
      BY DEF With
    <3> QED BY <3>1, OwesThat
  <2> QED BY <2>1, <2>2, <2>3
<1>6. ASSUME NEW k \in Nat, k \in T PROVE k + 1 \in T
  <2> SUFFICES ASSUME k + 1 <= K
               PROVE  /\ Grows(p.units, g[k + 1].units) /\ Len(g[k + 1].files) = n
                      /\ IsClean(g[k + 1])
                      /\ Owes(g[k + 1], With(goal, n, SubSeq(cells, 1, E(k + 1)), n))
    OBVIOUS
  <2> DEFINE had == SubSeq(cells, 1, E(k))
             item == SubSeq(cells, E(k) + 1, E(k + 1))
             has == SubSeq(cells, 1, E(k + 1))
             goal1 == With(goal, n, had, n)
             goal2 == With(goal, n, has, n)
             r == g[k]
             q == WavPiece(r, f, riff, k * PieceLength(riff))
  <2>1. /\ k \in 0..(K - 1) /\ k + 1 \in 1..K /\ k <= K
        /\ Grows(p.units, r.units) /\ Len(r.files) = n /\ IsClean(r) /\ Owes(r, goal1)
    BY <1>1, <1>6
  <2>2. g[k + 1] = q
    <3>1. g[k + 1] = OneStep("wav", [f |-> f, riff |-> riff], g[k], seq[k + 1])
      BY <1>2, <1>3, <2>1 DEF IsRun
    <3>2. seq[k + 1] = k + 1 /\ (k + 1) - 1 = k
      BY <1>2, <2>1
    <3> QED BY <3>1, <3>2 DEF OneStep
  <2>3. had \o item = has
    <3> DEFINE a == E(k)
               b == E(k + 1)
    <3>1. a \in 0..Len(cells) /\ b \in 0..Len(cells) /\ a <= b
      <4>1. a \in 0..f.len /\ b \in 0..f.len /\ a <= b
        BY <1>4, <2>1
      <4> HIDE DEF a, b
      <4> QED BY <1>1, <4>1
    <3> HIDE DEF a, b, T, cells
    <3>2. SubSeq(cells, 1, a) \o SubSeq(cells, a + 1, b) = SubSeq(cells, 1, b)
      BY <1>1, <3>1, CutInTwo
    <3> QED BY <3>2 DEF a, b
  <2> HIDE DEF T, had, has
  <2>4. Added(goal1, n, item, goal2, n)
    <3> HIDE DEF item
    <3> QED BY <2>3 DEF Added, With
  <2> HIDE DEF goal1, goal2, r
  <2>5. Owes(q, goal2) /\ IsClean(q) /\ Grows(r.units, q.units) /\ Len(q.files) = n
    <3>1. /\ k \in 0..(PieceCount(riff) - 1) /\ n = Len(r.files)
          /\ Added(goal1, n, SubSeq(f.cells, EndOf(f, riff, k) + 1, EndOf(f, riff, k + 1)), goal2, n)
      BY <2>1, <2>4 DEF K
    <3>2. IsFile(f) /\ Splits(f) /\ Len(f.cells) >= f.len /\ n \in 1..n
      OBVIOUS
    <3> HIDE DEF cells, item, E
    <3> QED BY <2>1, <3>1, <3>2, WavPieceOwes, ZenonT(200)
  <2> HIDE DEF q
  <2>6. Grows(p.units, q.units)
    BY <1>1, <2>1, <2>5, GrowsOn DEF Owes, Ready
  <2> QED BY <2>2, <2>5, <2>6 DEF goal2, has
<1> HIDE DEF T
<1>7. K \in T /\ K <= K
  BY <1>1, <1>5, <1>6, Counting
<1>8. E(K) = f.len
  <2>1. riff.len \in Nat \ {0} /\ PieceLength(riff) \in Nat \ {0}
    BY PiecesAreCounted
  <2>2. K \in Nat \ {0} /\ K * PieceLength(riff) >= riff.len
    BY <2>1, PiecesReach DEF PieceCount, K
  <2> QED BY <2>2 DEF EndOf
<1> QED BY <1>2, <1>3, <1>7, <1>8 DEF T, seq, K

LEMMA WavSplitOwes ==
    ASSUME NEW f, IsFile(f), Splits(f), NEW p, NEW goal, Owes(p, goal),
           NEW n, n = Len(p.files), n \in 1..n, goal[n] = <<>>
    PROVE  LET q == WavSplit(p, f, LookOf(f.cells).riff)
           IN  \/ q.failed
               \/ /\ Owes(q, With(goal, n, SubSeq(f.cells, 1, f.len), n)) /\ Grows(p.units, q.units)
                  /\ Len(SubSeq(f.cells, 1, f.len)) = f.len
<1> DEFINE riff == LookOf(f.cells).riff
           seq == [k \in 1..PieceCount(riff) |-> k]
           r == Flush(p, "BeforeSolo")
           q == WavSplit(p, f, riff)
<1>1. f.cells \in Seq(Nat) /\ Len(f.cells) \in Nat /\ f.len \in Nat /\ IsPacker(p) /\ AreUnits(p.units)
  BY DEF IsFile, Owes, Ready
<1>2. CASE Len(f.cells) < f.len
  <2>1. q = [p EXCEPT !.failed = TRUE]
    BY <1>2 DEF WavSplit
  <2>2. q.failed
    BY <1>1, <2>1 DEF IsPacker, PackerFields
  <2> QED BY <2>2
<1>3. CASE ~(Len(f.cells) < f.len)
  <2>1. q = PiecesOf(r, f, riff, seq)
    BY <1>3 DEF WavSplit, PiecesOf, PieceCount
  <2>2. Owes(r, goal) /\ IsClean(r) /\ Grows(p.units, r.units)
    BY FlushOwes
  <2>3. Len(r.files) = n
    BY <1>1, FlushKin DEF Kin, SameNames
  <2> HIDE DEF r
  <2>4. /\ Owes(q, With(goal, n, SubSeq(f.cells, 1, f.len), n)) /\ Grows(r.units, q.units)
    <3>1. Len(f.cells) >= f.len
      BY <1>1, <1>3
    <3> HIDE DEF q
    <3> QED BY <2>1, <2>2, <2>3, <3>1, PiecesOwe
  <2> HIDE DEF q
  <2>5. Grows(p.units, q.units)
    BY <1>1, <2>2, <2>4, GrowsOn DEF Owes, Ready
  <2>6. Len(SubSeq(f.cells, 1, f.len)) = f.len
    <3> DEFINE cells == f.cells
               b == f.len
    <3>1. cells \in Seq(Nat) /\ 0 \in 0..Len(cells) /\ b \in 0..Len(cells) /\ 0 <= b
      BY <1>1, <1>3
    <3> HIDE DEF cells, b
    <3>2. Len(SubSeq(cells, 0 + 1, b)) = b - 0
      BY <3>1, CutInTwo
    <3>3. b - 0 = b /\ 0 + 1 = 1
      BY <3>1
    <3>4. Len(SubSeq(cells, 1, b)) = b
      BY <3>2, <3>3
    <3> QED BY <3>4 DEF cells, b
  <2> QED BY <2>4, <2>5, <2>6 DEF q
<1> QED BY <1>2, <1>3

LEMMA FinishedOwes ==
    ASSUME NEW p, NEW goal, Owes(p, goal), NEW n, n = Len(p.files), n \in 1..n, NEW size
    PROVE  LET q == Finished(p, n, size)
           IN  /\ Owes(q, goal) /\ q.units = p.units /\ q.files[n].size = size
               /\ q.failed = p.failed
<1> DEFINE q == Finished(p, n, size)
<1>1. IsPacker(p) /\ AreUnits(p.units) /\ IsSeq(p.files) /\ AreEntries(p.files)
  BY DEF Owes, Ready, IsPacker, AreEntries
<1>2. /\ q = [x \in PackerFields |-> q[x]]
      /\ q.units = p.units /\ q.buf = p.buf /\ q.pending = p.pending /\ q.failed = p.failed
      /\ q.files = Sized(p.files, n, size)
  BY <1>1 DEF IsPacker, PackerFields, Finished, Sized
<1>3. IsPacker(q) /\ Len(q.files) = Len(p.files)
  BY <1>1, SizedKin DEF Kin, SameNames
<1> HIDE DEF q
<1>4. DOMAIN p.files = 1..n
  BY <1>1, SeqFacts
<1>5. ASSUME NEW i \in 1..n
      PROVE  q.files[i].extents = p.files[i].extents /\ (i = n => q.files[i].size = size)
  <2>1. IsEntry(p.files[i])
    BY <1>1 DEF AreEntries
  <2>2. Sized(p.files, n, size)[i] = IF i = n THEN [p.files[i] EXCEPT !.size = size] ELSE p.files[i]
    BY <1>4 DEF Sized
  <2>3. /\ [p.files[i] EXCEPT !.size = size].extents = p.files[i].extents
        /\ [p.files[i] EXCEPT !.size = size].size = size
    BY <2>1 DEF IsEntry, EntryFields
  <2> QED BY <1>2, <2>2, <2>3
<1>6. Owes(q, goal)
  BY <1>1, <1>2, <1>3, <1>5, OwesSame, GrowsNot
<1> QED BY <1>2, <1>5, <1>6 DEF q

LEMMA ClassedOwes ==
    ASSUME NEW p, NEW goal, Owes(p, goal), NEW f, NEW plan
    PROVE  LET q == Classed(Opened(p, f, plan), f, plan)
           IN  Owes(q, goal) /\ Grows(p.units, q.units) /\ Len(q.files) = Len(p.files)
<1> DEFINE r == Opened(p, f, plan)
           q == Classed(r, f, plan)
<1>1. IsPacker(p) /\ AreUnits(p.units)
  BY DEF Owes, Ready
<1>2. Owes(r, goal) /\ Grows(p.units, r.units)
  BY <1>1, FlushOwes, GrowsNot DEF Opened
<1>3. Kin(p, q)
  BY <1>1, OpenedKin
<1> HIDE DEF r
<1>4. IsPacker(r) /\ AreUnits(r.units)
  BY <1>2 DEF Owes, Ready
<1>5. q.units = r.units /\ q.buf = r.buf /\ q.pending = r.pending /\ q.files = r.files
  BY <1>4 DEF Classed, IsPacker, PackerFields
<1> HIDE DEF q
<1>6. IsPacker(q) /\ Len(q.files) = Len(p.files)
  BY <1>3 DEF Kin, SameNames
<1>7. Owes(q, goal)
  BY <1>2, <1>4, <1>5, <1>6, OwesSame, GrowsNot
<1> QED BY <1>2, <1>5, <1>6, <1>7 DEF q, r

LEMMA ItemsAreSlices ==
    ASSUME NEW f, IsFile(f)
    PROVE  Slices(ItemsOf(f), f.cells, Len(f.cells))
<1> DEFINE c == f.cells
<1>1. IsSeq(c) /\ c \in Seq(Nat) /\ Len(c) \in Nat
  BY IsSeqOf DEF IsFile
<1>2. Slices(ChunksOf(Chunks(c)), c, Len(c))
  BY <1>1, ChunksAreSlices
<1>3. Slices(<<c>>, c, Len(c))
  <2> HIDE DEF c
  <2> DEFINE at == [j \in 0..1 |-> IF j = 0 THEN 0 ELSE Len(c)]
  <2>1. at \in [0..1 -> 0..Len(c)] /\ at[0] = 0 /\ at[1] = Len(c)
    BY <1>1
  <2> HIDE DEF at
  <2>2. IsSeq(<<c>>) /\ Len(<<c>>) = 1 /\ <<c>>[1] = c
    BY OneItem
  <2>3. SubSeq(c, 0 + 1, Len(c)) = c
    BY <1>1, SubSeqFull
  <2>4. \A j \in 0..(1 - 1) : j = 0
    OBVIOUS
  <2>5. at[0] <= at[0 + 1] /\ <<c>>[0 + 1] = SubSeq(c, at[0] + 1, at[0 + 1])
    BY <1>1, <2>1, <2>2, <2>3
  <2>6. \A j \in 0..(1 - 1) : at[j] <= at[j + 1] /\ <<c>>[j + 1] = SubSeq(c, at[j] + 1, at[j + 1])
    BY <2>4, <2>5
  <2> QED BY <2>1, <2>2, <2>6 DEF Slices
<1> QED BY <1>2, <1>3 DEF ItemsOf

LEMMA AddOpenedOwes ==
    ASSUME NEW p, NEW goal, Owes(p, goal), NEW n, n = Len(p.files), n \in 1..n, goal[n] = <<>>,
           NEW f, IsFile(f), f.len # 0, NEW plan
    PROVE  LET q == AddOpened(p, f, plan)
           IN  \/ q.failed
               \/ /\ Owes(q, With(goal, n, AsRead(f), n)) /\ Grows(p.units, q.units)
                  /\ q.files[n].size = Len(AsRead(f))
<1>1. IsPacker(p) /\ AreUnits(p.units)
  BY DEF Owes, Ready
<1>2. CASE Splits(f)
  <2> DEFINE q == WavSplit(p, f, LookOf(f.cells).riff)
             goal2 == With(goal, n, SubSeq(f.cells, 1, f.len), n)
             r == Finished(q, n, f.len)
  <2>1. AddOpened(p, f, plan) = r /\ AsRead(f) = SubSeq(f.cells, 1, f.len)
    BY <1>2 DEF AddOpened, Finished, AsRead
  <2>2. \/ q.failed
        \/ /\ Owes(q, goal2) /\ Grows(p.units, q.units)
           /\ Len(SubSeq(f.cells, 1, f.len)) = f.len
    BY <1>2, WavSplitOwes
  <2>3. Kin(p, q)
    BY <1>1, <1>2, WavSplitKin
  <2> HIDE DEF q, goal2
  <2>4. Len(q.files) = n /\ IsPacker(q)
    BY <2>3 DEF Kin, SameNames
  <2>5. CASE q.failed
    <3>1. r.failed
      BY <2>4, <2>5 DEF Finished, IsPacker, PackerFields
    <3> QED BY <2>1, <3>1
  <2>6. CASE Owes(q, goal2) /\ Grows(p.units, q.units) /\ Len(SubSeq(f.cells, 1, f.len)) = f.len
    <3>1. Owes(r, goal2) /\ r.units = q.units /\ r.files[n].size = f.len
      BY <2>4, <2>6, FinishedOwes
    <3> HIDE DEF r
    <3> QED BY <2>1, <2>6, <3>1 DEF goal2
  <2> QED BY <2>2, <2>5, <2>6
<1>3. CASE ~Splits(f)
  <2> DEFINE q == PlacedAll(p, n, ItemsOf(f))
             goal2 == With(goal, n, f.cells, n)
             s == IF Alone(f, plan) THEN Flush(q, "Solo") ELSE q
             r == Finished(s, n, Len(f.cells))
  <2>1. IsSeq(ItemsOf(f)) /\ Slices(ItemsOf(f), f.cells, Len(f.cells)) /\ f.cells \in Seq(Nat)
    BY ItemsAreSeq, ItemsAreSlices DEF IsFile
  <2>2. Owes(q, goal2) /\ Grows(p.units, q.units)
    BY <2>1, PlacedAllOwes
  <2>3. Len(q.files) = n
    BY <1>1, <2>1, PlacedAllKin DEF Kin, SameNames
  <2>4. AddOpened(p, f, plan) = r /\ AsRead(f) = f.cells
    BY <1>3, <2>3 DEF AddOpened, Done, ItemsOf, Finished, AsRead
  <2> HIDE DEF q, goal2
  <2>5. IsPacker(q) /\ AreUnits(q.units)
    BY <2>2 DEF Owes, Ready
  <2>6. Owes(s, goal2) /\ Grows(q.units, s.units) /\ Len(s.files) = n
    BY <2>2, <2>3, <2>5, FlushOwes, FlushKin, GrowsNot DEF Kin, SameNames
  <2> HIDE DEF s
  <2>7. Owes(r, goal2) /\ r.units = s.units /\ r.files[n].size = Len(f.cells)
    BY <2>6, FinishedOwes
  <2> HIDE DEF r
  <2>8. Grows(p.units, s.units)
    BY <1>1, <2>2, <2>5, <2>6, GrowsOn DEF Owes, Ready
  <2> QED BY <2>4, <2>7, <2>8 DEF goal2
<1> QED BY <1>2, <1>3

\* A file that is listed has nothing yet.
LEMMA ListedOwes ==
    ASSUME NEW p, NEW goal, Owes(p, goal), NEW f, NEW N, N = Len(p.files)
    PROVE  LET q == Listed(p, f)
           IN  /\ Owes(q, With(goal, N + 1, <<>>, N + 1)) /\ q.units = p.units
               /\ IsSeq(q.files) /\ Len(q.files) = N + 1
               /\ \A i \in 1..N : q.files[i] = p.files[i]
               /\ q.files[N + 1] = [path |-> f.path, size |-> f.len, dir |-> FALSE, extents |-> <<>>]
<1> DEFINE e == [path |-> f.path, size |-> f.len, dir |-> FALSE, extents |-> <<>>]
           q == Listed(p, f)
           goal2 == With(goal, N + 1, <<>>, N + 1)
<1>1. /\ IsPacker(p) /\ AreUnits(p.units) /\ IsSeq(p.files) /\ N \in Nat /\ AreEntries(p.files)
      /\ IsSeq(p.pending) /\ Len(p.pending) \in Nat
  BY SeqFacts DEF Owes, Ready, IsPacker, AreEntries
<1>2. /\ q = [x \in PackerFields |-> q[x]]
      /\ q.pending = p.pending /\ q.files = Append(p.files, e)
      /\ q.units = p.units /\ q.buf = p.buf
  <2> HIDE DEF e
  <2> QED BY <1>1 DEF Listed, IsPacker, PackerFields, e
<1>3. IsEntry(e) /\ e.extents = <<>>
  BY DEF IsEntry, EntryFields
<1> HIDE DEF e, q
<1>4. /\ IsSeq(q.files) /\ Len(q.files) = N + 1 /\ q.files[N + 1] = e
      /\ \A k \in 1..N : q.files[k] = p.files[k]
  <2> DEFINE fs == p.files
             gs == Append(fs, e)
  <2>1. IsSeq(fs) /\ N = Len(fs) /\ q.files = gs
    BY <1>1, <1>2
  <2> HIDE DEF fs
  <2>2. /\ IsSeq(gs) /\ Len(gs) = Len(fs) + 1 /\ gs[Len(fs) + 1] = e
        /\ \A k \in 1..Len(fs) : gs[k] = fs[k]
    BY <2>1, AppendAny
  <2> HIDE DEF gs
  <2> QED BY <2>1, <2>2 DEF fs
<1>5. \A k \in 1..Len(q.files) : k \in 1..N \/ k = N + 1
  BY <1>1, <1>4
<1>6. \A k \in 1..N : k \in 1..(N + 1) /\ k # N + 1
  BY <1>1
<1>7. AreEntries(q.files)
  BY <1>1, <1>3, <1>4, <1>5 DEF AreEntries
<1>8. IsPacker(q)
  BY <1>1, <1>2, <1>7 DEF IsPacker
<1>9. Ready(q)
  BY <1>1, <1>2, <1>4, <1>6, <1>8 DEF Owes, Ready
<1>10. ASSUME NEW k \in 1..N PROVE Due(q, k, goal2[k])
  <2>1. PICK h : /\ DueBy(p, k, h) /\ h[Len(p.pending)] = goal[k]
                 /\ Spells(p.units, p.files[k].extents, h[0])
    BY DEF Owes, Due
  <2>2. DueBy(q, k, h)
    BY <1>2, <2>1 DEF DueBy, Taken
  <2>3. goal2[k] = goal[k]
    BY <1>6 DEF With
  <2> QED BY <1>2, <1>4, <2>1, <2>2, <2>3 DEF Due
<1>11. Due(q, N + 1, goal2[N + 1])
  <2> DEFINE h == [k \in 0..Len(p.pending) |-> <<>>]
  <2>1. /\ h \in [0..Len(p.pending) -> Seq(Nat)]
        /\ \A k \in 0..Len(p.pending) : h[k] = <<>>
    OBVIOUS
  <2> HIDE DEF h
  <2>2. ASSUME NEW k \in 0..(Len(p.pending) - 1) PROVE h[k + 1] = Taken(q, N + 1, h[k], k + 1)
    <3>1. k \in 0..Len(p.pending) /\ k + 1 \in 0..Len(p.pending) /\ k + 1 \in 1..Len(p.pending)
      BY <1>1
    <3>2. q.pending[k + 1].file # N + 1
      BY <1>2, <1>6, <3>1 DEF Owes, Ready
    <3> QED BY <2>1, <3>1, <3>2 DEF Taken
  <2>3. DueBy(q, N + 1, h)
    BY <1>2, <2>1, <2>2 DEF DueBy
  <2>4. N + 1 \in 1..(N + 1)
    BY <1>1
  <2>5. goal2[N + 1] = <<>> /\ 0 \in 0..Len(p.pending) /\ Len(p.pending) \in 0..Len(p.pending)
    BY <1>1, <2>4 DEF With
  <2>6. Spells(q.units, q.files[N + 1].extents, h[0])
    BY <1>3, <1>4, <2>1, <2>5, SpellsNothing
  <2> QED BY <1>2, <2>1, <2>3, <2>5, <2>6 DEF Due
<1> HIDE DEF goal2
<1>12. Owes(q, goal2)
  BY <1>5, <1>9, <1>10, <1>11 DEF Owes
<1> QED BY <1>2, <1>4, <1>12 DEF q, e, goal2

\* The file is the last entry and the others are as before.
IsLast(fs, gs, f) ==
    /\ Len(gs) = Len(fs) + 1
    /\ \A i \in 1..Len(fs) : /\ gs[i].path = fs[i].path /\ gs[i].dir = fs[i].dir
                             /\ gs[i].size = fs[i].size
    /\ gs[Len(gs)].path = f.path /\ ~gs[Len(gs)].dir
    /\ gs[Len(gs)].size = Len(AsRead(f))

\* What add_file owes: all that was read of the file, for as long as nothing failed.
LEMMA AddFileOwes ==
    ASSUME NEW p, NEW goal, Owes(p, goal), NEW f, IsFile(f), NEW N, N = Len(p.files)
    PROVE  LET q == AddFile(p, f)
           IN  \/ q.failed
               \/ /\ Owes(q, With(goal, N + 1, AsRead(f), N + 1)) /\ Grows(p.units, q.units)
                  /\ IsLast(p.files, q.files, f)
<1> DEFINE q == AddFile(p, f)
           r == Listed(p, f)
           n == N + 1
           goal1 == With(goal, n, <<>>, n)
           goal2 == With(goal, n, AsRead(f), n)
           e == [path |-> f.path, size |-> f.len, dir |-> FALSE, extents |-> <<>>]
<1>1. N \in Nat /\ AreUnits(p.units) /\ IsPacker(p)
  BY SeqFacts DEF Owes, Ready, IsPacker, AreEntries
<1>2. /\ Owes(r, goal1) /\ r.units = p.units
      /\ IsSeq(r.files) /\ Len(r.files) = n /\ \A i \in 1..N : r.files[i] = p.files[i]
      /\ r.files[n] = e
  BY ListedOwes
<1>3. Kin(r, q)
  BY <1>2, AddFileKin DEF Owes, Ready
<1>4. e.path = f.path /\ e.size = f.len /\ ~e.dir
  OBVIOUS
<1>5. goal1[n] = <<>> /\ n \in 1..n /\ \A i \in 1..N : i \in 1..n /\ i < n
  BY <1>1 DEF With
<1> HIDE DEF r, q, e
<1>6. q.files[n].size = Len(AsRead(f)) => IsLast(p.files, q.files, f)
  <2>1. Len(q.files) = n
    BY <1>2, <1>3 DEF Kin, SameNames
  <2> HIDE DEF n
  <2> QED BY <1>2, <1>3, <1>4, <1>5, <2>1 DEF Kin, SameNames, IsLast, n
<1>7. CASE f.len = 0
  <2>1. q = r
    BY <1>7 DEF AddFile, q, r
  <2>2. AsRead(f) = <<>>
    <3>1. AsRead(f) = SubSeq(f.cells, 1, 0)
      BY <1>7 DEF AsRead
    <3> QED BY <3>1, SubSeqEmpty
  <2>3. q.files[n].size = Len(AsRead(f))
    BY <1>2, <1>4, <1>7, <2>1, <2>2, EmptyIsSeq
  <2>4. Grows(p.units, q.units)
    BY <1>1, <1>2, <2>1, GrowsNot
  <2> HIDE DEF n
  <2> QED BY <1>2, <1>6, <2>1, <2>2, <2>3, <2>4 DEF q, n
<1>8. CASE f.len # 0
  <2> DEFINE plan == FilePlan(f, p.tier)
             s == Classed(Opened(r, f, plan), f, plan)
  <2>1. q = AddOpened(s, f, plan)
    BY <1>8 DEF AddFile, AddPlanned, q, r
  <2>2. Owes(s, goal1) /\ Grows(r.units, s.units) /\ Len(s.files) = n
    BY <1>2, ClassedOwes
  <2> HIDE DEF plan, s
  <2>3. \/ q.failed
        \/ /\ Owes(q, With(goal1, n, AsRead(f), n)) /\ Grows(s.units, q.units)
           /\ q.files[n].size = Len(AsRead(f))
    <3> HIDE DEF n, goal1
    <3> QED BY <1>5, <1>8, <2>1, <2>2, AddOpenedOwes
  <2>4. With(goal1, n, AsRead(f), n) = goal2
    BY DEF With
  <2> HIDE DEF goal1, goal2
  <2>5. CASE q.failed
    BY <2>5 DEF q
  <2>6. CASE Owes(q, goal2) /\ Grows(s.units, q.units) /\ q.files[n].size = Len(AsRead(f))
    <3>1. Grows(p.units, q.units)
      BY <1>1, <1>2, <2>2, <2>6, GrowsOn DEF Owes, Ready
    <3> QED BY <1>6, <2>6, <3>1 DEF q, goal2
  <2> QED BY <2>3, <2>4, <2>5, <2>6
<1> QED BY <1>7, <1>8

LEMMA FoldsOfTheModel ==
    /\ \A cache, e, lanes, damaged :
          InWindows(cache, e, lanes, damaged) = DecodedIn(cache, Windows(e.extents, lanes), damaged)
    /\ \A lanes, damaged : Extracted(lanes, damaged) = ExtractedFrom(files, lanes, damaged).out
    /\ Live = LiveIn(FlattenSeq([i \in DOMAIN files |-> files[i].extents]))
<1>1. ASSUME NEW cache, NEW e, NEW lanes, NEW damaged
      PROVE  InWindows(cache, e, lanes, damaged) = DecodedIn(cache, Windows(e.extents, lanes), damaged)
  BY DEF InWindows, DecodedIn, DecodeOne, PiecesIn, ReadNothing
<1>2. ASSUME NEW lanes, NEW damaged
      PROVE  Extracted(lanes, damaged) = ExtractedFrom(files, lanes, damaged).out
  BY DEF Extracted, ExtractedFrom, ExtractOne, NothingOut
<1>3. Live = LiveIn(FlattenSeq([i \in DOMAIN files |-> files[i].extents]))
  BY DEF Live, LiveIn
<1> QED BY <1>1, <1>2, <1>3

\* One sequence after the other.
LEMMA FlattenRuns ==
    ASSUME NEW S, NEW seqs, IsSeq(seqs), \A i \in 1..Len(seqs) : seqs[i] \in Seq(S)
    PROVE  \E g : /\ IsRun(g, "join", 0, <<>>, seqs) /\ g[Len(seqs)] = FlattenSeq(seqs)
                  /\ g \in [0..Len(seqs) -> Seq(S)]
<1> DEFINE n == Len(seqs)
<1>1. n \in Nat /\ DOMAIN seqs = 1..n /\ (seqs = <<>> <=> n = 0)
  BY SeqFacts
<1>2. PICK f_1 : IsFold(f_1, "join", 0, <<>>, seqs)
  BY <1>1, FoldExists
<1>3. PICK f_2 : IsRun(f_2, "join", 0, <<>>, seqs)
  BY <1>2, FoldRuns
<1> HIDE DEF n
<1> DEFINE g == [k \in 0..n |-> f_2[k]]
<1>4. g[0] = <<>> /\ \A k \in 0..(n - 1) : g[k + 1] = g[k] \o seqs[k + 1]
  <2>1. \A k \in 0..(n - 1) : k \in 0..n /\ k + 1 \in 0..n
    BY <1>1
  <2>2. f_2[0] = <<>> /\ \A k \in 0..(n - 1) : f_2[k + 1] = f_2[k] \o seqs[k + 1]
    BY <1>3 DEF IsRun, OneStep, n
  <2>3. 0 \in 0..n
    BY <1>1
  <2> QED BY <2>1, <2>2, <2>3
<1>5. g = [k \in 0..n |-> g[k]]
  OBVIOUS
<1> HIDE DEF g
<1>6. \A k \in 0..n : g[k] \in Seq(S)
  <2> DEFINE T == { k \in Nat : k <= n => g[k] \in Seq(S) }
  <2>1. 0 \in T
    <3>1. <<>> \in Seq(S)
      OBVIOUS
    <3> QED BY <1>4, <3>1
  <2>2. ASSUME NEW k \in Nat, k \in T PROVE k + 1 \in T
    <3> SUFFICES ASSUME k + 1 <= n PROVE g[k + 1] \in Seq(S)
      OBVIOUS
    <3>1. k \in 0..(n - 1) /\ k + 1 \in 1..n /\ g[k] \in Seq(S)
      BY <1>1, <2>2
    <3>2. g[k + 1] = g[k] \o seqs[k + 1] /\ seqs[k + 1] \in Seq(S)
      BY <1>4, <3>1 DEF n
    <3> QED BY <3>1, <3>2, ConcatProperties
  <2> HIDE DEF T
  <2>3. \A k \in Nat : k \in T
    BY <2>1, <2>2, Counting
  <2> QED BY <1>1, <2>3 DEF T
<1>7. g[n] = FlattenSeq(seqs)
  <2>1. CASE n = 0
    BY <1>1, <1>4, <2>1 DEF FlattenSeq, n
  <2>2. CASE n # 0
    <3> DEFINE Flat(f) == [i \in 1..n |-> IF i = 1 THEN seqs[i] ELSE f[i - 1] \o seqs[i]]
               f == CHOOSE f_3 : f_3 = Flat(f_3)
               h == [i \in 1..n |-> g[i]]
    <3>1. FlattenSeq(seqs) = f[n]
      BY <2>2 DEF FlattenSeq, n
    <3>2. ASSUME NEW i \in 1..n PROVE g[i] = IF i = 1 THEN seqs[i] ELSE g[i - 1] \o seqs[i]
      <4>1. i - 1 \in 0..(n - 1) /\ (i - 1) + 1 = i /\ i - 1 \in 0..n
        BY <1>1
      <4>2. g[i] = g[i - 1] \o seqs[i]
        BY <1>4, <4>1
      <4>3. CASE i = 1
        <5>1. g[i - 1] = <<>> /\ seqs[i] \in Seq(S)
          BY <1>4, <4>3 DEF n
        <5> QED BY <4>2, <4>3, <5>1, ConcatEmptySeq
      <4> QED BY <4>2, <4>3
    <3>3. h = Flat(h)
      <4>1. \A i \in 1..n : i # 1 => i - 1 \in 1..n
        BY <1>1
      <4>2. \A i \in 1..n : h[i] = IF i = 1 THEN seqs[i] ELSE h[i - 1] \o seqs[i]
        BY <3>2, <4>1
      <4> QED BY <4>2
    <3>4. f = Flat(f)
      <4> HIDE DEF Flat, h
      <4> QED BY <3>3
    <3> HIDE DEF f
    <3>5. \A i \in 1..n : f[i] = IF i = 1 THEN seqs[i] ELSE f[i - 1] \o seqs[i]
      BY <3>4
    <3> HIDE DEF Flat, h
    <3> DEFINE T == { k \in Nat : k + 1 <= n => f[k + 1] = g[k + 1] }
    <3>6. 0 \in T
      <4>1. 1 \in 1..n
        BY <1>1, <2>2
      <4>2. f[1] = g[1]
        BY <3>2, <3>5, <4>1
      <4>3. 0 + 1 = 1
        OBVIOUS
      <4> QED BY <4>2, <4>3
    <3>7. ASSUME NEW k \in Nat, k \in T PROVE k + 1 \in T
      <4> SUFFICES ASSUME (k + 1) + 1 <= n PROVE f[(k + 1) + 1] = g[(k + 1) + 1]
        OBVIOUS
      <4> DEFINE i == (k + 1) + 1
      <4>1. i \in 1..n /\ i # 1 /\ i - 1 = k + 1 /\ k + 1 <= n
        BY <1>1
      <4>2. f[k + 1] = g[k + 1]
        BY <3>7, <4>1
      <4> HIDE DEF i
      <4>3. f[i] = g[i]
        BY <3>2, <3>5, <4>1, <4>2
      <4> QED BY <4>3 DEF i
    <3> HIDE DEF T
    <3>8. \A k \in Nat : k \in T
      BY <3>6, <3>7, Counting
    <3>9. n - 1 \in Nat /\ (n - 1) + 1 = n
      BY <1>1, <2>2
    <3>10. f[n] = g[n]
      <4>1. n - 1 \in T
        BY <3>8, <3>9
      <4>2. (n - 1) + 1 <= n => f[(n - 1) + 1] = g[(n - 1) + 1]
        BY <4>1 DEF T
      <4> QED BY <1>1, <3>9, <4>2
    <3> QED BY <3>1, <3>10
  <2> QED BY <2>1, <2>2
<1>8. IsRun(g, "join", 0, <<>>, seqs)
  BY <1>4 DEF IsRun, OneStep, n
<1>9. g \in [0..n -> Seq(S)]
  BY <1>5, <1>6
<1> QED BY <1>7, <1>8, <1>9 DEF n

----------------------------------------------------------------------------
(* Reading: one decoder, whatever it has in its cache, gives what the        *)
(* extents spell, or nothing where one of them is in a unit that is damaged. *)

\* The cache has a unit that verified, or none yet.
IsCache(cache, damaged) ==
    /\ cache = [idx |-> cache.idx, data |-> cache.data]
    /\ cache.idx # 0 => /\ cache.idx \in 1..Len(units) /\ cache.idx \notin damaged
                        /\ cache.data = units[cache.idx].cells

IsHit(xs, k, damaged) == \E m \in 1..k : xs[m].unit \in damaged

\* What was read of the first k extents.
HasRead(state, xs, k, s, damaged) ==
    /\ state = [ok |-> state.ok, cache |-> state.cache, out |-> state.out]
    /\ IsCache(state.cache, damaged)
    /\ IsHit(xs, k, damaged) => state.ok = FALSE
    /\ ~IsHit(xs, k, damaged) => state.ok = TRUE /\ state.out = s[k]

LEMMA LoadGives ==
    ASSUME AreUnits(units), NEW cache, NEW damaged, IsCache(cache, damaged),
           NEW unit \in 1..Len(units)
    PROVE  LET loaded == Load(cache, unit, damaged)
           IN  /\ IsCache(loaded.cache, damaged)
               /\ unit \in damaged => loaded.ok = FALSE
               /\ unit \notin damaged => loaded.ok = TRUE /\ loaded.cache.data = units[unit].cells
<1>1. unit # 0
  OBVIOUS
<1>2. CASE cache.idx = unit
  <2>1. Load(cache, unit, damaged) = [ok |-> TRUE, cache |-> cache]
    BY <1>2 DEF Load
  <2> QED BY <1>1, <1>2, <2>1 DEF IsCache
<1>3. CASE cache.idx # unit /\ unit \in damaged
  <2>1. Load(cache, unit, damaged) = [ok |-> FALSE, cache |-> cache]
    BY <1>3 DEF Load
  <2> QED BY <1>3, <2>1
<1>4. CASE cache.idx # unit /\ unit \notin damaged
  <2>1. Load(cache, unit, damaged) = [ok |-> TRUE, cache |-> [idx |-> unit, data |-> units[unit].cells]]
    BY <1>4 DEF Load
  <2> QED BY <1>4, <2>1 DEF IsCache
<1> QED BY <1>2, <1>3, <1>4

LEMMA HitOrNot ==
    ASSUME NEW xs, NEW k \in Nat, NEW damaged
    PROVE  IsHit(xs, k + 1, damaged) <=> IsHit(xs, k, damaged) \/ xs[k + 1].unit \in damaged
<1>1. \A m : m \in 1..k + 1 <=> m \in 1..k \/ m = k + 1
  OBVIOUS
<1> QED BY <1>1 DEF IsHit

LEMMA WrittenReads ==
    ASSUME AreUnits(units), NEW xs, NEW s, NEW k \in Nat, IsExtent(units, xs[k + 1]),
           s[k + 1] = s[k] \o PieceOf(units, xs[k + 1]),
           NEW damaged, NEW state, HasRead(state, xs, k, s, damaged)
    PROVE  HasRead(Written(state, xs[k + 1], damaged), xs, k + 1, s, damaged)
<1> DEFINE x == xs[k + 1]
           loaded == Load(state.cache, x.unit, damaged)
           data == loaded.cache.data
<1>1. /\ IsHit(xs, k + 1, damaged) <=> IsHit(xs, k, damaged) \/ x.unit \in damaged
      /\ IsExtent(units, x) /\ s[k + 1] = s[k] \o PieceOf(units, x)
  BY HitOrNot
<1> HIDE DEF x
<1>2. /\ IsCache(loaded.cache, damaged)
      /\ x.unit \in damaged => loaded.ok = FALSE
      /\ x.unit \notin damaged => loaded.ok = TRUE /\ data = units[x.unit].cells
  BY <1>1, LoadGives DEF IsExtent, HasRead
<1>3. /\ state = [ok |-> state.ok, cache |-> state.cache, out |-> state.out]
      /\ IsHit(xs, k, damaged) => state.ok = FALSE
      /\ ~IsHit(xs, k, damaged) => state.ok = TRUE /\ state.out = s[k]
      /\ IsCache(state.cache, damaged)
  BY DEF HasRead
<1>4. CASE IsHit(xs, k, damaged)
  <2>1. Written(state, x, damaged) = state
    BY <1>3, <1>4 DEF Written
  <2> QED BY <1>1, <1>3, <1>4, <2>1 DEF HasRead, x
<1>5. CASE ~IsHit(xs, k, damaged) /\ x.unit \in damaged
  <2>1. Written(state, x, damaged) = [state EXCEPT !.ok = FALSE, !.cache = loaded.cache]
    BY <1>2, <1>3, <1>5 DEF Written
  <2> HIDE DEF loaded
  <2>2. Written(state, x, damaged) = [ok |-> FALSE, cache |-> loaded.cache, out |-> state.out]
    BY <1>3, <2>1
  <2> QED BY <1>1, <1>2, <1>5, <2>2 DEF HasRead, x
<1>6. CASE ~IsHit(xs, k, damaged) /\ x.unit \notin damaged
  <2>1. IsWithin(x, data) /\ CutOut(data, x) = PieceOf(units, x)
    BY <1>1, <1>2, <1>6 DEF IsExtent, PieceOf
  <2>2. ~(x.off + x.len > Len(data))
    <3>1. x.off + x.len <= Len(data) /\ x.off + x.len \in Nat
      BY <2>1 DEF IsWithin
    <3>2. Len(data) \in Nat
      <4>1. data \in Seq(Nat)
        BY <1>1, <1>2, <1>6 DEF AreUnits, IsExtent
      <4> QED BY <4>1
    <3> HIDE DEF data
    <3> QED BY <3>1, <3>2
  <2>3. Written(state, x, damaged) =
          [state EXCEPT !.cache = loaded.cache, !.out = state.out \o CutOut(data, x)]
    BY <1>2, <1>3, <1>6, <2>2 DEF Written
  <2> HIDE DEF data, loaded
  <2>4. Written(state, x, damaged) =
          [ok |-> state.ok, cache |-> loaded.cache, out |-> state.out \o CutOut(data, x)]
    BY <1>3, <2>3
  <2>5. state.out \o CutOut(data, x) = s[k + 1]
    BY <1>1, <1>3, <1>6, <2>1
  <2> DEFINE w == Written(state, x, damaged)
  <2>6. /\ w = [ok |-> w.ok, cache |-> w.cache, out |-> w.out]
        /\ w.ok = TRUE /\ w.cache = loaded.cache /\ w.out = s[k + 1]
    <3> DEFINE c == loaded.cache
               o == state.out \o CutOut(data, x)
    <3>1. w = [ok |-> state.ok, cache |-> c, out |-> o]
      BY <2>4
    <3>2. o = s[k + 1] /\ state.ok = TRUE
      BY <1>3, <1>6, <2>5
    <3> HIDE DEF c, o, w
    <3>3. w.ok = state.ok /\ w.cache = c /\ w.out = o
      BY <3>1
    <3> QED BY <3>1, <3>2, <3>3 DEF c
  <2> HIDE DEF w
  <2>7. ~IsHit(xs, k + 1, damaged)
    BY <1>1, <1>6
  <2>8. HasRead(w, xs, k + 1, s, damaged)
    BY <1>2, <2>6, <2>7 DEF HasRead
  <2> QED BY <2>8 DEF w, x
<1> QED BY <1>4, <1>5, <1>6 DEF x

LEMMA NothingIsRead ==
    ASSUME NEW xs, NEW s, s[0] = <<>>, NEW damaged, NEW cache, IsCache(cache, damaged)
    PROVE  HasRead(ReadNothing(cache), xs, 0, s, damaged)
<1>1. ~IsHit(xs, 0, damaged)
  BY DEF IsHit
<1> QED BY <1>1 DEF HasRead, ReadNothing

\* One extent after the other, through the one cache.
LEMMA InOrderReads ==
    ASSUME AreUnits(units), NEW e, IsSeq(e.extents),
           \A k \in 1..Len(e.extents) : IsExtent(units, e.extents[k]),
           NEW s, SpelledBy(units, e.extents, s),
           NEW damaged, NEW cache, IsCache(cache, damaged)
    PROVE  HasRead(InOrder(cache, e, damaged), e.extents, Len(e.extents), s, damaged)
<1> DEFINE xs == e.extents
           n == Len(xs)
<1>1. n \in Nat
  BY SeqFacts
<1>2. PICK g : /\ IsRun(g, "write", damaged, ReadNothing(cache), xs)
               /\ g[n] = InOrder(cache, e, damaged)
  BY InOrderRuns
<1>3. s[0] = <<>> /\ \A k \in 0..(n - 1) : s[k + 1] = s[k] \o PieceOf(units, xs[k + 1])
  BY DEF SpelledBy
<1>4. \A k \in 1..n : IsExtent(units, xs[k])
  OBVIOUS
<1>5. g[0] = ReadNothing(cache) /\ \A k \in 0..(n - 1) : g[k + 1] = Written(g[k], xs[k + 1], damaged)
  BY <1>2 DEF IsRun, OneStep
<1> HIDE DEF xs, n
<1> DEFINE T == { k \in Nat : k <= n => HasRead(g[k], xs, k, s, damaged) }
<1>6. 0 \in T
  BY <1>3, <1>5, NothingIsRead
<1>7. ASSUME NEW k \in Nat, k \in T PROVE k + 1 \in T
  <2> SUFFICES ASSUME k + 1 <= n PROVE HasRead(g[k + 1], xs, k + 1, s, damaged)
    OBVIOUS
  <2>1. k \in 0..(n - 1) /\ k + 1 \in 1..n /\ HasRead(g[k], xs, k, s, damaged)
    BY <1>1, <1>7
  <2> HIDE DEF T
  <2> QED BY <1>3, <1>4, <1>5, <2>1, WrittenReads
<1> HIDE DEF T
<1>8. n \in T /\ n <= n
  BY <1>1, <1>6, <1>7, Counting
<1> QED BY <1>2, <1>8 DEF T, xs, n

LEMMA SubSeqAppend ==
    ASSUME NEW xs, IsSeq(xs), NEW k \in Nat, k < Len(xs), NEW n \in 0..k
    PROVE  Append(SubSeq(xs, n + 1, k), xs[k + 1]) = SubSeq(xs, n + 1, k + 1)
<1> DEFINE had == SubSeq(xs, n + 1, k)
           x == xs[k + 1]
           now == Append(had, x)
           s == SubSeq(xs, n + 1, k + 1)
<1>1. Len(xs) \in Nat
  BY SeqFacts
<1>2. IsSeq(had) /\ Len(had) = k - n /\ \A i \in 1..(k - n) : had[i] = xs[n + i]
  BY <1>1, SubSeqAny
<1>3. IsSeq(s) /\ Len(s) = (k + 1) - n /\ \A i \in 1..((k + 1) - n) : s[i] = xs[n + i]
  BY <1>1, SubSeqAny
<1> HIDE DEF had, s, x
<1>4. /\ IsSeq(now) /\ Len(now) = Len(had) + 1 /\ now[Len(had) + 1] = x
      /\ \A i \in 1..Len(had) : now[i] = had[i]
  BY <1>2, AppendAny
<1> HIDE DEF now
<1>5. ASSUME NEW i \in 1..Len(now) PROVE now[i] = s[i]
  <2>1. CASE i <= k - n
    BY <1>2, <1>3, <1>4, <2>1
  <2>2. CASE i = (k - n) + 1
    <3>1. n + i = k + 1
      BY <2>2
    <3> QED BY <1>2, <1>3, <1>4, <2>2, <3>1 DEF x
  <2> QED BY <1>2, <1>4, <2>1, <2>2
<1>6. Len(now) = Len(s)
  BY <1>2, <1>3, <1>4
<1> QED BY <1>3, <1>4, <1>5, <1>6, SameSeq DEF now, had, s, x

\* A window has the extents behind the first a, up to b, and their units.
IsWindow(w, xs, a, b) ==
    w.extents = SubSeq(xs, a + 1, b) /\ w.units = { xs[m].unit : m \in (a + 1)..b }

\* The windows have the first k extents, one after the other.
AreWindowsAt(ws, xs, k, at) ==
    /\ IsSeq(ws) /\ at \in [0..Len(ws) -> 0..k]
    /\ at[0] = 0 /\ at[Len(ws)] = k
    /\ \A j \in 0..(Len(ws) - 1) : at[j] <= at[j + 1] /\ IsWindow(ws[j + 1], xs, at[j], at[j + 1])
AreWindows(ws, xs, k) == \E at : AreWindowsAt(ws, xs, k, at)

LEMMA WindowOpens ==
    ASSUME NEW xs, IsSeq(xs), NEW k \in Nat, k < Len(xs), NEW ws, AreWindows(ws, xs, k),
           NEW w, IsWindow(w, xs, k, k + 1)
    PROVE  AreWindows(Append(ws, w), xs, k + 1)
<1> DEFINE new == Append(ws, w)
           n == Len(ws)
<1>1. PICK at : AreWindowsAt(ws, xs, k, at)
  BY DEF AreWindows
<1>2. IsSeq(ws) /\ n \in Nat
  BY <1>1, SeqFacts DEF AreWindowsAt
<1>3. /\ IsSeq(new) /\ Len(new) = n + 1 /\ new[n + 1] = w
      /\ \A i \in 1..n : new[i] = ws[i]
  BY <1>2, AppendAny
<1>4. /\ at \in [0..n -> 0..k] /\ at[0] = 0 /\ at[n] = k
      /\ \A j \in 0..(n - 1) : at[j] <= at[j + 1] /\ IsWindow(ws[j + 1], xs, at[j], at[j + 1])
  BY <1>1 DEF AreWindowsAt
<1> HIDE DEF n, new
<1> DEFINE to == [j \in 0..n + 1 |-> IF j = n + 1 THEN k + 1 ELSE at[j]]
<1>5. to \in [0..n + 1 -> 0..k + 1] /\ to[0] = 0 /\ to[n + 1] = k + 1
  BY <1>2, <1>4
<1>6. \A j \in 0..n : to[j] = at[j]
  BY <1>2
<1> HIDE DEF to
<1>7. ASSUME NEW j \in 0..n
      PROVE  to[j] <= to[j + 1] /\ IsWindow(new[j + 1], xs, to[j], to[j + 1])
  <2>1. CASE j = n
    <3>1. to[n] = k /\ k <= k + 1
      BY <1>2, <1>4, <1>6
    <3> QED BY <1>3, <1>5, <2>1, <3>1
  <2>2. CASE j # n
    <3>1. j \in 0..(n - 1) /\ j + 1 \in 1..n /\ j + 1 \in 0..n
      BY <1>2, <2>2
    <3> QED BY <1>3, <1>4, <1>6, <3>1
  <2> QED BY <2>1, <2>2
<1>8. (n + 1) - 1 = n
  BY <1>2
<1>9. AreWindowsAt(new, xs, k + 1, to)
  BY <1>3, <1>5, <1>7, <1>8 DEF AreWindowsAt
<1> QED BY <1>9 DEF AreWindows, new

LEMMA WindowGrows ==
    ASSUME NEW xs, IsSeq(xs), NEW k \in Nat, k < Len(xs), NEW ws, AreWindows(ws, xs, k), ws # <<>>,
           NEW w, w = [units |-> ws[Len(ws)].units \cup {xs[k + 1].unit},
                       extents |-> Append(ws[Len(ws)].extents, xs[k + 1])]
    PROVE  AreWindows([ws EXCEPT ![Len(ws)] = w], xs, k + 1)
<1> DEFINE n == Len(ws)
           new == [ws EXCEPT ![n] = w]
           hs == [j \in 1..n |-> IF j = n THEN w ELSE ws[j]]
<1>1. PICK at : AreWindowsAt(ws, xs, k, at)
  BY DEF AreWindows
<1>2. IsSeq(ws) /\ n \in Nat \ {0} /\ DOMAIN ws = 1..n
  BY <1>1, SeqFacts DEF AreWindowsAt
<1>3. new = hs
  <2> HIDE DEF n
  <2>1. ws = [j \in 1..n |-> ws[j]]
    BY <1>1, SeqFacts DEF AreWindowsAt, n
  <2> QED BY <2>1
<1>4. hs = [j \in 1..n |-> hs[j]] /\ \A j \in 1..n : hs[j] = IF j = n THEN w ELSE ws[j]
  OBVIOUS
<1>5. /\ at \in [0..n -> 0..k] /\ at[0] = 0 /\ at[n] = k
      /\ \A j \in 0..(n - 1) : at[j] <= at[j + 1] /\ IsWindow(ws[j + 1], xs, at[j], at[j + 1])
  BY <1>1 DEF AreWindowsAt
<1>6. /\ w.units = ws[n].units \cup {xs[k + 1].unit}
      /\ w.extents = Append(ws[n].extents, xs[k + 1])
  OBVIOUS
<1> HIDE DEF n, new, hs
<1>7. IsSeq(hs) /\ Len(hs) = n
  BY <1>2, <1>4, IsSeqByLength
<1> DEFINE a == at[n - 1]
           to == [j \in 0..n |-> IF j = n THEN k + 1 ELSE at[j]]
<1>8. /\ n - 1 \in 0..(n - 1) /\ (n - 1) + 1 = n /\ n - 1 \in 0..n /\ n - 1 # n
      /\ 0 \in 0..n /\ 0 # n
  BY <1>2
<1>9. a \in 0..k /\ IsWindow(ws[n], xs, a, k)
  BY <1>5, <1>8
<1>10. IsWindow(w, xs, a, k + 1)
  <2> HIDE DEF a
  <2>1. Append(SubSeq(xs, a + 1, k), xs[k + 1]) = SubSeq(xs, a + 1, k + 1)
    BY <1>9, SubSeqAppend
  <2>2. \A m : m \in (a + 1)..(k + 1) <=> m \in (a + 1)..k \/ m = k + 1
    BY <1>9
  <2> QED BY <1>6, <1>9, <2>1, <2>2 DEF IsWindow
<1>11. to \in [0..n -> 0..k + 1] /\ to[0] = 0 /\ to[n] = k + 1
  BY <1>2, <1>5
<1>12. \A j \in 0..(n - 1) : to[j] = at[j]
  BY <1>2
<1> HIDE DEF to
<1>13. ASSUME NEW j \in 0..(n - 1)
       PROVE  to[j] <= to[j + 1] /\ IsWindow(hs[j + 1], xs, to[j], to[j + 1])
  <2>1. CASE j = n - 1
    <3>1. to[j] = a /\ to[j + 1] = k + 1 /\ hs[j + 1] = w
      <4>1. j + 1 = n /\ n \in 1..n
        BY <1>2, <2>1
      <4>2. to[j] = at[n - 1]
        BY <1>12, <2>1
      <4> QED BY <1>4, <1>11, <4>1, <4>2
    <3>2. a <= k + 1
      <4> HIDE DEF a
      <4> QED BY <1>9
    <3> HIDE DEF a
    <3> QED BY <1>10, <3>1, <3>2
  <2>2. CASE j # n - 1
    <3>1. j + 1 \in 0..(n - 1) /\ j + 1 \in 1..n /\ j + 1 # n
      BY <1>2, <2>2
    <3> QED BY <1>4, <1>5, <1>12, <3>1
  <2> QED BY <2>1, <2>2
<1>14. AreWindowsAt(hs, xs, k + 1, to)
  BY <1>7, <1>11, <1>13 DEF AreWindowsAt
<1> QED BY <1>3, <1>14 DEF AreWindows, new, n

LEMMA WindowsCover ==
    ASSUME NEW xs, IsSeq(xs), NEW lanes
    PROVE  AreWindows(Windows(xs, lanes), xs, Len(xs))
<1> DEFINE n == Len(xs)
<1>1. n \in Nat
  BY SeqFacts
<1>2. PICK g : IsRun(g, "window", lanes, <<>>, xs) /\ g[n] = Windows(xs, lanes)
  BY WindowsRun
<1> DEFINE T == { k \in Nat : k <= n => AreWindows(g[k], xs, k) }
<1>3. 0 \in T
  <2> DEFINE at == [j \in 0..0 |-> 0]
  <2>1. at \in [0..0 -> 0..0] /\ at[0] = 0 /\ 0..(0 - 1) = {}
    OBVIOUS
  <2> HIDE DEF at
  <2>2. AreWindowsAt(<<>>, xs, 0, at)
    BY <2>1, EmptyIsSeq DEF AreWindowsAt
  <2> QED BY <1>2, <2>2 DEF AreWindows, IsRun
<1>4. ASSUME NEW k \in Nat, k \in T PROVE k + 1 \in T
  <2> SUFFICES ASSUME k + 1 <= n PROVE AreWindows(g[k + 1], xs, k + 1)
    OBVIOUS
  <2> DEFINE ws == g[k]
             x == xs[k + 1]
             w == [units |-> {x.unit}, extents |-> <<x>>]
             last == [units |-> ws[Len(ws)].units \cup {x.unit},
                      extents |-> Append(ws[Len(ws)].extents, x)]
  <2>1. k \in 0..(n - 1) /\ k < n /\ AreWindows(ws, xs, k)
    BY <1>1, <1>4
  <2>2. g[k + 1] = WindowOne(ws, x, lanes)
    BY <1>2, <2>1 DEF IsRun, OneStep
  <2>3. \/ g[k + 1] = Append(ws, w)
        \/ ws # <<>> /\ g[k + 1] = [ws EXCEPT ![Len(ws)] = last]
    <3> HIDE DEF ws, x
    <3> QED BY <2>2 DEF WindowOne, Last
  <2>4. IsWindow(w, xs, k, k + 1)
    <3>1. SubSeq(xs, k + 1, k + 1) = <<x>>
      <4>1. Append(SubSeq(xs, k + 1, k), x) = SubSeq(xs, k + 1, k + 1)
        BY <2>1, SubSeqAppend
      <4>2. SubSeq(xs, k + 1, k) = <<>>
        BY SubSeqEmpty
      <4>3. Append(<<>>, x) = <<x>>
        OBVIOUS
      <4> QED BY <4>1, <4>2, <4>3
    <3>2. (k + 1)..(k + 1) = {k + 1}
      OBVIOUS
    <3>3. w.units = {x.unit} /\ w.extents = <<x>>
      OBVIOUS
    <3> HIDE DEF w
    <3> QED BY <3>1, <3>2, <3>3 DEF IsWindow
  <2> HIDE DEF T, ws, w
  <2>5. CASE g[k + 1] = Append(ws, w)
    BY <2>1, <2>4, <2>5, WindowOpens
  <2>6. CASE ws # <<>> /\ g[k + 1] = [ws EXCEPT ![Len(ws)] = last]
    BY <2>1, <2>6, WindowGrows
  <2> QED BY <2>3, <2>5, <2>6
<1> HIDE DEF T
<1>5. n \in T /\ n <= n
  BY <1>1, <1>3, <1>4, Counting
<1> QED BY <1>2, <1>5 DEF T

\* The pieces of a window continue what was read before it.
LEMMA PiecesContinue ==
    ASSUME AreUnits(units), NEW xs, IsSeq(xs), \A k \in 1..Len(xs) : IsExtent(units, xs[k]),
           NEW s, SpelledBy(units, xs, s),
           NEW a \in 0..Len(xs), NEW b \in 0..Len(xs), a <= b, NEW w, IsWindow(w, xs, a, b)
    PROVE  s[a] \o PiecesIn(w) = s[b]
<1> DEFINE n == b - a
           ys == w.extents
           seqs == [k \in DOMAIN ys |-> CutOut(units[ys[k].unit].cells, ys[k])]
<1>1. Len(xs) \in Nat /\ n \in Nat
  BY SeqFacts
<1>2. /\ IsSeq(ys) /\ Len(ys) = n /\ \A k \in 1..n : ys[k] = xs[a + k]
  BY <1>1, SubSeqAny DEF IsWindow
<1>3. DOMAIN ys = 1..n
  BY <1>2, SeqFacts
<1>4. PiecesIn(w) = FlattenSeq(seqs)
  BY DEF PiecesIn
<1>5. \A k \in 1..n : a + k \in 1..Len(xs) /\ a + k = (a + (k - 1)) + 1 /\ a + (k - 1) \in 0..(Len(xs) - 1)
  BY <1>1
<1> HIDE DEF n, ys
<1>6. /\ seqs = [k \in 1..n |-> seqs[k]] /\ \A k \in 1..n : seqs[k] = PieceOf(units, ys[k])
  BY <1>3 DEF PieceOf
<1> HIDE DEF seqs
<1>7. IsSeq(seqs) /\ Len(seqs) = n
  BY <1>1, <1>6, IsSeqByLength
<1>8. \A k \in 1..n : seqs[k] = PieceOf(units, xs[a + k]) /\ seqs[k] \in Seq(Nat)
  <2> SUFFICES ASSUME NEW k \in 1..n
               PROVE  seqs[k] = PieceOf(units, xs[a + k]) /\ seqs[k] \in Seq(Nat)
    OBVIOUS
  <2> DEFINE x == xs[a + k]
  <2>1. seqs[k] = PieceOf(units, x) /\ IsExtent(units, x)
    BY <1>2, <1>5, <1>6
  <2> HIDE DEF x
  <2>2. units[x.unit].cells \in Seq(Nat) /\ IsWithin(x, units[x.unit].cells)
    BY <2>1 DEF AreUnits, IsExtent
  <2>3. PieceOf(units, x) \in Seq(Nat)
    BY <2>2, CutIsCells DEF PieceOf
  <2> QED BY <2>1, <2>3 DEF x
<1>9. PICK g : /\ IsRun(g, "join", 0, <<>>, seqs) /\ g[Len(seqs)] = FlattenSeq(seqs)
               /\ g \in [0..Len(seqs) -> Seq(Nat)]
  BY <1>7, <1>8, FlattenRuns
<1>10. g[0] = <<>> /\ \A k \in 0..(n - 1) : g[k + 1] = g[k] \o seqs[k + 1]
  BY <1>7, <1>9 DEF IsRun, OneStep
<1>11. /\ s \in [0..Len(xs) -> Seq(Nat)]
       /\ \A k \in 0..(Len(xs) - 1) : s[k + 1] = s[k] \o PieceOf(units, xs[k + 1])
  BY DEF SpelledBy
<1> DEFINE l(k) == s[a] \o g[k]
           r(k) == s[a + k]
<1>12. l(0) = r(0)
  <2>1. a + 0 = a /\ s[a] \in Seq(Nat)
    BY <1>11
  <2>2. s[a] \o <<>> = s[a]
    BY <2>1, ConcatEmptySeq
  <2> QED BY <1>10, <2>1, <2>2
<1>13. ASSUME NEW k \in 0..(n - 1), l(k) = r(k) PROVE l(k + 1) = r(k + 1)
  <2> DEFINE x == s[a]
             y == g[k]
             z == seqs[k + 1]
  <2>1. k \in 0..n /\ k + 1 \in 1..n /\ (k + 1) - 1 = k
    BY <1>1
  <2>2. g[k + 1] = y \o z
    BY <1>10
  <2>3. a + (k + 1) = (a + k) + 1 /\ a + k \in 0..(Len(xs) - 1)
    BY <1>5, <2>1
  <2>4. s[a + (k + 1)] = s[a + k] \o z
    BY <1>8, <1>11, <2>1, <2>3
  <2>5. x \in Seq(Nat) /\ y \in Seq(Nat) /\ z \in Seq(Nat)
    BY <1>7, <1>8, <1>9, <1>11, <2>1
  <2>6. s[a + k] = x \o y
    BY <1>13
  <2> HIDE DEF x, y, z
  <2>7. (x \o y) \o z = x \o (y \o z)
    BY <2>5, ConcatAssociative, SMTT(60)
  <2>8. s[a + (k + 1)] = x \o g[k + 1]
    BY <2>2, <2>4, <2>6, <2>7
  <2> QED BY <2>8 DEF x
<1> HIDE DEF l, r
<1> DEFINE T == { k \in Nat : k <= n => l(k) = r(k) }
<1>14. ASSUME NEW k \in Nat, k \in T PROVE k + 1 \in T
  <2> SUFFICES ASSUME k + 1 <= n PROVE l(k + 1) = r(k + 1)
    OBVIOUS
  <2>1. k \in 0..(n - 1) /\ l(k) = r(k)
    BY <1>1, <1>14
  <2> QED BY <1>13, <2>1
<1>15. n \in T /\ n <= n
  <2>1. 0 \in T
    BY <1>12
  <2>2. \A k \in Nat : k \in T => k + 1 \in T
    BY <1>14
  <2> HIDE DEF T
  <2>3. \A k \in Nat : k \in T
    BY <2>1, <2>2, Counting
  <2>4. n \in Nat
    BY <1>1
  <2> QED BY <2>3, <2>4
<1>16. a + n = b
  BY <1>1 DEF n
<1>17. l(n) = r(n)
  BY <1>1, <1>15
<1> QED BY <1>4, <1>7, <1>9, <1>16, <1>17 DEF l, r

\* All the units of a window, each in a lane, or an error.
LEMMA InWindowsReads ==
    ASSUME AreUnits(units), NEW e, IsSeq(e.extents),
           \A k \in 1..Len(e.extents) : IsExtent(units, e.extents[k]),
           NEW s, SpelledBy(units, e.extents, s), NEW lanes,
           NEW damaged, NEW cache, IsCache(cache, damaged)
    PROVE  HasRead(InWindows(cache, e, lanes, damaged), e.extents, Len(e.extents), s, damaged)
<1> DEFINE xs == e.extents
           ws == Windows(xs, lanes)
           n == Len(ws)
<1>1. PICK at : AreWindowsAt(ws, xs, Len(xs), at)
  BY WindowsCover DEF AreWindows
<1>2. IsSeq(ws) /\ n \in Nat
  BY <1>1, SeqFacts DEF AreWindowsAt
<1>3. InWindows(cache, e, lanes, damaged) = DecodedIn(cache, ws, damaged)
  BY FoldsOfTheModel
<1> HIDE DEF ws
<1>4. PICK g : /\ IsRun(g, "decode", damaged, ReadNothing(cache), ws)
               /\ g[n] = DecodedIn(cache, ws, damaged)
  BY <1>2, DecodedRuns
<1>5. g[0] = ReadNothing(cache) /\ \A j \in 0..(n - 1) : g[j + 1] = DecodeOne(g[j], ws[j + 1], damaged)
  BY <1>4 DEF IsRun, OneStep
<1>6. /\ at \in [0..n -> 0..Len(xs)] /\ at[0] = 0 /\ at[n] = Len(xs)
      /\ \A j \in 0..(n - 1) : at[j] <= at[j + 1] /\ IsWindow(ws[j + 1], xs, at[j], at[j + 1])
  BY <1>1 DEF AreWindowsAt
<1>7. s[0] = <<>>
  BY DEF SpelledBy
<1> HIDE DEF n
<1> DEFINE T == { j \in Nat : j <= n => HasRead(g[j], xs, at[j], s, damaged) }
<1>8. 0 \in T
  BY <1>5, <1>6, <1>7, NothingIsRead
<1>9. ASSUME NEW j \in Nat, j \in T PROVE j + 1 \in T
  <2> SUFFICES ASSUME j + 1 <= n PROVE HasRead(g[j + 1], xs, at[j + 1], s, damaged)
    OBVIOUS
  <2> DEFINE a == at[j]
             b == at[j + 1]
             w == ws[j + 1]
             state == g[j]
             r == DecodeOne(state, w, damaged)
  <2>1. j \in 0..(n - 1) /\ j \in 0..n /\ j + 1 \in 0..n /\ HasRead(state, xs, a, s, damaged)
    BY <1>2, <1>9
  <2>2. g[j + 1] = r
    BY <1>5, <2>1
  <2>3. a \in 0..Len(xs) /\ b \in 0..Len(xs) /\ a <= b /\ IsWindow(w, xs, a, b)
    BY <1>6, <2>1
  <2> HIDE DEF T, a, b, w, state
  <2>4. s[a] \o PiecesIn(w) = s[b]
    BY <2>3, PiecesContinue, ZenonT(60)
  <2>5. IsHit(xs, b, damaged) <=> IsHit(xs, a, damaged) \/ w.units \cap damaged # {}
    <3>1. \A m : m \in 1..b <=> m \in 1..a \/ m \in (a + 1)..b
      BY <2>3
    <3> QED BY <2>3, <3>1 DEF IsHit, IsWindow
  <2>6. /\ state = [ok |-> state.ok, cache |-> state.cache, out |-> state.out]
        /\ IsCache(state.cache, damaged)
        /\ IsHit(xs, a, damaged) => state.ok = FALSE
        /\ ~IsHit(xs, a, damaged) => state.ok = TRUE /\ state.out = s[a]
    BY <2>1 DEF HasRead
  <2>7. CASE IsHit(xs, b, damaged)
    <3>1. r = [state EXCEPT !.ok = FALSE]
      BY <2>5, <2>6, <2>7 DEF DecodeOne
    <3>2. r = [ok |-> FALSE, cache |-> state.cache, out |-> state.out]
      BY <2>6, <3>1
    <3>3. HasRead(r, xs, b, s, damaged)
      <4> HIDE DEF r
      <4> QED BY <2>6, <2>7, <3>2 DEF HasRead
    <3> QED BY <2>2, <3>3 DEF b
  <2>8. CASE ~IsHit(xs, b, damaged)
    <3>1. r = [state EXCEPT !.out = s[b]]
      <4>1. state.ok = TRUE /\ state.out = s[a] /\ w.units \cap damaged = {}
        BY <2>5, <2>6, <2>8
      <4> QED BY <2>4, <4>1 DEF DecodeOne
    <3>2. r = [ok |-> TRUE, cache |-> state.cache, out |-> s[b]]
      BY <2>5, <2>6, <2>8, <3>1
    <3>3. HasRead(r, xs, b, s, damaged)
      <4> HIDE DEF r
      <4> QED BY <2>6, <2>8, <3>2 DEF HasRead
    <3> QED BY <2>2, <3>3 DEF b
  <2> QED BY <2>7, <2>8
<1> HIDE DEF T
<1>10. n \in T /\ n <= n
  BY <1>2, <1>8, <1>9, Counting
<1> QED BY <1>3, <1>4, <1>6, <1>10 DEF T, xs

----------------------------------------------------------------------------
(* Extraction: what comes out for every entry.                               *)

\* What an entry gives of its bytes where some units do not verify.
Given(e, data, damaged) == IF IsHit(e.extents, Len(e.extents), damaged) THEN Refused ELSE data

IsStored(U, e, data) == Spells(U, e.extents, data) /\ e.size = Len(data)

LEMMA OneFileReads ==
    ASSUME AreUnits(units), NEW e, NEW data, IsStored(units, e, data),
           NEW lanes, NEW damaged, NEW cache, IsCache(cache, damaged)
    PROVE  LET state == OneFile(cache, e, lanes, damaged)
           IN  IsCache(state.cache, damaged) /\ OrRefused(state, e) = Given(e, data, damaged)
<1> DEFINE state == OneFile(cache, e, lanes, damaged)
           n == Len(e.extents)
<1>1. /\ IsSeq(e.extents) /\ \A k \in 1..Len(e.extents) : IsExtent(units, e.extents[k])
      /\ e.size = Len(data)
  BY DEF IsStored, Spells
<1>2. PICK s : SpelledBy(units, e.extents, s) /\ s[Len(e.extents)] = data
  BY DEF IsStored, Spells
<1>3. HasRead(InOrder(cache, e, damaged), e.extents, n, s, damaged)
  BY <1>1, <1>2, InOrderReads
<1>4. HasRead(InWindows(cache, e, lanes, damaged), e.extents, n, s, damaged)
  BY <1>1, <1>2, InWindowsReads
<1>5. HasRead(state, e.extents, n, s, damaged)
  BY <1>3, <1>4 DEF OneFile
<1> HIDE DEF state
<1>6. IsCache(state.cache, damaged)
  BY <1>5 DEF HasRead
<1>7. CASE IsHit(e.extents, n, damaged)
  <2>1. state.ok = FALSE
    BY <1>5, <1>7 DEF HasRead
  <2> QED BY <1>6, <1>7, <2>1 DEF OrRefused, Given, state
<1>8. CASE ~IsHit(e.extents, n, damaged)
  <2>1. state.ok = TRUE /\ state.out = data
    BY <1>2, <1>5, <1>8 DEF HasRead
  <2> QED BY <1>1, <1>6, <1>8, <2>1 DEF OrRefused, Given, state
<1> QED BY <1>7, <1>8

\* The entries one after the other, with one cache.
IsGiven(done, fs, data, n, damaged) ==
    /\ IsCache(done.cache, damaged)
    /\ IsSeq(done.out) /\ Len(done.out) = n
    /\ \A i \in 1..n : done.out[i] = Given(fs[i], data[i], damaged)

LEMMA ExtractedReads ==
    ASSUME AreUnits(units), NEW fs, IsSeq(fs), NEW data,
           \A i \in 1..Len(fs) : IsStored(units, fs[i], data[i]),
           NEW lanes, NEW damaged
    PROVE  ExtractedFrom(fs, lanes, damaged).out
             = [i \in 1..Len(fs) |-> Given(fs[i], data[i], damaged)]
<1> DEFINE c == [lanes |-> lanes, damaged |-> damaged]
<1>1. PICK g : /\ IsRun(g, "extract", c, NothingOut, fs)
               /\ g[Len(fs)] = ExtractedFrom(fs, lanes, damaged)
  BY ExtractedRuns
<1>2. Len(fs) \in Nat
  BY SeqFacts
<1> DEFINE T == { k \in Nat : k <= Len(fs) => IsGiven(g[k], fs, data, k, damaged) }
<1>3. 0 \in T
  <2>1. g[0] = NothingOut
    BY <1>1 DEF IsRun
  <2>2. NothingOut.cache = NoUnit /\ NothingOut.out = <<>>
    BY DEF NothingOut
  <2>3. IsCache(NoUnit, damaged)
    BY DEF IsCache, NoUnit
  <2>4. IsGiven(NothingOut, fs, data, 0, damaged)
    BY <2>2, <2>3, EmptyIsSeq DEF IsGiven
  <2> QED BY <2>1, <2>4
<1>4. ASSUME NEW k \in Nat, k \in T PROVE k + 1 \in T
  <2> SUFFICES ASSUME k + 1 <= Len(fs) PROVE IsGiven(g[k + 1], fs, data, k + 1, damaged)
    OBVIOUS
  <2>1. k \in 0..(Len(fs) - 1) /\ k + 1 \in 1..Len(fs) /\ IsGiven(g[k], fs, data, k, damaged)
    BY <1>2, <1>4
  <2> DEFINE done == g[k]
             e == fs[k + 1]
             state == OneFile(done.cache, e, lanes, damaged)
             x == OrRefused(state, e)
             outs == done.out
  <2>2. c.lanes = lanes /\ c.damaged = damaged
    OBVIOUS
  <2>3. g[k + 1] = ExtractOne(done, e, lanes, damaged)
    BY <1>1, <2>1, <2>2 DEF IsRun, OneStep
  <2>4. g[k + 1].cache = state.cache /\ g[k + 1].out = Append(outs, x)
    BY <2>3 DEF ExtractOne
  <2>5. IsStored(units, e, data[k + 1])
    BY <2>1
  <2>6. IsCache(done.cache, damaged) /\ IsSeq(outs) /\ Len(outs) = k
        /\ \A i \in 1..k : outs[i] = Given(fs[i], data[i], damaged)
    BY <2>1 DEF IsGiven
  <2> HIDE DEF done, e
  <2>7. IsCache(state.cache, damaged) /\ x = Given(e, data[k + 1], damaged)
    BY <2>5, <2>6, OneFileReads
  <2> HIDE DEF outs, x, state
  <2>8. /\ IsSeq(Append(outs, x)) /\ Len(Append(outs, x)) = k + 1 /\ Append(outs, x)[k + 1] = x
        /\ \A i \in 1..k : Append(outs, x)[i] = outs[i]
    BY <2>6, AppendAny
  <2>9. \A i \in 1..(k + 1) : i \in 1..k \/ i = k + 1
    OBVIOUS
  <2>10. \A i \in 1..(k + 1) : Append(outs, x)[i] = Given(fs[i], data[i], damaged)
    BY <2>6, <2>7, <2>8, <2>9 DEF e
  <2> QED BY <2>4, <2>7, <2>8, <2>10 DEF IsGiven
<1> HIDE DEF T
<1>5. Len(fs) \in T
  BY <1>2, <1>3, <1>4, Counting
<1>6. IsGiven(g[Len(fs)], fs, data, Len(fs), damaged)
  BY <1>2, <1>5 DEF T
<1> DEFINE out == g[Len(fs)].out
<1>7. /\ IsSeq(out) /\ Len(out) = Len(fs)
      /\ \A i \in 1..Len(fs) : out[i] = Given(fs[i], data[i], damaged)
  BY <1>6 DEF IsGiven
<1>8. ExtractedFrom(fs, lanes, damaged).out = out
  BY <1>1
<1> HIDE DEF out
<1>9. out = [i \in 1..Len(fs) |-> out[i]]
  BY <1>7, SeqFacts
<1> QED BY <1>7, <1>8, <1>9

----------------------------------------------------------------------------
(* The bytes of the archive.                                                 *)

Bytes(k, e) == IF e.dir THEN <<>> ELSE k[e.path]
NamesOf(fs) == { fs[i].path : i \in { j \in 1..Len(fs) : ~fs[j].dir } }

\* Every entry spells, from the units, what its path stands for.
Held(U, fs, k) ==
    /\ AreUnits(U)
    /\ DOMAIN k = NamesOf(fs)
    /\ \A i \in 1..Len(fs) : IsStored(U, fs[i], Bytes(k, fs[i]))

\* An entry of a file that was read.
IsOf(e, f) == e.path = f.path /\ ~e.dir /\ e.size = Len(AsRead(f))

Goal(work) == [k \in 1..Len(work) |-> AsRead(work[k])]

IsPacked(U, p, work) ==
    /\ Owes(p, Goal(work)) /\ Grows(U, p.units)
    /\ Len(p.files) = Len(work) /\ \A k \in 1..Len(work) : IsOf(p.files[k], work[k])

\* What is held, and what the add that runs owes unless it has failed.
BytesInv ==
    /\ Held(units, files, kept)
    /\ add.on => add.p.failed \/ IsPacked(units, add.p, add.work)

LEMMA InitBytes == Init => BytesInv
<1>1. AreUnits(<<>>)
  BY EmptyIsSeq DEF AreUnits
<1>2. Held(<<>>, <<>>, [path \in {} |-> <<>>])
  BY <1>1, EmptyIsSeq DEF Held, NamesOf
<1> QED BY <1>2 DEF Init, Idle, BytesInv

LEMMA BeginAddBytes ==
    ASSUME BytesInv, BeginAdd
    PROVE  BytesInv'
<1> DEFINE p == NewPacker(Now.tier, units, Claims)
<1>1. p = [x \in PackerFields |-> p[x]] /\ p.files = <<>> /\ p.pending = <<>> /\ p.buf = <<>>
      /\ p.units = units
  BY DEF NewPacker, PackerFields
<1>2. add' = [on |-> TRUE, at |-> 0, work |-> <<>>, p |-> p]
  BY DEF BeginAdd
<1>3. AreUnits(units) /\ Grows(units, units)
  BY GrowsNot DEF BytesInv, Held
<1> HIDE DEF p
<1>4. Ready(p)
  <2>1. <<>> \in Seq(Nat)
    OBVIOUS
  <2>2. p.buf \in Seq(Nat)
    BY <1>1, <2>1
  <2>3. Len(p.pending) = 0 /\ 1..0 = {}
    BY <1>1, EmptyIsSeq
  <2>4. IsPacker(p)
    BY <1>1, EmptyIsSeq DEF IsPacker, AreEntries
  <2> QED BY <1>1, <1>3, <2>2, <2>3, <2>4 DEF Ready
<1>5. IsPacked(units, p, <<>>)
  <2>1. Len(p.files) = 0 /\ Len(<<>>) = 0 /\ 1..0 = {}
    BY <1>1, EmptyIsSeq
  <2>2. Owes(p, Goal(<<>>))
    BY <1>4, <2>1 DEF Owes
  <2> QED BY <1>1, <1>3, <2>1, <2>2 DEF IsPacked
<1>6. add'.work = <<>> /\ add'.p = p
  BY <1>2
<1>7. units' = units /\ files' = files /\ kept' = kept
  BY DEF BeginAdd
<1> QED BY <1>5, <1>6, <1>7 DEF BytesInv

LEMMA TakeFileBytes ==
    ASSUME TreeInv, BytesInv, NEW i \in DOMAIN Catalogue, TakeFile(i)
    PROVE  BytesInv'
<1> DEFINE f == Catalogue[i]
           p == add.p
           q == AddFile(p, f)
           w == add.work
           v == Append(w, f)
           n == Len(w)
<1>1. /\ add = [x \in AddFields |-> add[x]] /\ IsWork(w)
      /\ IsPacked(units, p, w)
      /\ units' = units /\ files' = files /\ kept' = kept
  BY DEF TreeInv, TakeFile, AddRuns, BytesInv
<1>2. IsFile(f)
  BY CatalogueAssumption DEF IsFile
<1>3. add'.work = v /\ add'.p = q
  <2> HIDE DEF f
  <2>1. add' = [add EXCEPT !.at = i, !.work = Append(@, f), !.p = AddFile(@, f)]
    BY DEF TakeFile, f
  <2> QED BY <1>1, <2>1 DEF AddFields
<1> HIDE DEF f, p, w
<1>4. Owes(p, Goal(w)) /\ Grows(units, p.units) /\ Len(p.files) = n
      /\ \A k \in 1..n : IsOf(p.files[k], w[k])
  BY <1>1 DEF IsPacked
<1>5. IsSeq(w) /\ n \in Nat
  BY <1>1, SeqFacts DEF IsWork
<1>6. /\ IsSeq(v) /\ Len(v) = n + 1 /\ v[n + 1] = f /\ \A k \in 1..n : v[k] = w[k]
  BY <1>5, AppendAny
<1> HIDE DEF v, n
<1>7. \A k \in 1..(n + 1) : k \in 1..n \/ k = n + 1
  BY <1>5
<1>8. \/ q.failed
      \/ /\ Owes(q, With(Goal(w), n + 1, AsRead(f), n + 1)) /\ Grows(p.units, q.units)
         /\ IsLast(p.files, q.files, f)
  BY <1>2, <1>4, AddFileOwes
<1> HIDE DEF q
<1>9. ASSUME Owes(q, With(Goal(w), n + 1, AsRead(f), n + 1)), Grows(p.units, q.units),
             IsLast(p.files, q.files, f)
      PROVE  IsPacked(units, q, v)
  <2>1. Len(q.files) = n + 1
    BY <1>4, <1>9 DEF IsLast
  <2>2. \A k \in 1..(n + 1) : Goal(v)[k] = With(Goal(w), n + 1, AsRead(f), n + 1)[k]
    <3>1. \A k \in 1..n : Goal(v)[k] = AsRead(w[k]) /\ Goal(w)[k] = AsRead(w[k]) /\ k # n + 1
      BY <1>5, <1>6, <1>7 DEF Goal, n
    <3>2. Goal(v)[n + 1] = AsRead(f)
      BY <1>5, <1>6 DEF Goal
    <3> QED BY <1>7, <3>1, <3>2 DEF With
  <2>3. Owes(q, Goal(v))
    BY <1>9, <2>1, <2>2, OwesThat
  <2>4. Grows(units, q.units)
    BY <1>4, <1>9, <2>3, GrowsOn DEF BytesInv, Held, Owes, Ready
  <2>5. ASSUME NEW k \in 1..(n + 1) PROVE IsOf(q.files[k], v[k])
    <3>1. CASE k = n + 1
      BY <1>6, <1>9, <2>1, <3>1 DEF IsLast, IsOf
    <3>2. CASE k \in 1..n
      BY <1>4, <1>6, <1>9, <3>2 DEF IsLast, IsOf
    <3> QED BY <1>7, <3>1, <3>2
  <2> QED BY <1>6, <2>1, <2>3, <2>4, <2>5 DEF IsPacked
<1> QED BY <1>1, <1>3, <1>8, <1>9 DEF BytesInv

\* What is kept after the first n files of the work: the last one of a path counts.
KeptIs(old, work, n, k) ==
    /\ DOMAIN k = DOMAIN old \cup { work[m].path : m \in 1..n }
    /\ \A m \in 1..n : (\A l \in (m + 1)..n : work[l].path # work[m].path)
                       => k[work[m].path] = AsRead(work[m])
    /\ \A path \in DOMAIN old : (\A m \in 1..n : work[m].path # path) => k[path] = old[path]

LEMMA KeptFacts ==
    ASSUME NEW old, NEW work, IsSeq(work)
    PROVE  KeptIs(old, work, Len(work), Kept(old, work))
<1>1. PICK g : IsRun(g, "keep", 0, old, work) /\ g[Len(work)] = Kept(old, work)
  BY KeptRuns
<1>2. Len(work) \in Nat
  BY SeqFacts
<1> DEFINE T == { n \in Nat : n <= Len(work) => KeptIs(old, work, n, g[n]) }
<1>3. 0 \in T
  <2>1. g[0] = old
    BY <1>1 DEF IsRun
  <2>2. KeptIs(old, work, 0, old)
    BY DEF KeptIs
  <2> QED BY <2>1, <2>2
<1>4. ASSUME NEW n \in Nat, n \in T PROVE n + 1 \in T
  <2> SUFFICES ASSUME n + 1 <= Len(work) PROVE KeptIs(old, work, n + 1, g[n + 1])
    OBVIOUS
  <2>1. n \in 0..(Len(work) - 1) /\ n + 1 \in 1..Len(work) /\ KeptIs(old, work, n, g[n])
    BY <1>2, <1>4
  <2> DEFINE k == g[n]
             f == work[n + 1]
             j == KeepOne(k, f)
  <2>2. g[n + 1] = j
    BY <1>1, <2>1 DEF IsRun, OneStep
  <2>3. /\ DOMAIN j = DOMAIN k \cup {f.path} /\ j[f.path] = AsRead(f)
        /\ \A path \in DOMAIN k : path # f.path => j[path] = k[path]
    BY DEF KeepOne
  <2> HIDE DEF k, f, j
  <2>4. \A m : m \in 1..(n + 1) <=> m \in 1..n \/ m = n + 1
    OBVIOUS
  <2>5. DOMAIN k = DOMAIN old \cup { work[m].path : m \in 1..n }
    BY <2>1 DEF KeptIs, k
  <2>6. DOMAIN j = DOMAIN old \cup { work[m].path : m \in 1..(n + 1) }
    BY <2>3, <2>4, <2>5 DEF f
  <2>7. ASSUME NEW m \in 1..(n + 1), \A l \in (m + 1)..(n + 1) : work[l].path # work[m].path
        PROVE  j[work[m].path] = AsRead(work[m])
    <3>1. CASE m = n + 1
      BY <2>3, <3>1 DEF f
    <3>2. CASE m \in 1..n
      <4>1. n + 1 \in (m + 1)..(n + 1) /\ \A l \in (m + 1)..n : l \in (m + 1)..(n + 1)
        BY <3>2
      <4>2. k[work[m].path] = AsRead(work[m])
        BY <2>1, <2>7, <3>2, <4>1 DEF KeptIs, k
      <4>3. work[m].path \in DOMAIN k /\ work[m].path # f.path
        BY <2>5, <2>7, <3>2, <4>1 DEF f
      <4> QED BY <2>3, <4>2, <4>3
    <3> QED BY <2>4, <3>1, <3>2
  <2>8. ASSUME NEW path \in DOMAIN old, \A m \in 1..(n + 1) : work[m].path # path
        PROVE  j[path] = old[path]
    <3>1. path \in DOMAIN k /\ path # f.path /\ \A m \in 1..n : work[m].path # path
      BY <2>4, <2>5, <2>8 DEF f
    <3>2. k[path] = old[path]
      BY <2>1, <3>1 DEF KeptIs, k
    <3> QED BY <2>3, <3>1, <3>2
  <2>9. KeptIs(old, work, n + 1, j)
    BY <2>6, <2>7, <2>8 DEF KeptIs
  <2> QED BY <2>2, <2>9
<1> HIDE DEF T
<1>5. Len(work) \in T
  BY <1>2, <1>3, <1>4, Counting
<1> QED BY <1>1, <1>2, <1>5 DEF T

LEMMA NoBytes == ASSUME NEW U, NEW e, e.size = 0, e.extents = <<>> PROVE IsStored(U, e, <<>>)
  BY SpellsNothing, EmptyIsSeq DEF IsStored

\* What an add brings: directories, the files that were packed, both in a row.
AreDirs(dirs, D) ==
    /\ Len(dirs) \in Nat /\ D = PathsOf(dirs)
    /\ \A m \in 1..Len(dirs) : dirs[m].dir /\ dirs[m].size = 0 /\ dirs[m].extents = <<>>
AreFiles(V, gs, work) ==
    /\ Len(gs) = Len(work) /\ Len(work) \in Nat
    /\ \A m \in 1..Len(work) : IsOf(gs[m], work[m]) /\ IsStored(V, gs[m], AsRead(work[m]))
InARow(dirs, gs, entries) ==
    /\ Len(entries) = Len(dirs) + Len(gs)
    /\ \A m \in 1..Len(dirs) : entries[m] = dirs[m]
    /\ \A m \in 1..Len(gs) : entries[Len(dirs) + m] = gs[m]

\* Directories, files that were packed and entries that nothing replaced.
LEMMA ReplacedHold ==
    ASSUME NEW U, NEW V, NEW old, NEW k, OnePathOnce(old), Held(U, old, k),
           AreUnits(V), Grows(U, V),
           NEW work, NEW gs, AreFiles(V, gs, work), NEW dirs, NEW D, AreDirs(dirs, D),
           NEW entries, InARow(dirs, gs, entries),
           NEW fs, LastWins(old, entries, Len(entries), fs),
           NEW k2, KeptIs([path \in DOMAIN k \ D |-> k[path]], work, Len(work), k2)
    PROVE  Held(V, fs, k2)
<1> DEFINE n == Len(dirs)
           N == Len(work)
           W == { work[m].path : m \in 1..N }
           IsDir(e) == e.dir /\ e.size = 0 /\ e.extents = <<>> /\ e.path \in D
           IsNew(e) == \E m \in 1..N : /\ e = gs[m]
                                       /\ \A l \in (m + 1)..N : work[l].path # work[m].path
           IsOld(e) == /\ e.path \notin D /\ e.path \notin W
                       /\ \E j \in 1..Len(old) : e = old[j]
<1>1. n \in Nat /\ N \in Nat /\ Len(entries) = n + N
  BY DEF AreDirs, AreFiles, InARow
<1>2. ASSUME NEW m \in 1..Len(entries)
      PROVE  \/ m \in 1..n
             \/ \E l \in 1..N : m = n + l
  <2>1. m \notin 1..n => m - n \in 1..N /\ m = n + (m - n)
    BY <1>1
  <2> QED BY <2>1
<1>3. /\ \A m \in 1..n : m \in 1..Len(entries)
      /\ \A m \in 1..N : n + m \in 1..Len(entries)
      /\ \A m \in 1..n, l \in 1..N : n + l \in (m + 1)..Len(entries)
      /\ \A m \in 1..N, l \in 1..N : l \in (m + 1)..N => n + l \in ((n + m) + 1)..Len(entries)
  BY <1>1
<1>4. \A m \in 1..N : \A l \in (m + 1)..N : l \in 1..N
  BY <1>1
<1>5. /\ \A m \in 1..n : entries[m] = dirs[m] /\ IsDir(dirs[m])
      /\ \A m \in 1..N : entries[n + m] = gs[m] /\ gs[m].path = work[m].path /\ ~gs[m].dir
  BY DEF PathsOf, IsOf, AreDirs, AreFiles, InARow
<1> HIDE DEF n, N, IsDir
<1>6. /\ \A path : path \in D <=> \E m \in 1..n : entries[m].path = path
      /\ \A path : path \in W <=> \E m \in 1..N : entries[n + m].path = path
      /\ \A m \in 1..N : entries[n + m].path = work[m].path
  <2>1. D = { dirs[m].path : m \in 1..n }
    BY DEF PathsOf, AreDirs, n
  <2>2. /\ \A m \in 1..n : entries[m].path = dirs[m].path
        /\ \A m \in 1..N : entries[n + m].path = work[m].path
    BY <1>5
  <2>3. ASSUME NEW path PROVE path \in D <=> \E m \in 1..n : entries[m].path = path
    BY <2>1, <2>2
  <2>4. ASSUME NEW path PROVE path \in W <=> \E m \in 1..N : entries[n + m].path = path
    <3>1. path \in W <=> \E m \in 1..N : work[m].path = path
      OBVIOUS
    <3>2. \A m \in 1..N : entries[n + m].path = work[m].path
      BY <2>2
    <3> HIDE DEF W
    <3> QED BY <3>1, <3>2
  <2> HIDE DEF W
  <2> QED BY <2>2, <2>3, <2>4
<1>7. \A m \in 1..Len(entries) : entries[m].path \in D \cup W
  BY <1>2, <1>6
<1>8. \A path \in D \cup W : \E m \in 1..Len(entries) : entries[m].path = path
  BY <1>3, <1>6
<1> HIDE DEF W
<1>9. ASSUME NEW i \in 1..Len(fs)
      PROVE  (IsDir(fs[i]) /\ fs[i].path \notin W) \/ IsNew(fs[i]) \/ IsOld(fs[i])
  <2>1. CASE \E j \in 1..Len(entries) :
                /\ fs[i] = entries[j]
                /\ \A m \in (j + 1)..Len(entries) : entries[m].path # entries[j].path
    <3>1. PICK j \in 1..Len(entries) :
             /\ fs[i] = entries[j]
             /\ \A m \in (j + 1)..Len(entries) : entries[m].path # entries[j].path
      BY <2>1
    <3>2. CASE j \in 1..n
      <4>1. \A l \in 1..N : entries[n + l].path # entries[j].path
        BY <1>3, <3>1, <3>2
      <4> QED BY <1>5, <1>6, <3>1, <3>2, <4>1
    <3>3. CASE \E l \in 1..N : j = n + l
      <4>1. PICK m \in 1..N : j = n + m
        BY <3>3
      <4>2. \A l \in (m + 1)..N : entries[n + l].path # entries[n + m].path
        BY <1>3, <1>4, <3>1, <4>1
      <4>3. \A l \in (m + 1)..N : work[l].path # work[m].path
        BY <1>4, <1>6, <4>2
      <4> QED BY <1>5, <3>1, <4>1, <4>3
    <3> QED BY <1>2, <3>2, <3>3
  <2>2. CASE \E j \in 1..Len(old) :
                /\ fs[i] = old[j]
                /\ \A m \in 1..Len(entries) : entries[m].path # old[j].path
    BY <1>8, <2>2
  <2> HIDE DEF IsNew, IsOld
  <2> QED BY <2>1, <2>2 DEF LastWins
<1>10. DOMAIN k2 = (DOMAIN k \ D) \cup W
  BY DEF KeptIs, W, N
<1>11. \A e : IsNew(e) => e.path \in W /\ ~e.dir
  BY <1>5 DEF W
<1>12. \A e : IsDir(e) => e.dir /\ e.path \in D
  BY DEF IsDir
<1>13. DOMAIN k = NamesOf(old)
  BY DEF Held
<1>14. ASSUME NEW i \in 1..Len(fs), ~fs[i].dir PROVE fs[i].path \in DOMAIN k2
  <2>1. CASE IsOld(fs[i])
    BY <1>10, <1>13, <1>14, <2>1 DEF NamesOf
  <2> HIDE DEF IsNew, IsOld
  <2> QED BY <1>9, <1>10, <1>11, <1>12, <1>14, <2>1
<1>15. ASSUME NEW path \in DOMAIN k2
       PROVE  \E i \in 1..Len(fs) : fs[i].path = path /\ ~fs[i].dir
  <2>1. path \in PathsOf(old) \cup { entries[m].path : m \in 1..Len(entries) }
    BY <1>8, <1>10, <1>13 DEF NamesOf, PathsOf
  <2>2. PICK i \in 1..Len(fs) : fs[i].path = path
    <3>1. path \in PathsOf(fs)
      BY <2>1 DEF LastWins
    <3> QED BY <3>1 DEF PathsOf
  <2>3. CASE IsOld(fs[i])
    <3>1. path \notin D /\ path \notin W
      BY <2>2, <2>3
    <3>2. PICK j \in 1..Len(old) : fs[i] = old[j]
      BY <2>3
    <3>3. PICK l \in 1..Len(old) : old[l].path = path /\ ~old[l].dir
      BY <1>10, <1>13, <3>1 DEF NamesOf
    <3>4. j = l
      BY <2>2, <3>2, <3>3 DEF OnePathOnce
    <3> QED BY <2>2, <3>2, <3>3, <3>4
  <2> HIDE DEF IsNew, IsOld
  <2> QED BY <1>9, <1>10, <1>11, <1>12, <2>2, <2>3
<1>16. DOMAIN k2 = NamesOf(fs)
  <2>1. NamesOf(fs) \subseteq DOMAIN k2
    BY <1>14 DEF NamesOf
  <2>2. ASSUME NEW path \in DOMAIN k2 PROVE path \in NamesOf(fs)
    <3>1. PICK i \in 1..Len(fs) : fs[i].path = path /\ ~fs[i].dir
      BY <1>15
    <3> QED BY <3>1 DEF NamesOf
  <2> QED BY <2>1, <2>2
<1>17. ASSUME NEW i \in 1..Len(fs) PROVE IsStored(V, fs[i], Bytes(k2, fs[i]))
  <2> DEFINE e == fs[i]
  <2>1. CASE IsDir(e)
    <3>1. e.dir /\ e.size = 0 /\ e.extents = <<>>
      BY <2>1 DEF IsDir
    <3> QED BY <3>1, NoBytes DEF Bytes
  <2>2. CASE IsNew(e)
    <3>1. PICK m \in 1..N : e = gs[m] /\ \A l \in (m + 1)..N : work[l].path # work[m].path
      BY <2>2
    <3>2. k2[work[m].path] = AsRead(work[m])
      BY <3>1 DEF KeptIs, N
    <3>3. Bytes(k2, e) = AsRead(work[m])
      BY <1>5, <3>1, <3>2 DEF Bytes
    <3> QED BY <3>1, <3>3 DEF AreFiles, N
  <2>3. CASE IsOld(e)
    <3>1. PICK j \in 1..Len(old) : e = old[j]
      BY <2>3
    <3>2. Spells(U, e.extents, Bytes(k, e)) /\ e.size = Len(Bytes(k, e))
      BY <3>1 DEF Held, IsStored
    <3>3. IsStored(V, e, Bytes(k, e))
      <4> HIDE DEF e
      <4> QED BY <3>2, SpellsInMore DEF Held, IsStored
    <3>4. ~e.dir => k2[e.path] = k[e.path]
      <4> SUFFICES ASSUME ~e.dir PROVE k2[e.path] = k[e.path]
        OBVIOUS
      <4>1. e.path \in DOMAIN k \ D /\ e.path \notin W
        BY <1>13, <2>3, <3>1 DEF NamesOf
      <4>2. \A m \in 1..N : work[m].path # e.path
        BY <4>1 DEF W
      <4> HIDE DEF e
      <4> QED BY <4>1, <4>2 DEF KeptIs, N
    <3>5. Bytes(k2, e) = Bytes(k, e)
      BY <3>4 DEF Bytes
    <3> QED BY <3>3, <3>5
  <2> HIDE DEF IsNew, IsOld
  <2> QED BY <1>9, <2>1, <2>2, <2>3
<1> QED BY <1>16, <1>17 DEF Held

LEMMA DirsAreEmpty ==
    ASSUME NEW work, IsWork(work)
    PROVE  LET dirs == [k \in DOMAIN DirsOf(work) |-> DirEntry(DirsOf(work)[k])]
           IN  /\ Len(dirs) \in Nat /\ PathsOf(dirs) = ToSet(DirsOf(work))
               /\ \A m \in 1..Len(dirs) : dirs[m].dir /\ dirs[m].size = 0 /\ dirs[m].extents = <<>>
<1> DEFINE seq == DirsOf(work)
           dirs == [k \in DOMAIN seq |-> DirEntry(seq[k])]
<1>1. IsSeq(dirs)
  BY DirsAreEntries DEF AreEntries
<1>2. \A k \in DOMAIN seq : dirs[k] = DirEntry(seq[k])
  OBVIOUS
<1>3. Len(dirs) \in Nat /\ DOMAIN seq = 1..Len(dirs)
  <2>1. DOMAIN dirs = DOMAIN seq
    OBVIOUS
  <2> HIDE DEF dirs
  <2> QED BY <1>1, <2>1, SeqFacts
<1>4. \A path : /\ DirEntry(path).dir /\ DirEntry(path).size = 0
                /\ DirEntry(path).extents = <<>> /\ DirEntry(path).path = path
  BY DEF DirEntry
<1> HIDE DEF dirs, seq
<1>5. PathsOf(dirs) = ToSet(seq)
  <2>1. \A k \in 1..Len(dirs) : dirs[k].path = seq[k]
    BY <1>2, <1>3, <1>4
  <2> QED BY <1>3, <2>1 DEF PathsOf, ToSet
<1>6. \A m \in 1..Len(dirs) : dirs[m].dir /\ dirs[m].size = 0 /\ dirs[m].extents = <<>>
  BY <1>2, <1>3, <1>4
<1> QED BY <1>3, <1>5, <1>6 DEF dirs, seq

LEMMA FlushStaysFailed ==
    ASSUME NEW p, IsPacker(p), p.failed, NEW cut
    PROVE  Flush(p, cut).failed
<1>1. ASSUME NEW r, IsPacker(r), r.failed, NEW u PROVE Closed(r, u, cut).failed
  BY <1>1 DEF Closed, IsPacker, PackerFields
<1>2. IsPacker(Submitted(p)) /\ Submitted(p).failed
  <2> DEFINE r == Submitted(p)
  <2>1. /\ r = [x \in PackerFields |-> r[x]]
        /\ r.pending = p.pending /\ r.files = p.files /\ r.failed = p.failed
    BY DEF Submitted, IsPacker, PackerFields
  <2> HIDE DEF r
  <2> QED BY <2>1 DEF IsPacker, r
<1>3. [p EXCEPT !.pending = <<>>].failed
  BY DEF IsPacker, PackerFields
<1> QED BY <1>1, <1>2, <1>3 DEF Flush

LEMMA FinishAddBytes ==
    ASSUME TreeInv, BytesInv, FinishAdd
    PROVE  BytesInv'
<1> DEFINE p == add.p
           q == Flush(p, "End")
           work == add.work
           dirs == [k \in DOMAIN DirsOf(work) |-> DirEntry(DirsOf(work)[k])]
           entries == dirs \o q.files
           D == ToSet(DirsOf(work))
           N == Len(work)
<1>1. /\ AreEntries(files) /\ OnePathOnce(files) /\ IsWork(work) /\ IsPacker(p)
      /\ Held(units, files, kept)
  BY DEF TreeInv, FinishAdd, AddRuns, BytesInv
<1>2. /\ ~q.failed /\ units' = q.units /\ files' = Replaced(files, entries)
      /\ kept' = Kept([path \in DOMAIN kept \ D |-> kept[path]], work)
  BY DEF FinishAdd, Committed
<1>3. ~add'.on
  BY DEF FinishAdd, Idle
<1>4. IsPacked(units, p, work)
  BY <1>1, <1>2, FlushStaysFailed DEF BytesInv, FinishAdd
<1>5. /\ AreEntries(dirs) /\ PathsOf(dirs) = D /\ Len(dirs) \in Nat
      /\ \A m \in 1..Len(dirs) : dirs[m].dir /\ dirs[m].size = 0 /\ dirs[m].extents = <<>>
  BY <1>1, DirsAreEntries, DirsAreEmpty
<1> HIDE DEF q, p, dirs, D, work
<1>6. Kin(p, q) /\ SameSizes(p.files, q.files)
  BY <1>1, FlushKin DEF q
<1>7. Owes(q, Goal(work)) /\ IsClean(q) /\ Grows(p.units, q.units)
  BY <1>4, FlushOwes DEF q, IsPacked
<1>8. /\ IsSeq(entries) /\ Len(entries) = Len(dirs) + Len(q.files)
      /\ \A k \in 1..Len(dirs) : entries[k] = dirs[k]
      /\ \A k \in 1..Len(q.files) : entries[Len(dirs) + k] = q.files[k]
  <2>1. IsSeq(dirs) /\ IsSeq(q.files)
    BY <1>5, <1>6 DEF AreEntries, Kin, IsPacker
  <2>2. IsSeq(dirs \o q.files)
    BY <2>1, ConcatAny
  <2> QED BY <2>1, <2>2, ConcatAny
<1>9. N \in Nat /\ Len(p.files) = N /\ Len(q.files) = N
  BY <1>1, <1>4, <1>6, SeqFacts DEF IsWork, IsPacked, Kin, SameNames
<1> HIDE DEF entries
<1>10. AreEntries(entries)
  <2>1. ASSUME NEW k \in 1..Len(entries)
        PROVE  k \in 1..Len(dirs) \/ \E m \in 1..N : k = Len(dirs) + m
    <3>1. k \notin 1..Len(dirs) => k - Len(dirs) \in 1..N /\ k = Len(dirs) + (k - Len(dirs))
      BY <1>5, <1>8, <1>9
    <3> QED BY <3>1
  <2>2. AreEntries(q.files)
    BY <1>6 DEF Kin, IsPacker
  <2>3. ASSUME NEW k \in 1..Len(entries)
        PROVE  \/ \E m \in 1..Len(dirs) : entries[k] = dirs[m]
               \/ \E m \in 1..Len(q.files) : entries[k] = q.files[m]
    BY <1>8, <1>9, <2>1
  <2> QED BY <1>5, <1>8, <2>2, <2>3 DEF AreEntries
<1>11. LastWins(files, entries, Len(entries), files')
  BY <1>1, <1>2, <1>10, ReplacedFacts
<1>12. KeptIs([path \in DOMAIN kept \ D |-> kept[path]], work, N, kept')
  BY <1>1, <1>2, KeptFacts DEF IsWork
<1>13. AreUnits(units') /\ Grows(units, units')
  <2>1. AreUnits(units) /\ AreUnits(p.units) /\ AreUnits(q.units)
    BY <1>1, <1>4, <1>7 DEF Held, IsPacked, Owes, Ready
  <2> QED BY <1>2, <1>4, <1>7, <2>1, GrowsOn DEF IsPacked
<1>14. ASSUME NEW m \in 1..N
       PROVE  IsOf(q.files[m], work[m]) /\ IsStored(units', q.files[m], AsRead(work[m]))
  <2>1. IsOf(q.files[m], work[m])
    <3>1. IsOf(p.files[m], work[m])
      BY <1>4 DEF IsPacked
    <3> QED BY <1>6, <1>9, <3>1 DEF IsOf, Kin, SameNames, SameSizes
  <2>2. Goal(work)[m] = AsRead(work[m])
    BY DEF Goal
  <2>3. PICK h : /\ h[Len(q.pending)] = AsRead(work[m])
                 /\ Spells(q.units, q.files[m].extents, h[0])
    BY <1>7, <1>9, <2>2 DEF Owes, Due
  <2>4. Len(q.pending) = 0
    BY <1>7, EmptyIsSeq DEF IsClean
  <2> QED BY <1>2, <2>1, <2>3, <2>4 DEF IsStored, IsOf
<1>15. Held(units', files', kept')
  <2> DEFINE gs == q.files
             V == units'
             fs == files'
             k2 == kept'
  <2>1. OnePathOnce(files) /\ Held(units, files, kept) /\ AreUnits(V) /\ Grows(units, V)
    BY <1>1, <1>13
  <2>2. AreFiles(V, gs, work) /\ AreDirs(dirs, D) /\ InARow(dirs, gs, entries)
    BY <1>5, <1>8, <1>9, <1>14 DEF AreFiles, AreDirs, InARow
  <2>3. LastWins(files, entries, Len(entries), fs)
    BY <1>11
  <2>4. KeptIs([path \in DOMAIN kept \ D |-> kept[path]], work, Len(work), k2)
    BY <1>12
  <2> HIDE DEF gs, V, fs, k2
  <2>5. Held(V, fs, k2)
    BY <2>1, <2>2, <2>3, <2>4, ReplacedHold, ZenonT(60)
  <2> QED BY <2>5 DEF V, fs, k2
<1> QED BY <1>3, <1>15 DEF BytesInv

LEMMA RenameBytes ==
    ASSUME TreeInv, BytesInv, NEW from, NEW to, Rename(from, to)
    PROVE  BytesInv'
<1> DEFINE path(i) == Moved(files[i].path, from, to)
           new(i) == [files[i] EXCEPT !.path = path(i)]
           To(old) == Moved(old, from, to)
           From(p) == CHOOSE old \in DOMAIN kept : To(old) = p
           n == Len(files)
<1>1. /\ AreEntries(files) /\ OnePathOnce(files) /\ ~add'.on /\ units' = units
      /\ n \in Nat /\ DOMAIN files = 1..n /\ Held(units, files, kept)
  BY SeqFacts DEF TreeInv, AreEntries, Rename, Edit, BytesInv
<1>2. files' = [i \in 1..n |-> new(i)]
  BY <1>1 DEF Rename
<1>3. ASSUME NEW i \in 1..n
      PROVE  /\ new(i).path = path(i) /\ new(i).dir = files[i].dir
             /\ new(i).size = files[i].size /\ new(i).extents = files[i].extents
  <2> HIDE DEF path
  <2> QED BY <1>1 DEF AreEntries, IsEntry, EntryFields
<1>4. kept' = [p \in { To(old) : old \in DOMAIN kept } |-> kept[From(p)]]
  BY DEF Rename
<1> HIDE DEF new
<1>5. Len(files') = n
  <2>1. files' = [i \in 1..n |-> files'[i]]
    BY <1>2
  <2> HIDE DEF n
  <2> QED BY <1>1, <2>1, IsSeqByLength
<1>6. ASSUME NEW i \in 1..n
      PROVE  /\ files'[i].path = To(files[i].path) /\ files'[i].dir = files[i].dir
             /\ files'[i].size = files[i].size /\ files'[i].extents = files[i].extents
  BY <1>2, <1>3
<1>7. \A i, j \in 1..n : To(files[i].path) = To(files[j].path) => i = j
  <2>1. OnePathOnce(files')
    BY RenameStep DEF TreeInv
  <2> QED BY <1>5, <1>6, <2>1 DEF OnePathOnce
<1> HIDE DEF path, n, To
<1>8. \A old : old \in DOMAIN kept <=> \E i \in 1..n : files[i].path = old /\ ~files[i].dir
  BY <1>1 DEF Held, NamesOf, n
<1>9. ASSUME NEW i \in 1..n, ~files[i].dir
      PROVE  /\ files'[i].path \in DOMAIN kept'
             /\ kept'[files'[i].path] = kept[files[i].path]
  <2> DEFINE old == files[i].path
             p == files'[i].path
  <2>1. old \in DOMAIN kept /\ To(old) = p
    BY <1>6, <1>8, <1>9
  <2>2. From(p) \in DOMAIN kept /\ To(From(p)) = p
    BY <2>1
  <2>3. PICK j \in 1..n : files[j].path = From(p)
    BY <1>8, <2>2
  <2>4. From(p) = old
    <3> HIDE DEF From
    <3> QED BY <1>6, <1>7, <2>2, <2>3
  <2> HIDE DEF old, p, From
  <2> QED BY <1>4, <2>1, <2>4 DEF old, p
<1>10. ASSUME NEW p \in DOMAIN kept'
       PROVE  \E i \in 1..n : files'[i].path = p /\ ~files'[i].dir
  <2>1. PICK old \in DOMAIN kept : To(old) = p
    BY <1>4
  <2>2. PICK i \in 1..n : files[i].path = old /\ ~files[i].dir
    BY <1>8
  <2> QED BY <1>6, <2>1, <2>2
<1>11. DOMAIN kept' = NamesOf(files')
  <2>1. ASSUME NEW p \in NamesOf(files') PROVE p \in DOMAIN kept'
    <3>1. PICK i \in 1..n : files'[i].path = p /\ ~files'[i].dir
      BY <1>5 DEF NamesOf
    <3> QED BY <1>6, <1>9, <3>1
  <2>2. ASSUME NEW p \in DOMAIN kept' PROVE p \in NamesOf(files')
    <3>1. PICK i \in 1..n : files'[i].path = p /\ ~files'[i].dir
      BY <1>10
    <3> QED BY <1>5, <3>1 DEF NamesOf
  <2> QED BY <2>1, <2>2
<1>12. ASSUME NEW i \in 1..n PROVE IsStored(units', files'[i], Bytes(kept', files'[i]))
  <2>1. IsStored(units, files[i], Bytes(kept, files[i]))
    BY <1>1 DEF Held, n
  <2>2. Bytes(kept', files'[i]) = Bytes(kept, files[i])
    BY <1>6, <1>9 DEF Bytes
  <2> QED BY <1>1, <1>6, <2>1, <2>2 DEF IsStored
<1>13. Held(units', files', kept')
  BY <1>1, <1>5, <1>11, <1>12 DEF Held
<1> QED BY <1>1, <1>13 DEF BytesInv

\* What remove leaves is all that no selector covers.
Covered(selection, path) == \E s \in selection : Under(s, path)

LeavesOf(selection, entries, n, fs) ==
    /\ IsSeq(fs)
    /\ \A i \in 1..Len(fs) : \E j \in 1..n : fs[i] = entries[j] /\ ~Covered(selection, entries[j].path)
    /\ \A j \in 1..n : ~Covered(selection, entries[j].path) => \E i \in 1..Len(fs) : fs[i] = entries[j]

LEMMA LeavesFacts ==
    ASSUME NEW selection, NEW entries, IsSeq(entries)
    PROVE  LeavesOf(selection, entries, Len(entries), NotUnder(selection, entries))
<1>1. PICK g : /\ IsRun(g, "leave", selection, <<>>, entries)
               /\ g[Len(entries)] = NotUnder(selection, entries)
  BY LeftRuns
<1>2. Len(entries) \in Nat
  BY SeqFacts
<1> DEFINE T == { k \in Nat : k <= Len(entries) => LeavesOf(selection, entries, k, g[k]) }
<1>3. 0 \in T
  <2>1. LeavesOf(selection, entries, 0, <<>>)
    BY EmptyIsSeq DEF LeavesOf
  <2> QED BY <1>1, <2>1 DEF IsRun
<1>4. ASSUME NEW k \in Nat, k \in T PROVE k + 1 \in T
  <2> SUFFICES ASSUME k + 1 <= Len(entries) PROVE LeavesOf(selection, entries, k + 1, g[k + 1])
    OBVIOUS
  <2> DEFINE fs == g[k]
             gs == g[k + 1]
             e == entries[k + 1]
  <2>1. k \in 0..(Len(entries) - 1) /\ LeavesOf(selection, entries, k, fs)
    BY <1>2, <1>4
  <2>2. gs = IF Covered(selection, e.path) THEN fs ELSE Append(fs, e)
    BY <1>1, <2>1 DEF IsRun, OneStep, LeaveOne, Covered
  <2>3. \A m : m \in 1..(k + 1) <=> m \in 1..k \/ m = k + 1
    OBVIOUS
  <2> HIDE DEF fs, gs
  <2>4. CASE Covered(selection, e.path)
    <3>1. gs = fs
      BY <2>2, <2>4
    <3> QED BY <2>1, <2>3, <2>4, <3>1 DEF LeavesOf, gs
  <2>5. CASE ~Covered(selection, e.path)
    <3>1. IsSeq(fs) /\ Len(fs) \in Nat
      BY <2>1, SeqFacts DEF LeavesOf
    <3>2. /\ IsSeq(gs) /\ Len(gs) = Len(fs) + 1 /\ gs[Len(fs) + 1] = e
          /\ \A i \in 1..Len(fs) : gs[i] = fs[i]
      <4> HIDE DEF e
      <4> QED BY <2>2, <2>5, <3>1, AppendAny
    <3>3. \A i : i \in 1..Len(gs) <=> i \in 1..Len(fs) \/ i = Len(fs) + 1
      BY <3>1, <3>2
    <3>4. ASSUME NEW i \in 1..Len(gs)
          PROVE  \E j \in 1..(k + 1) : gs[i] = entries[j] /\ ~Covered(selection, entries[j].path)
      <4>1. CASE i = Len(fs) + 1
        BY <2>3, <2>5, <3>2, <4>1
      <4>2. CASE i \in 1..Len(fs)
        <5>1. PICK j \in 1..k : fs[i] = entries[j] /\ ~Covered(selection, entries[j].path)
          BY <2>1, <4>2 DEF LeavesOf
        <5>2. j \in 1..(k + 1)
          BY <2>3
        <5> QED BY <3>2, <4>2, <5>1, <5>2
      <4> QED BY <3>3, <4>1, <4>2
    <3>5. ASSUME NEW j \in 1..(k + 1), ~Covered(selection, entries[j].path)
          PROVE  \E i \in 1..Len(gs) : gs[i] = entries[j]
      <4>1. CASE j = k + 1
        BY <3>2, <3>3, <4>1
      <4>2. CASE j \in 1..k
        <5>1. PICK i \in 1..Len(fs) : fs[i] = entries[j]
          BY <2>1, <3>5, <4>2 DEF LeavesOf
        <5> QED BY <3>2, <3>3, <5>1
      <4> QED BY <2>3, <4>1, <4>2
    <3> QED BY <3>2, <3>4, <3>5 DEF LeavesOf, gs
  <2> QED BY <2>4, <2>5
<1> HIDE DEF T
<1>5. Len(entries) \in T
  BY <1>2, <1>3, <1>4, Counting
<1> QED BY <1>1, <1>2, <1>5 DEF T

LEMMA RemoveBytes ==
    ASSUME TreeInv, BytesInv, NEW selection, RemovePaths(selection)
    PROVE  BytesInv'
<1>1. /\ IsSeq(files) /\ ~add'.on /\ units' = units /\ Held(units, files, kept)
      /\ files' = NotUnder(selection, files)
      /\ kept' = [path \in { old \in DOMAIN kept : ~Covered(selection, old) } |-> kept[path]]
  BY DEF TreeInv, AreEntries, RemovePaths, Edit, BytesInv, Covered
<1>2. LeavesOf(selection, files, Len(files), files')
  BY <1>1, LeavesFacts
<1>3. \A old : old \in DOMAIN kept <=> \E i \in 1..Len(files) : files[i].path = old /\ ~files[i].dir
  BY <1>1 DEF Held, NamesOf
<1>4. ASSUME NEW i \in 1..Len(files')
      PROVE  /\ ~files'[i].dir => files'[i].path \in DOMAIN kept'
             /\ IsStored(units', files'[i], Bytes(kept', files'[i]))
  <2>1. PICK j \in 1..Len(files) : /\ files'[i] = files[j]
                                   /\ ~Covered(selection, files[j].path)
    BY <1>2 DEF LeavesOf
  <2>2. ~files[j].dir => /\ files[j].path \in DOMAIN kept'
                         /\ kept'[files[j].path] = kept[files[j].path]
    BY <1>1, <1>3, <2>1
  <2>3. Bytes(kept', files[j]) = Bytes(kept, files[j])
    BY <2>2 DEF Bytes
  <2>4. IsStored(units, files[j], Bytes(kept, files[j]))
    BY <1>1 DEF Held
  <2> QED BY <1>1, <2>1, <2>2, <2>3, <2>4
<1>5. ASSUME NEW path \in DOMAIN kept' PROVE path \in NamesOf(files')
  <2>1. path \in DOMAIN kept /\ ~Covered(selection, path)
    BY <1>1
  <2>2. PICK j \in 1..Len(files) : files[j].path = path /\ ~files[j].dir
    BY <1>3, <2>1
  <2>3. PICK i \in 1..Len(files') : files'[i] = files[j]
    BY <1>2, <2>1, <2>2 DEF LeavesOf
  <2> QED BY <2>2, <2>3 DEF NamesOf
<1>6. DOMAIN kept' = NamesOf(files')
  BY <1>4, <1>5 DEF NamesOf
<1>7. Held(units', files', kept')
  BY <1>1, <1>4, <1>6 DEF Held
<1> QED BY <1>1, <1>7 DEF BytesInv

\* compact's units: those that some extent needs, each of them there.
AreLive(live, xs, n) ==
    /\ IsSeq(live) /\ \A m \in 1..Len(live) : live[m] \in 1..n
    /\ \A k \in 1..Len(xs) : \E m \in 1..Len(live) : live[m] = xs[k].unit

LEMMA LiveFacts ==
    ASSUME NEW xs, IsSeq(xs), NEW n, \A k \in 1..Len(xs) : xs[k].unit \in 1..n
    PROVE  AreLive(LiveIn(xs), xs, n)
<1>1. PICK g : IsRun(g, "live", 0, <<>>, xs) /\ g[Len(xs)] = LiveIn(xs)
  BY LiveRuns
<1>2. Len(xs) \in Nat
  BY SeqFacts
<1> DEFINE Good(live, h) ==
             /\ IsSeq(live) /\ \A m \in 1..Len(live) : live[m] \in 1..n
             /\ \A k \in 1..h : \E m \in 1..Len(live) : live[m] = xs[k].unit
           T == { h \in Nat : h <= Len(xs) => Good(g[h], h) }
<1>3. 0 \in T
  <2>1. g[0] = <<>>
    BY <1>1 DEF IsRun
  <2>2. Good(<<>>, 0)
    BY EmptyIsSeq
  <2> QED BY <2>1, <2>2
<1>4. ASSUME NEW h \in Nat, h \in T PROVE h + 1 \in T
  <2> SUFFICES ASSUME h + 1 <= Len(xs) PROVE Good(g[h + 1], h + 1)
    OBVIOUS
  <2> DEFINE live == g[h]
             u == xs[h + 1].unit
             more == g[h + 1]
  <2>1. h \in 0..(Len(xs) - 1) /\ h + 1 \in 1..Len(xs) /\ Good(live, h)
    BY <1>2, <1>4
  <2>2. more = IF u \in ToSet(live) THEN live ELSE Append(live, u)
    BY <1>1, <2>1 DEF IsRun, OneStep, LiveOne
  <2>3. u \in 1..n
    BY <2>1
  <2>4. \A m : m \in 1..(h + 1) <=> m \in 1..h \/ m = h + 1
    OBVIOUS
  <2>5. xs[h + 1].unit = u
    OBVIOUS
  <2> HIDE DEF live, u, more
  <2>6. IsSeq(live) /\ Len(live) \in Nat /\ DOMAIN live = 1..Len(live)
    BY <2>1, SeqFacts
  <2>7. CASE u \in ToSet(live)
    <3>1. PICK m \in 1..Len(live) : live[m] = u
      BY <2>6, <2>7 DEF ToSet
    <3>2. more = live
      BY <2>2, <2>7
    <3>3. Good(live, h + 1)
      BY <2>1, <2>4, <2>5, <3>1
    <3> QED BY <3>2, <3>3 DEF more
  <2>8. CASE u \notin ToSet(live)
    <3>1. /\ IsSeq(more) /\ Len(more) = Len(live) + 1 /\ more[Len(live) + 1] = u
          /\ \A m \in 1..Len(live) : more[m] = live[m]
      BY <2>2, <2>6, <2>8, AppendAny
    <3>2. \A m : m \in 1..Len(more) <=> m \in 1..Len(live) \/ m = Len(live) + 1
      BY <2>6, <3>1
    <3>3. \A m \in 1..Len(more) : more[m] \in 1..n
      BY <2>1, <2>3, <3>1, <3>2
    <3>4. ASSUME NEW k \in 1..(h + 1) PROVE \E m \in 1..Len(more) : more[m] = xs[k].unit
      <4>1. CASE k = h + 1
        BY <2>5, <3>1, <3>2, <4>1
      <4>2. CASE k \in 1..h
        <5>1. PICK m \in 1..Len(live) : live[m] = xs[k].unit
          BY <2>1, <4>2
        <5> QED BY <3>1, <3>2, <5>1
      <4> QED BY <2>4, <4>1, <4>2
    <3>5. Good(more, h + 1)
      BY <3>1, <3>3, <3>4
    <3> QED BY <3>5 DEF more
  <2> QED BY <2>7, <2>8
<1> HIDE DEF T
<1>5. Len(xs) \in T
  BY <1>2, <1>3, <1>4, Counting
<1> QED BY <1>1, <1>2, <1>5 DEF T, AreLive

\* All that is in the parts is in the whole.
LEMMA FlattenHas ==
    ASSUME NEW S, NEW seqs, IsSeq(seqs), \A i \in 1..Len(seqs) : seqs[i] \in Seq(S)
    PROVE  /\ FlattenSeq(seqs) \in Seq(S)
           /\ \A i \in 1..Len(seqs) : \A k \in 1..Len(seqs[i]) :
                 \E m \in 1..Len(FlattenSeq(seqs)) : FlattenSeq(seqs)[m] = seqs[i][k]
<1> DEFINE n == Len(seqs)
<1>1. PICK g : /\ IsRun(g, "join", 0, <<>>, seqs) /\ g[n] = FlattenSeq(seqs)
               /\ g \in [0..n -> Seq(S)]
  BY FlattenRuns
<1>2. n \in Nat
  BY SeqFacts
<1> DEFINE Has(h) == \A i \in 1..h : \A k \in 1..Len(seqs[i]) :
                        \E m \in 1..Len(g[h]) : g[h][m] = seqs[i][k]
           T == { h \in Nat : h <= n => Has(h) }
<1> HIDE DEF n
<1>3. 0 \in T
  OBVIOUS
<1>4. ASSUME NEW h \in Nat, h \in T PROVE h + 1 \in T
  <2> SUFFICES ASSUME h + 1 <= n PROVE Has(h + 1)
    OBVIOUS
  <2>1. h \in 0..(n - 1) /\ h \in 0..n /\ h + 1 \in 1..n /\ Has(h)
    BY <1>2, <1>4
  <2> DEFINE x == g[h]
             y == seqs[h + 1]
             z == g[h + 1]
  <2>2. z = x \o y
    BY <1>1, <2>1 DEF IsRun, OneStep, n
  <2>3. x \in Seq(S) /\ y \in Seq(S)
    BY <1>1, <2>1 DEF n
  <2>4. \A i \in 1..h : \A k \in 1..Len(seqs[i]) : \E m \in 1..Len(x) : x[m] = seqs[i][k]
    BY <2>1
  <2>5. \A i \in 1..(h + 1) : i \in 1..h \/ i = h + 1
    OBVIOUS
  <2>6. y = seqs[h + 1]
    OBVIOUS
  <2> HIDE DEF x, y, z
  <2>7. /\ Len(z) = Len(x) + Len(y) /\ Len(x) \in Nat /\ Len(y) \in Nat
        /\ \A m \in 1..Len(x) : z[m] = x[m]
        /\ \A m \in 1..Len(y) : z[Len(x) + m] = y[m]
    <3>1. IsSeq(x) /\ IsSeq(y)
      BY <2>3, IsSeqOf
    <3> DEFINE w == x \o y
    <3>2. /\ Len(w) = Len(x) + Len(y)
          /\ \A m \in 1..Len(x) : w[m] = x[m]
          /\ \A m \in 1..Len(y) : w[Len(x) + m] = y[m]
      BY <3>1, ConcatAny
    <3>3. Len(x) \in Nat /\ Len(y) \in Nat
      BY <3>1, SeqFacts
    <3> HIDE DEF w
    <3>4. z = w
      BY <2>2 DEF w
    <3> QED BY <3>2, <3>3, <3>4
  <2>8. /\ \A m \in 1..Len(x) : m \in 1..Len(z)
        /\ \A m \in 1..Len(y) : Len(x) + m \in 1..Len(z)
    BY <2>7
  <2>9. ASSUME NEW i \in 1..(h + 1), NEW k \in 1..Len(seqs[i])
        PROVE  \E m \in 1..Len(z) : z[m] = seqs[i][k]
    <3>1. CASE i = h + 1
      BY <2>6, <2>7, <2>8, <3>1
    <3>2. CASE i \in 1..h
      <4>1. PICK m \in 1..Len(x) : x[m] = seqs[i][k]
        BY <2>4, <3>2
      <4> QED BY <2>7, <2>8, <4>1
    <3> QED BY <2>5, <3>1, <3>2
  <2> QED BY <2>9 DEF z
<1> HIDE DEF T
<1>5. n \in T
  BY <1>2, <1>3, <1>4, Counting
<1>6. g[n] \in Seq(S)
  BY <1>1, <1>2
<1>7. Has(n)
  BY <1>2, <1>5 DEF T
<1> QED BY <1>1, <1>6, <1>7 DEF n

\* Extents that are renumbered spell the same.
LEMMA RemappedSpells ==
    ASSUME NEW U, AreUnits(U), NEW xs, NEW cells, Spells(U, xs, cells),
           NEW live, AreLive(live, xs, Len(U)),
           NEW V, V = [k \in DOMAIN live |-> U[live[k]]],
           NEW ys, ys = [k \in DOMAIN xs |-> Remapped(live, xs[k])]
    PROVE  Spells(V, ys, cells)
<1> DEFINE n == Len(xs)
<1>1. /\ IsSeq(xs) /\ n \in Nat /\ DOMAIN xs = 1..n
      /\ \A k \in 1..n : IsExtent(U, xs[k])
  BY SeqFacts DEF Spells
<1>2. IsSeq(live) /\ Len(live) \in Nat /\ DOMAIN live = 1..Len(live)
  BY SeqFacts DEF AreLive
<1>3. PICK s : SpelledBy(U, xs, s) /\ s[n] = cells
  BY DEF Spells
<1>4. Len(V) = Len(live) /\ \A m \in 1..Len(live) : V[m] = U[live[m]]
  <2>1. V = [m \in 1..Len(live) |-> V[m]]
    BY <1>2
  <2> QED BY <1>2, <2>1, IsSeqByLength
<1> HIDE DEF n
<1>5. IsSeq(ys) /\ Len(ys) = n /\ \A k \in 1..n : ys[k] = Remapped(live, xs[k])
  <2>1. ys = [k \in 1..n |-> ys[k]] /\ \A k \in 1..n : ys[k] = Remapped(live, xs[k])
    BY <1>1
  <2> QED BY <1>1, <2>1, IsSeqByLength
<1>6. ASSUME NEW k \in 1..n
      PROVE  IsExtent(V, ys[k]) /\ PieceOf(V, ys[k]) = PieceOf(U, xs[k])
  <2> DEFINE x == xs[k]
             y == ys[k]
             u == Remap(live, x.unit)
  <2>1. IsExtent(U, x) /\ y = Remapped(live, x)
    BY <1>1, <1>5
  <2>2. \E m \in 1..Len(live) : live[m] = x.unit
    BY DEF AreLive, n
  <2> HIDE DEF x, y
  <2>3. u \in 1..Len(live) /\ live[u] = x.unit
    BY <1>2, <2>2 DEF Remap
  <2>4. x = [unit |-> x.unit, off |-> x.off, len |-> x.len]
    BY <2>1 DEF IsExtent
  <2> HIDE DEF u
  <2>5. y = [x EXCEPT !.unit = u]
    BY <2>1 DEF Remapped, u
  <2>6. y = [unit |-> u, off |-> x.off, len |-> x.len]
    BY <2>4, <2>5
  <2>7. y.unit = u /\ y.off = x.off /\ y.len = x.len
    BY <2>6
  <2>8. V[u] = U[x.unit] /\ u \in 1..Len(V)
    BY <1>4, <2>3
  <2>9. IsExtent(V, y)
    BY <2>1, <2>6, <2>7, <2>8 DEF IsExtent, IsWithin
  <2>10. PieceOf(V, y) = PieceOf(U, x)
    BY <2>7, <2>8 DEF PieceOf, CutOut
  <2> QED BY <2>9, <2>10 DEF x, y
<1>7. SpelledBy(V, ys, s)
  <2>1. \A k \in 0..(n - 1) : k + 1 \in 1..n
    BY <1>1
  <2>2. /\ s \in [0..n -> Seq(Nat)] /\ s[0] = <<>>
        /\ \A k \in 0..(n - 1) : s[k + 1] = s[k] \o PieceOf(U, xs[k + 1])
    BY <1>3 DEF SpelledBy, n
  <2>3. \A k \in 0..(n - 1) : s[k + 1] = s[k] \o PieceOf(V, ys[k + 1])
    BY <1>6, <2>1, <2>2
  <2> QED BY <1>5, <2>2, <2>3 DEF SpelledBy
<1> QED BY <1>3, <1>5, <1>6, <1>7 DEF Spells

LEMMA CompactBytes ==
    ASSUME TreeInv, BytesInv, Compact
    PROVE  BytesInv'
<1> DEFINE n == Len(files)
           parts == [i \in DOMAIN files |-> files[i].extents]
           xs == FlattenSeq(parts)
           live == Live
           S == [unit : 1..Len(units), off : Nat, len : Nat]
           moved(i) == [k \in DOMAIN files[i].extents |-> Remapped(live, files[i].extents[k])]
           new(i) == [files[i] EXCEPT !.extents = moved(i)]
<1>1. /\ AreEntries(files) /\ ~add'.on /\ kept' = kept /\ Held(units, files, kept)
      /\ n \in Nat /\ DOMAIN files = 1..n
  BY SeqFacts DEF TreeInv, AreEntries, Compact, Edit, BytesInv
<1>2. /\ files' = [i \in 1..n |-> new(i)]
      /\ units' = [k \in DOMAIN live |-> units[live[k]]]
  BY <1>1 DEF Compact, CompactTo
<1>3. live = LiveIn(xs)
  BY FoldsOfTheModel
<1> HIDE DEF live, moved
<1>4. ASSUME NEW i \in 1..n
      PROVE  /\ new(i).path = files[i].path /\ new(i).dir = files[i].dir
             /\ new(i).size = files[i].size /\ new(i).extents = moved(i)
  BY <1>1 DEF AreEntries, IsEntry, EntryFields
<1> HIDE DEF new
<1>5. Len(files') = n /\ \A i \in 1..n : files'[i] = new(i)
  <2>1. files' = [i \in 1..n |-> files'[i]] /\ \A i \in 1..n : files'[i] = new(i)
    BY <1>2
  <2> HIDE DEF n
  <2> QED BY <1>1, <2>1, IsSeqByLength
<1>6. AreUnits(units) /\ \A i \in 1..n : IsStored(units, files[i], Bytes(kept, files[i]))
  BY <1>1 DEF Held
<1>7. ASSUME NEW i \in 1..n
      PROVE  /\ IsSeq(files[i].extents) /\ files[i].extents \in Seq(S)
             /\ \A k \in 1..Len(files[i].extents) : files[i].extents[k].unit \in 1..Len(units)
  <2> DEFINE es == files[i].extents
  <2>1. IsSeq(es) /\ \A k \in 1..Len(es) : IsExtent(units, es[k])
    BY <1>6 DEF IsStored, Spells
  <2> HIDE DEF es
  <2>2. ASSUME NEW k \in 1..Len(es) PROVE es[k] \in S
    <3> DEFINE x == es[k]
    <3>1. /\ x = [unit |-> x.unit, off |-> x.off, len |-> x.len]
          /\ x.unit \in 1..Len(units) /\ x.off \in Nat /\ x.len \in Nat
      BY <2>1 DEF IsExtent, IsWithin
    <3> HIDE DEF x
    <3>2. x \in S
      BY <3>1
    <3> QED BY <3>2 DEF x
  <2> HIDE DEF S
  <2>3. es = [k \in 1..Len(es) |-> es[k]] /\ Len(es) \in Nat
    BY <2>1, SeqFacts
  <2>4. es \in Seq(S)
    BY <2>2, <2>3
  <2> QED BY <2>1, <2>4 DEF es, IsExtent
<1>8. /\ IsSeq(parts) /\ Len(parts) = n /\ \A i \in 1..n : parts[i] = files[i].extents
  <2>1. parts = [i \in 1..n |-> parts[i]] /\ \A i \in 1..n : parts[i] = files[i].extents
    BY <1>1
  <2> HIDE DEF n, parts
  <2> QED BY <1>1, <2>1, IsSeqByLength
<1> HIDE DEF parts
<1>9. /\ xs \in Seq(S)
      /\ \A i \in 1..n : \A k \in 1..Len(files[i].extents) :
            \E m \in 1..Len(xs) : xs[m] = files[i].extents[k]
  <2> HIDE DEF S, n
  <2>1. \A i \in 1..Len(parts) : parts[i] \in Seq(S)
    BY <1>7, <1>8
  <2>2. /\ xs \in Seq(S)
        /\ \A i \in 1..Len(parts) : \A k \in 1..Len(parts[i]) :
              \E m \in 1..Len(xs) : xs[m] = parts[i][k]
    <3>1. IsSeq(parts)
      BY <1>8
    <3>2. xs \in Seq(S)
      BY <2>1, <3>1, FlattenHas
    <3>3. ASSUME NEW i \in 1..Len(parts), NEW k \in 1..Len(parts[i])
          PROVE  \E m \in 1..Len(xs) : xs[m] = parts[i][k]
      BY <2>1, <3>1, FlattenHas, SMTT(60)
    <3> QED BY <3>2, <3>3
  <2> HIDE DEF xs
  <2> QED BY <1>8, <2>2
<1> HIDE DEF xs, n
<1>10. IsSeq(xs) /\ \A k \in 1..Len(xs) : xs[k].unit \in 1..Len(units)
  <2>1. IsSeq(xs)
    BY <1>9, IsSeqOf
  <2>2. \A k \in 1..Len(xs) : xs[k] \in S
    <3> HIDE DEF S
    <3> QED BY <1>9
  <2> QED BY <2>1, <2>2
<1>11. AreLive(live, xs, Len(units))
  BY <1>3, <1>10, LiveFacts
<1>12. ASSUME NEW i \in 1..n
       PROVE  Spells(units', files'[i].extents, Bytes(kept, files[i]))
  <2> DEFINE es == files[i].extents
             cells == Bytes(kept, files[i])
             V == units'
             ys == files'[i].extents
  <2>1. Spells(units, es, cells)
    BY <1>6 DEF IsStored
  <2>2. \A k \in 1..Len(es) : \E m \in 1..Len(xs) : xs[m] = es[k]
    BY <1>9
  <2>3. ys = [k \in DOMAIN es |-> Remapped(live, es[k])]
    BY <1>4, <1>5 DEF moved
  <2> HIDE DEF es, cells, ys
  <2>4. AreLive(live, es, Len(units))
    BY <1>11, <2>2 DEF AreLive
  <2>5. V = [k \in DOMAIN live |-> units[live[k]]]
    BY <1>2
  <2> HIDE DEF V
  <2>6. Spells(V, ys, cells)
    BY <1>6, <2>1, <2>3, <2>4, <2>5, RemappedSpells
  <2> QED BY <2>6 DEF V, ys, cells
<1>13. AreUnits(units')
  <2> DEFINE V == units'
  <2>1. IsSeq(live) /\ Len(live) \in Nat /\ DOMAIN live = 1..Len(live)
        /\ \A m \in 1..Len(live) : live[m] \in 1..Len(units)
    BY <1>11, SeqFacts DEF AreLive
  <2>2. V = [k \in 1..Len(live) |-> V[k]] /\ \A k \in 1..Len(live) : V[k] = units[live[k]]
    BY <1>2, <2>1
  <2> HIDE DEF V
  <2>3. IsSeq(V) /\ Len(V) = Len(live)
    BY <2>1, <2>2, IsSeqByLength
  <2>4. AreUnits(V)
    BY <1>6, <2>1, <2>2, <2>3 DEF AreUnits
  <2> QED BY <2>4 DEF V
<1>14. ASSUME NEW i \in 1..n
       PROVE  /\ files'[i].path = files[i].path /\ files'[i].dir = files[i].dir
              /\ IsStored(units', files'[i], Bytes(kept', files'[i]))
  <2>1. /\ files'[i].path = files[i].path /\ files'[i].dir = files[i].dir
        /\ files'[i].size = files[i].size
    BY <1>4, <1>5
  <2>2. Bytes(kept', files'[i]) = Bytes(kept, files[i])
    BY <1>1, <2>1 DEF Bytes
  <2>3. files[i].size = Len(Bytes(kept, files[i]))
    BY <1>6 DEF IsStored
  <2> QED BY <1>12, <2>1, <2>2, <2>3 DEF IsStored
<1>15. NamesOf(files') = NamesOf(files)
  <2>1. \A i \in 1..n : files'[i].path = files[i].path /\ files'[i].dir = files[i].dir
    BY <1>14
  <2>2. Len(files') = n /\ Len(files) = n
    BY <1>5 DEF n
  <2> QED BY <2>1, <2>2 DEF NamesOf
<1>16. Held(units', files', kept')
  BY <1>1, <1>5, <1>13, <1>14, <1>15 DEF Held
<1> QED BY <1>1, <1>16 DEF BytesInv

LEMMA BytesStep ==
    ASSUME TreeInv, BytesInv, [Next]_vars
    PROVE  BytesInv'
<1>1. CASE BeginAdd
  BY <1>1, BeginAddBytes
<1>2. CASE \E i \in DOMAIN Catalogue : add.on /\ i \in Now.files /\ TakeFile(i)
  BY <1>2, TakeFileBytes
<1>3. CASE FinishAdd
  BY <1>3, FinishAddBytes
<1>4. CASE AddFails
  BY <1>4 DEF AddFails, Idle, BytesInv
<1>5. CASE \E m \in Moves : Rename(m[1], m[2])
  BY <1>5, RenameBytes
<1>6. CASE \E s \in Selections : RemovePaths(s)
  BY <1>6, RemoveBytes
<1>7. CASE Compact
  BY <1>7, CompactBytes
<1>8. CASE UNCHANGED vars
  BY <1>8 DEF vars, BytesInv
<1> QED BY <1>1, <1>2, <1>3, <1>4, <1>5, <1>6, <1>7, <1>8 DEF Next

THEOREM BytesInvHolds == Spec => []BytesInv
<1>1. TreeInv /\ BytesInv /\ [Next]_vars => BytesInv'
  BY BytesStep
<1> QED BY InitBytes, TreeInvHolds, <1>1, PTL DEF Spec

----------------------------------------------------------------------------
(* What the invariant says of extraction.                                    *)

\* One entry after the other, each of them what its path stands for unless a unit of it
\* does not verify.
LEMMA ExtractedIsGiven ==
    ASSUME TreeInv, BytesInv, NEW lanes, NEW damaged
    PROVE  Extracted(lanes, damaged) = [i \in DOMAIN files |-> Given(files[i], AsStored(i), damaged)]
<1> DEFINE data == [i \in 1..Len(files) |-> Bytes(kept, files[i])]
<1>1. /\ IsSeq(files) /\ DOMAIN files = 1..Len(files)
      /\ AreUnits(units) /\ \A i \in 1..Len(files) : IsStored(units, files[i], Bytes(kept, files[i]))
  BY SeqFacts DEF TreeInv, AreEntries, BytesInv, Held
<1>2. \A i \in 1..Len(files) : data[i] = AsStored(i) /\ data[i] = Bytes(kept, files[i])
  BY DEF Bytes, AsStored
<1> HIDE DEF data
<1>3. \A i \in 1..Len(files) : IsStored(units, files[i], data[i])
  BY <1>1, <1>2
<1>4. ExtractedFrom(files, lanes, damaged).out
        = [i \in 1..Len(files) |-> Given(files[i], data[i], damaged)]
  BY <1>1, <1>3, ExtractedReads
<1>5. Extracted(lanes, damaged) = ExtractedFrom(files, lanes, damaged).out
  BY FoldsOfTheModel
<1> QED BY <1>1, <1>2, <1>4, <1>5

\* Every file comes back as it was read, through one cache or through lanes, whatever adds
\* replaced and reused, renames moved, removals left and compaction renumbered
\* (archive.rs: add_paths_with, rename, remove, compact, extract_one, decode_window;
\* pack.rs: add_file, place, flush).
THEOREM FilesComeBackHolds == Spec => []FilesComeBack
<1>1. TreeInv /\ BytesInv => FilesComeBack
  <2> SUFFICES ASSUME TreeInv, BytesInv PROVE FilesComeBack
    OBVIOUS
  <2>1. DOMAIN files = 1..Len(files) /\ OnePathOnce(files)
    BY SeqFacts DEF TreeInv, AreEntries
  <2>2. \A i, j \in DOMAIN files : files[i].path = files[j].path => i = j
    BY <2>1 DEF OnePathOnce
  <2>3. { files[i].path : i \in { k \in DOMAIN files : ~files[k].dir } } = DOMAIN kept
    BY <2>1 DEF BytesInv, Held, NamesOf
  <2>4. ASSUME NEW lanes PROVE Extracted(lanes, {}) = [i \in DOMAIN files |-> AsStored(i)]
    <3>1. Extracted(lanes, {}) = [i \in DOMAIN files |-> Given(files[i], AsStored(i), {})]
      BY ExtractedIsGiven
    <3>2. \A e, data : Given(e, data, {}) = data
      BY DEF Given, IsHit
    <3> QED BY <3>1, <3>2
  <2> QED BY <2>2, <2>3, <2>4 DEF FilesComeBack
<1> QED BY TreeInvHolds, BytesInvHolds, <1>1, PTL

\* A unit that does not verify costs the files that have bytes in it and no other: "One
\* file lost, not the extraction" (archive.rs: UnitCache::load, extract_one).
THEOREM DamageIsConfinedHolds == Spec => []DamageIsConfined
<1>1. TreeInv /\ BytesInv => DamageIsConfined
  <2> SUFFICES ASSUME TreeInv, BytesInv, NEW lanes \in LaneCounts, NEW u \in DOMAIN units
               PROVE  Extracted(lanes, {u}) =
                        [i \in DOMAIN files |->
                            IF \E k \in DOMAIN files[i].extents : files[i].extents[k].unit = u
                            THEN Refused ELSE AsStored(i)]
    BY DEF DamageIsConfined
  <2>1. Extracted(lanes, {u}) = [i \in DOMAIN files |-> Given(files[i], AsStored(i), {u})]
    BY ExtractedIsGiven
  <2>2. ASSUME NEW i \in DOMAIN files
        PROVE  Given(files[i], AsStored(i), {u})
                 = IF \E k \in DOMAIN files[i].extents : files[i].extents[k].unit = u
                   THEN Refused ELSE AsStored(i)
    <3>1. i \in 1..Len(files)
      BY SeqFacts DEF TreeInv, AreEntries
    <3>2. IsSeq(files[i].extents)
      BY <3>1 DEF BytesInv, Held, IsStored, Spells
    <3>3. DOMAIN files[i].extents = 1..Len(files[i].extents)
      BY <3>2, SeqFacts
    <3> QED BY <3>3 DEF Given, IsHit
  <2> QED BY <2>1, <2>2
<1> QED BY TreeInvHolds, BytesInvHolds, <1>1, PTL

----------------------------------------------------------------------------
(* The log of an add: what its units are made of and what decided of them.   *)

\* UnitPlan's candidates and the class of a file.
Kinds == {"jpeg", "deflate", "wav", "mp3", "precompressed", "executable", "text", "generic"}
IsVerdict(v) == v \in [codec: DOMAIN CodecIds, filter: Nat]

\* The filters that take a file as a whole.
WholeFilters == { NamedFilters[f] : f \in {"jpeg", "chunked", "wav"} }

LEMMA FilterIds ==
    /\ WholeFilters = {35, 38, 40} /\ NamedFilters.none = 0 /\ NamedFilters.wav = 38
    /\ \A f \in DOMAIN NamedFilters : NamedFilters[f] \in Nat
    /\ \A f \in {"none", "bcj", "split", "mp3"} :
          f \in DOMAIN NamedFilters /\ NamedFilters[f] \notin WholeFilters
    /\ \A f \in {"jpeg", "chunked", "wav"} : f \in DOMAIN NamedFilters
  BY DEF WholeFilters, NamedFilters

\* A plan is one of the known codecs, filters and classes, and a filter that takes a whole
\* file goes with the three classes of containers.
IsPlan(plan) ==
    /\ plan.codec \in DOMAIN CodecIds /\ plan.filter \in Nat /\ plan.kind \in Kinds
    /\ plan.filter \in WholeFilters <=> plan.kind \in {"jpeg", "deflate", "wav"}

LEMMA ThePlanIs ==
    ASSUME NEW codec \in DOMAIN CodecIds, NEW filter \in Nat, NEW kind \in Kinds,
           filter \in WholeFilters <=> kind \in {"jpeg", "deflate", "wav"}
    PROVE  IsPlan(ThePlan(codec, filter, kind))
  BY DEF ThePlan, IsPlan

LEMMA CodecsAre ==
    /\ DOMAIN CodecIds = {"store", "zstd", "lzma2", "ppmd7", "bsc"}
    /\ \A c \in DOMAIN CodecIds : CodecIds[c] \in 0..4
    /\ \A c, d \in DOMAIN CodecIds : CodecIds[c] = CodecIds[d] => c = d
    /\ \A tier : GeneralCodec(tier) \in DOMAIN CodecIds
  BY DEF CodecIds, GeneralCodec

LEMMA GenerallyIs ==
    ASSUME NEW tier, NEW filter \in DOMAIN NamedFilters, NEW kind \in Kinds,
           NamedFilters[filter] \in WholeFilters <=> kind \in {"jpeg", "deflate", "wav"}
    PROVE  IsPlan(Generally(tier, filter, kind))
<1>1. GeneralCodec(tier) \in DOMAIN CodecIds /\ NamedFilters[filter] \in Nat
  BY CodecsAre, FilterIds
<1> QED BY <1>1, ThePlanIs DEF Generally

IsLook(look) == look.magic \in Magics /\ look.stride \in 0..MaxDeltaDistance

LEMMA LooksAre == ASSUME NEW cells PROVE IsLook(LookOf(cells))
<1>1. IsLook(Noise)
  <2>1. Noise.magic = "none" /\ Noise.stride = 0
    BY DEF Noise
  <2> QED BY <2>1, DeltaAssumption DEF IsLook, Magics
<1>2. \A c \in DOMAIN Looks : IsLook(Looks[c])
  BY LooksAssumption DEF IsLook
<1> QED BY <1>1, <1>2 DEF LookOf

LEMMA GenericIs ==
    ASSUME NEW look, IsLook(look), NEW tier
    PROVE  /\ IsPlan(PlanGeneric(look, tier)) /\ PlanGeneric(look, tier).filter \notin WholeFilters
           /\ IsPlan(PlanPrecompressed(look, tier))
           /\ PlanPrecompressed(look, tier).filter \notin WholeFilters
<1>1. /\ "none" \in DOMAIN NamedFilters /\ NamedFilters["none"] = NamedFilters.none
      /\ NamedFilters.none \in Nat /\ NamedFilters.none \notin WholeFilters
  BY FilterIds
<1>2. IsPlan(StorePlan)
  BY <1>1, ThePlanIs, CodecsAre DEF StorePlan, Kinds
<1>3. \A kind \in {"precompressed", "generic"} : IsPlan(Generally(tier, "none", kind))
  BY <1>1, GenerallyIs DEF Kinds
<1>4. look.stride # 0 => IsPlan(ThePlan(GeneralCodec(tier), 1 + look.stride, "generic"))
  <2> SUFFICES ASSUME look.stride # 0
               PROVE  IsPlan(ThePlan(GeneralCodec(tier), 1 + look.stride, "generic"))
    OBVIOUS
  <2>1. 1 + look.stride \in 2..33
    BY DeltaAssumption DEF IsLook
  <2>2. 1 + look.stride \in Nat /\ 1 + look.stride \notin WholeFilters
    BY <2>1, FilterIds
  <2>3. GeneralCodec(tier) \in DOMAIN CodecIds /\ "generic" \in Kinds
    BY CodecsAre DEF Kinds
  <2> DEFINE id == 1 + look.stride
  <2> HIDE DEF id
  <2> QED BY <2>2, <2>3, ThePlanIs DEF id
<1>5. IsPlan(PlanGeneric(look, tier))
  BY <1>2, <1>3, <1>4 DEF PlanGeneric
<1>6. IsPlan(PlanPrecompressed(look, tier))
  BY <1>2, <1>3 DEF PlanPrecompressed
<1>7. PlanGeneric(look, tier).kind \in {"generic", "precompressed"}
  BY DEF PlanGeneric, Generally, ThePlan, StorePlan
<1>8. PlanPrecompressed(look, tier).kind \in {"generic", "precompressed"}
  BY DEF PlanPrecompressed, Generally, ThePlan, StorePlan
<1> QED BY <1>5, <1>6, <1>7, <1>8 DEF IsPlan

LEMMA PlanOfIs ==
    ASSUME NEW look, IsLook(look), NEW tier
    PROVE  IsPlan(PlanOf(look, tier))
<1>1. \A f \in {"none", "bcj", "split", "mp3"}, kind \in {"executable", "mp3"} :
         IsPlan(Generally(tier, f, kind))
  BY FilterIds, GenerallyIs DEF Kinds
<1>2. IsPlan(Generally(tier, "jpeg", "jpeg")) /\ IsPlan(Generally(tier, "chunked", "deflate"))
      /\ IsPlan(Generally(tier, "wav", "wav"))
  <2>1. NamedFilters["jpeg"] \in WholeFilters /\ NamedFilters["chunked"] \in WholeFilters
        /\ NamedFilters["wav"] \in WholeFilters
    BY DEF WholeFilters
  <2> QED BY <2>1, FilterIds, GenerallyIs DEF Kinds
<1>3. IsPlan(ThePlan(IF tier = "max" THEN "ppmd7" ELSE GeneralCodec(tier), NamedFilters.none, "text"))
  <2>1. (IF tier = "max" THEN "ppmd7" ELSE GeneralCodec(tier)) \in DOMAIN CodecIds
    BY CodecsAre
  <2>2. NamedFilters.none \in Nat /\ NamedFilters.none \notin WholeFilters /\ "text" \in Kinds
    BY FilterIds DEF Kinds
  <2> DEFINE codec == IF tier = "max" THEN "ppmd7" ELSE GeneralCodec(tier)
  <2> HIDE DEF codec
  <2> QED BY <2>1, <2>2, ThePlanIs DEF codec
<1>4. IsPlan(PlanGeneric(look, tier)) /\ IsPlan(PlanPrecompressed(look, tier))
  BY GenericIs
<1> DEFINE is(magic) == look.magic = magic => IsPlan(PlanOf(look, tier))
<1>5. is("jpeg") /\ is("deflate") /\ is("wav")
  BY <1>2 DEF PlanOf
<1>6. is("mp3") /\ is("exe")
  BY <1>1 DEF PlanOf
<1>7. is("packed") /\ is("none")
  BY <1>4 DEF PlanOf
<1>8. is("text")
  BY <1>3 DEF PlanOf
<1> QED BY <1>5, <1>6, <1>7, <1>8 DEF IsLook, Magics

\* A filter that takes a whole file is planned for a file that will be alone in its unit.
LEMMA FilePlanIs ==
    ASSUME NEW f, NEW tier
    PROVE  /\ IsPlan(FilePlan(f, tier)) /\ IsVerdict(Verdict(FilePlan(f, tier)))
           /\ FilePlan(f, tier).filter \in WholeFilters => Recompressible(f)
<1> DEFINE look == LookOf(f.cells)
           plan == Plan(f.cells, tier)
<1>1. IsLook(look)
  BY LooksAre
<1>2. IsPlan(Generally(tier, "none", "generic"))
  BY FilterIds, GenerallyIs DEF Kinds
<1>3. IsPlan(plan)
  BY <1>1, <1>2, PlanOfIs DEF Plan
<1>4. /\ IsPlan(PlanGeneric(look, tier)) /\ PlanGeneric(look, tier).filter \notin WholeFilters
      /\ IsPlan(PlanPrecompressed(look, tier)) /\ PlanPrecompressed(look, tier).filter \notin WholeFilters
  BY <1>1, GenericIs
<1> HIDE DEF look, plan
<1>5. FilePlan(f, tier) = IF ~Recompressible(f) /\ plan.kind \in {"deflate", "jpeg"}
                          THEN PlanPrecompressed(look, tier)
                          ELSE IF ~Recompressible(f) /\ plan.kind = "wav"
                          THEN PlanGeneric(look, tier) ELSE plan
  BY DEF FilePlan, look, plan
<1>6. IsPlan(FilePlan(f, tier))
  BY <1>3, <1>4, <1>5
<1>7. FilePlan(f, tier).filter \in WholeFilters => Recompressible(f)
  BY <1>3, <1>4, <1>5 DEF IsPlan
<1>8. IsVerdict(Verdict(FilePlan(f, tier)))
  BY <1>6 DEF IsPlan, IsVerdict, Verdict
<1> QED BY <1>6, <1>7, <1>8
----------------------------------------------------------------------------
(* What a flush adds to the log.                                             *)

\* The cuts that place itself makes, in the middle of a file.
Cuts == {"Hash", "Cap", "Overshoot"}

\* Packer q has closed the unit that p was filling, with entry t of the log.
Closes(p, q, t) ==
    /\ q.buf = <<>> /\ q.pending = <<>> /\ q.kind = NoKind /\ q.piece = Refused
    /\ q.votes = NoVotes /\ q.tier = p.tier /\ q.current = p.current
    /\ q.trace = Append(p.trace, t) /\ t.parts = p.pending
    /\ ~q.failed => ~p.failed /\ ~(Len(p.buf) > MaxStored)

\* It was there before, or it is new and the plan is the one that was voted for.
FoundIn(p, q, t) ==
    /\ q.units = p.units /\ t.unit \in 1..Len(p.units) /\ p.units[t.unit].cells = p.buf
NewIn(p, q, t) ==
    /\ t.unit = Len(p.units) + 1
    /\ q.units = Append(p.units, Unit(p, UnitPlan(p.votes, p.buf, p.tier)))

LEMMA ClosedLeaves ==
    ASSUME NEW p, IsPacker(p), NEW unit, NEW cut
    PROVE  LET q == Closed(p, unit, cut)
               t == [unit |-> unit, cut |-> cut, parts |-> p.pending]
           IN  Closes(p, q, t) /\ q.units = p.units
<1> DEFINE q == Closed(p, unit, cut)
           t == [unit |-> unit, cut |-> cut, parts |-> p.pending]
<1>1. t.parts = p.pending
  OBVIOUS
<1>2. q.trace = Append(p.trace, t)
  BY DEF Closed, IsPacker, PackerFields
<1> HIDE DEF t
<1>3. /\ q.buf = <<>> /\ q.pending = <<>> /\ q.kind = NoKind /\ q.piece = Refused
      /\ q.votes = NoVotes /\ q.tier = p.tier /\ q.current = p.current /\ q.units = p.units
  BY DEF Closed, IsPacker, PackerFields
<1>4. ~q.failed => ~p.failed /\ ~(Len(p.buf) > MaxStored)
  BY DEF Closed, IsPacker, PackerFields
<1> HIDE DEF q
<1> QED BY <1>1, <1>2, <1>3, <1>4 DEF Closes, q, t

LEMMA SubmittedLeaves ==
    ASSUME NEW p, IsPacker(p)
    PROVE  LET r == Submitted(p)
           IN  /\ IsPacker(r) /\ r.buf = p.buf /\ r.pending = p.pending /\ r.tier = p.tier
               /\ r.current = p.current /\ r.trace = p.trace /\ r.failed = p.failed
               /\ r.units = Append(p.units, Unit(p, UnitPlan(p.votes, p.buf, p.tier)))
<1> DEFINE r == Submitted(p)
           v == Unit(p, UnitPlan(p.votes, p.buf, p.tier))
<1> HIDE DEF v
<1>1. /\ r = [x \in PackerFields |-> r[x]] /\ r.files = p.files
      /\ r.buf = p.buf /\ r.pending = p.pending /\ r.tier = p.tier
      /\ r.current = p.current /\ r.trace = p.trace /\ r.failed = p.failed
      /\ r.units = Append(p.units, v)
  BY DEF Submitted, IsPacker, PackerFields, v
<1> HIDE DEF r
<1>2. IsPacker(r)
  BY <1>1 DEF IsPacker
<1> QED BY <1>1, <1>2 DEF r, v

\* A flush of something closes a unit that was there or one that is new.
LEMMA FlushLeaves ==
    ASSUME NEW p, IsPacker(p), IsSeq(p.units), p.buf # <<>>, NEW cut
    PROVE  LET q == Flush(p, cut)
           IN  \E t : /\ t.cut = cut /\ Closes(p, q, t)
                      /\ FoundIn(p, q, t) \/ (Known(p) = {} /\ NewIn(p, q, t))
<1>1. CASE Known(p) # {}
  <2> DEFINE u == CHOOSE u_1 \in Known(p) : \A v \in Known(p) : v <= u_1
  <2>1. Known(p) \subseteq 1..Len(p.units) /\ Len(p.units) \in Nat
    BY SeqFacts DEF Known
  <2>2. \E w \in Known(p) : \A v \in Known(p) : v <= w
    <3>1. Max(Known(p)) \in Known(p) /\ \A v \in Known(p) : Max(Known(p)) >= v
      BY <1>1, <2>1, MaxIsIn
    <3>2. \A v \in Known(p) : v <= Max(Known(p))
      <4> DEFINE m == Max(Known(p))
      <4> HIDE DEF m
      <4>1. m \in Nat /\ \A v \in Known(p) : v \in Nat /\ m >= v
        BY <2>1, <3>1 DEF m
      <4> QED BY <4>1 DEF m
    <3> QED BY <3>1, <3>2
  <2>3. u \in Known(p)
    BY <2>2
  <2>4. Flush(p, cut) = Closed(p, u, cut)
    BY <1>1 DEF Flush
  <2> HIDE DEF u
  <2>5. u \in 1..Len(p.units) /\ p.units[u].cells = p.buf
    BY <2>1, <2>3 DEF Known
  <2> DEFINE q == Closed(p, u, cut)
             t == [unit |-> u, cut |-> cut, parts |-> p.pending]
  <2>6. Closes(p, q, t) /\ q.units = p.units
    BY ClosedLeaves
  <2>7. t.cut = cut /\ t.unit = u
    OBVIOUS
  <2> HIDE DEF q, t
  <2>8. FoundIn(p, q, t)
    BY <2>5, <2>6, <2>7 DEF FoundIn
  <2> QED BY <2>4, <2>6, <2>7, <2>8 DEF q
<1>2. CASE Known(p) = {}
  <2> DEFINE r == Submitted(p)
             u == Len(p.units) + 1
             q == Closed(r, u, cut)
             t == [unit |-> u, cut |-> cut, parts |-> r.pending]
  <2>1. Flush(p, cut) = q
    BY <1>2 DEF Flush
  <2>2. /\ IsPacker(r) /\ r.buf = p.buf /\ r.pending = p.pending /\ r.tier = p.tier
        /\ r.current = p.current /\ r.trace = p.trace /\ r.failed = p.failed
        /\ r.units = Append(p.units, Unit(p, UnitPlan(p.votes, p.buf, p.tier)))
    BY SubmittedLeaves
  <2>3. t.cut = cut /\ t.unit = u
    OBVIOUS
  <2> HIDE DEF r, u
  <2>4. Closes(r, q, t) /\ q.units = r.units
    BY <2>2, ClosedLeaves
  <2> HIDE DEF q, t
  <2>5. Closes(p, q, t)
    BY <2>2, <2>4 DEF Closes
  <2>6. NewIn(p, q, t)
    BY <2>2, <2>3, <2>4 DEF NewIn, u
  <2> QED BY <1>2, <2>1, <2>3, <2>5, <2>6
<1> QED BY <1>1, <1>2

\* A flush of nothing drops what is pending.
LEMMA FlushOfNothing ==
    ASSUME NEW p, IsPacker(p), p.buf = <<>>, NEW cut
    PROVE  LET q == Flush(p, cut)
           IN  /\ q.pending = <<>> /\ q.buf = <<>> /\ q.kind = p.kind /\ q.piece = p.piece
               /\ q.votes = p.votes /\ q.tier = p.tier /\ q.current = p.current
               /\ q.trace = p.trace /\ q.units = p.units /\ q.failed = p.failed
               /\ q.files = p.files
  BY DEF Flush, IsPacker, PackerFields

\* The entries of the log, of which those with a unit above B that was not met before are
\* new: the units of the manifest come first.
NewAt(log, B, n) == log[n].unit > B /\ \A m \in 1..(n - 1) : log[m].unit # log[n].unit

IsLog(p, B) ==
    /\ IsPacker(p) /\ AreUnits(p.units) /\ IsSeq(p.trace) /\ p.buf \in Seq(Nat)
    /\ B \in Nat /\ B <= Len(p.units)
    /\ \A n \in 1..Len(p.trace) :
          /\ p.trace[n].unit \in 1..Len(p.units)
          /\ IsSeq(p.trace[n].parts) /\ Len(p.trace[n].parts) > 0
          /\ \A k \in 1..Len(p.trace[n].parts) : p.trace[n].parts[k].file \in 1..Len(p.files)
    /\ \A u \in (B + 1)..Len(p.units) : \E n \in 1..Len(p.trace) : p.trace[n].unit = u

\* Something is pending where something is in the buffer.
IsFilled(p) ==
    /\ Len(p.pending) > 0
    /\ \A k \in 1..Len(p.pending) : p.pending[k].file \in 1..Len(p.files)

Entered(p, q, B, t) ==
    /\ Closes(p, q, t)
    /\ Len(p.trace) \in Nat /\ IsSeq(q.trace) /\ Len(q.trace) = Len(p.trace) + 1
    /\ q.trace[Len(p.trace) + 1] = t
    /\ \A n \in 1..Len(p.trace) : q.trace[n] = p.trace[n]
    /\ AreUnits(q.units) /\ Grows(p.units, q.units)
    /\ t.unit \in 1..Len(q.units) /\ q.units[t.unit].cells = p.buf
    /\ \A u \in 1..Len(q.units) : u \in 1..Len(p.units) \/ u = t.unit
    /\ NewAt(q.trace, B, Len(p.trace) + 1)
          => q.units[t.unit] = Unit(p, UnitPlan(p.votes, p.buf, p.tier))

LEMMA FlushEnters ==
    ASSUME NEW p, NEW B, IsLog(p, B), p.buf # <<>>, NEW cut
    PROVE  \E t : t.cut = cut /\ Entered(p, Flush(p, cut), B, t)
<1> DEFINE q == Flush(p, cut)
           N == Len(p.trace)
           M == Len(p.units)
           v == Unit(p, UnitPlan(p.votes, p.buf, p.tier))
<1>1. IsPacker(p) /\ AreUnits(p.units) /\ IsSeq(p.units) /\ IsSeq(p.trace) /\ B \in Nat
      /\ N \in Nat /\ M \in Nat /\ p.buf \in Seq(Nat) /\ B <= M
  BY SeqFacts DEF IsLog, AreUnits
<1>2. PICK t : /\ t.cut = cut /\ Closes(p, q, t)
               /\ FoundIn(p, q, t) \/ (Known(p) = {} /\ NewIn(p, q, t))
  BY <1>1, FlushLeaves
<1> HIDE DEF q, N, M, v
<1>3. /\ IsSeq(q.trace) /\ Len(q.trace) = N + 1 /\ q.trace[N + 1] = t
      /\ \A n \in 1..N : q.trace[n] = p.trace[n]
  <2> DEFINE l == p.trace
  <2>1. IsSeq(l) /\ N = Len(l) /\ q.trace = Append(l, t)
    BY <1>1, <1>2 DEF Closes, N
  <2> HIDE DEF l
  <2>2. IsSeq(Append(l, t))
    BY <2>1, AppendAny
  <2> QED BY <2>1, <2>2, AppendAny DEF l
<1>4. CASE FoundIn(p, q, t)
  <2>1. /\ AreUnits(q.units) /\ Grows(p.units, q.units)
        /\ t.unit \in 1..Len(q.units) /\ q.units[t.unit].cells = p.buf /\ q.units = p.units
    BY <1>1, <1>4, GrowsNot DEF FoundIn
  <2>2. ~NewAt(q.trace, B, N + 1)
    <3> SUFFICES ASSUME NewAt(q.trace, B, N + 1) PROVE FALSE
      OBVIOUS
    <3>1. t.unit > B /\ \A m \in 1..N : q.trace[m].unit # t.unit
      <4>1. (N + 1) - 1 = N
        BY <1>1
      <4> QED BY <1>3, <4>1 DEF NewAt
    <3>2. t.unit \in (B + 1)..M
      BY <1>1, <1>4, <3>1 DEF FoundIn, M
    <3>3. PICK n \in 1..N : p.trace[n].unit = t.unit
      BY <3>2 DEF IsLog, N, M
    <3> QED BY <1>3, <3>1, <3>3
  <2>3. Entered(p, q, B, t)
    BY <1>1, <1>2, <1>3, <2>1, <2>2 DEF Entered, N
  <2> QED BY <1>2, <2>3 DEF q
<1>5. CASE NewIn(p, q, t)
  <2>1. v.cells = p.buf
    BY DEF Unit, v
  <2>2. /\ IsSeq(q.units) /\ Len(q.units) = M + 1 /\ q.units[M + 1] = v
        /\ \A u \in 1..M : q.units[u] = p.units[u]
    <3> DEFINE U == p.units
    <3>1. IsSeq(U) /\ M = Len(U) /\ q.units = Append(U, v)
      BY <1>1, <1>5 DEF NewIn, M, v
    <3> HIDE DEF U
    <3>2. IsSeq(Append(U, v))
      BY <3>1, AppendAny
    <3> QED BY <3>1, <3>2, AppendAny DEF U
  <2>3. t.unit = M + 1 /\ M + 1 \in 1..Len(q.units)
        /\ \A u \in 1..Len(q.units) : u \in 1..M \/ u = M + 1
    BY <1>1, <1>5, <2>2 DEF NewIn, M
  <2>4. AreUnits(q.units)
    BY <1>1, <2>1, <2>2, <2>3 DEF AreUnits, M
  <2>5. Grows(p.units, q.units)
    BY <1>1, <2>2 DEF Grows, M
  <2>6. Entered(p, q, B, t)
    BY <1>1, <1>2, <1>3, <2>1, <2>2, <2>3, <2>4, <2>5 DEF Entered, N, M, v
  <2> QED BY <1>2, <2>6 DEF q
<1> QED BY <1>2, <1>4, <1>5

LEMMA FlushIsLog ==
    ASSUME NEW p, NEW B, IsLog(p, B), p.buf # <<>>, IsFilled(p), NEW cut
    PROVE  IsLog(Flush(p, cut), B) /\ Len(Flush(p, cut).files) = Len(p.files)
<1> DEFINE q == Flush(p, cut)
           N == Len(p.trace)
           F == Len(p.files)
<1>1. PICK t : Entered(p, q, B, t)
  BY FlushEnters
<1>2. IsPacker(q) /\ Len(q.files) = F /\ IsSeq(p.pending)
  BY FlushKin DEF Kin, SameNames, IsLog, IsPacker
<1> HIDE DEF q, N, F
<1>3. q.buf \in Seq(Nat)
  <2>1. <<>> \in Seq(Nat)
    OBVIOUS
  <2> QED BY <1>1, <2>1 DEF Entered, Closes
<1>4. B \in Nat /\ B <= Len(q.units)
  <2>1. Len(p.units) \in Nat /\ Len(q.units) \in Nat /\ Len(p.units) <= Len(q.units)
    BY <1>1, SeqFacts DEF Entered, Grows, AreUnits, IsLog
  <2> QED BY <2>1 DEF IsLog
<1>5. \A n \in 1..Len(q.trace) : n \in 1..N \/ n = N + 1
  BY <1>1 DEF Entered, N
<1>6. ASSUME NEW n \in 1..Len(q.trace)
      PROVE  /\ q.trace[n].unit \in 1..Len(q.units)
             /\ IsSeq(q.trace[n].parts) /\ Len(q.trace[n].parts) > 0
             /\ \A k \in 1..Len(q.trace[n].parts) : q.trace[n].parts[k].file \in 1..Len(q.files)
  <2>1. CASE n \in 1..N
    <3>1. q.trace[n] = p.trace[n]
      BY <1>1, <2>1 DEF Entered, N
    <3>2. q.trace[n].unit \in 1..Len(q.units)
      <4>1. Len(p.units) \in Nat /\ Len(q.units) \in Nat /\ Len(p.units) <= Len(q.units)
        BY <1>1, SeqFacts DEF Entered, Grows, AreUnits, IsLog
      <4>2. p.trace[n].unit \in 1..Len(p.units)
        BY <2>1 DEF IsLog, N
      <4> QED BY <3>1, <4>1, <4>2
    <3> QED BY <1>2, <2>1, <3>1, <3>2 DEF IsLog, N, F
  <2>2. CASE n = N + 1
    <3>1. q.trace[n] = t
      BY <1>1, <2>2 DEF Entered, N
    <3> QED BY <1>1, <1>2, <3>1 DEF Entered, Closes, IsFilled, F
  <2> QED BY <1>5, <2>1, <2>2
<1>7. ASSUME NEW u \in (B + 1)..Len(q.units)
      PROVE  \E n \in 1..Len(q.trace) : q.trace[n].unit = u
  <2>1. u \in 1..Len(q.units)
    <3>1. Len(q.units) \in Nat /\ B \in Nat
      BY <1>1, SeqFacts DEF Entered, AreUnits, IsLog
    <3> QED BY <3>1
  <2>2. CASE u = t.unit
    <3>1. N + 1 \in 1..Len(q.trace) /\ q.trace[N + 1] = t
      BY <1>1 DEF Entered, N
    <3> QED BY <2>2, <3>1
  <2>3. CASE u \in 1..Len(p.units)
    <3>1. u \in (B + 1)..Len(p.units)
      <4>1. Len(q.units) \in Nat /\ B \in Nat /\ Len(p.units) \in Nat
        BY <1>1, SeqFacts DEF Entered, AreUnits, IsLog
      <4> QED BY <2>3, <4>1
    <3>2. PICK n \in 1..N : p.trace[n].unit = u
      BY <3>1 DEF IsLog, N
    <3>3. n \in 1..Len(q.trace) /\ q.trace[n] = p.trace[n]
      BY <1>1 DEF Entered, N
    <3> QED BY <3>2, <3>3
  <2> QED BY <1>1, <2>1, <2>2, <2>3 DEF Entered
<1>8. IsLog(q, B)
  BY <1>1, <1>2, <1>3, <1>4, <1>6, <1>7 DEF IsLog, Entered
<1> QED BY <1>2, <1>8 DEF q, F

----------------------------------------------------------------------------
(* What is true of the entries of a log, with the files W of the add.        *)

IsVoter(W, x) == Confident(W[x.file]) /\ x.len > 0
HasVoter(W, xs) == \E k \in 1..Len(xs) : IsVoter(W, xs[k])
PlanFor(W, tier, x) == FilePlan(W[x.file], tier)

ClassesOf(W, tier, xs) ==
    { PlanFor(W, tier, xs[k]).kind : k \in { j \in 1..Len(xs) : IsVoter(W, xs[j]) } }
OneClass(W, tier, xs) == \E c : ClassesOf(W, tier, xs) \subseteq {c}
TwoClasses(W, tier, xs) == \E c, d : ClassesOf(W, tier, xs) \subseteq {c, d}

Shares(W, tier, xs, v) ==
    [k \in 1..Len(xs) |->
        IF IsVoter(W, xs[k]) /\ Verdict(PlanFor(W, tier, xs[k])) = v THEN xs[k].len ELSE 0]
BehindIn(W, tier, xs, v) == Sum(Shares(W, tier, xs, v))
MostAreBehind(W, tier, xs, v) ==
    \A k \in 1..Len(xs) : IsVoter(W, xs[k]) =>
        BehindIn(W, tier, xs, v) >= BehindIn(W, tier, xs, Verdict(PlanFor(W, tier, xs[k])))

\* No file has become empty between the metadata and the read.
Full(W) == \A k \in 1..Len(W) : W[k].len > 0 => W[k].cells # <<>>

GroupedAt(W, tier, log, n) ==
    \/ OneClass(W, tier, log[n].parts)
    \/ n > 1 /\ log[n - 1].cut \in Cuts /\ TwoClasses(W, tier, log[n].parts)
IsGrouped(W, p) == \A n \in 1..Len(p.trace) : GroupedAt(W, p.tier, p.trace, n)

IsSmall(p) ==
    ~p.failed => \A n \in 1..Len(p.trace) : Len(p.units[p.trace[n].unit].cells) <= MaxStored

ElectedAt(W, tier, unit, t) ==
    unit.piece = Refused /\ HasVoter(W, t.parts) =>
        /\ unit.filter \in WholeFilters => Len(t.parts) = 1 /\ unit.cells = W[t.parts[1].file].cells
        /\ MostAreBehind(W, tier, t.parts, Verdict(unit))
AreElected(W, p, B) ==
    \A n \in 1..Len(p.trace) :
        NewAt(p.trace, B, n) => ElectedAt(W, p.tier, p.units[p.trace[n].unit], p.trace[n])

IsOdd(piece) == piece # Refused /\ piece.len % piece.frame # 0
OddAt(p, B, n) == NewAt(p.trace, B, n) /\ IsOdd(p.units[p.trace[n].unit].piece)
AreEnds(p, B) ==
    \A n \in 1..Len(p.trace) : OddAt(p, B, n) =>
        \A m \in (n + 1)..Len(p.trace) : p.trace[m].parts[1].file # p.trace[n].parts[1].file
EndsAreBefore(p, B, h) ==
    \A n \in 1..Len(p.trace) : OddAt(p, B, n) => p.trace[n].parts[1].file < h

Logged(W, B, p) ==
    /\ IsLog(p, B) /\ IsSmall(p) /\ AreElected(W, p, B) /\ AreEnds(p, B)
    /\ Full(W) => IsGrouped(W, p)

\* What of the unit that is being filled makes its entry a good one.
Midway(p) == Len(p.trace) > 0 /\ p.trace[Len(p.trace)].cut \in Cuts
MayClose(W, p) ==
    OneClass(W, p.tier, p.pending) \/ (Midway(p) /\ TwoClasses(W, p.tier, p.pending))
WillBeElected(W, p) ==
    p.piece = Refused /\ HasVoter(W, p.pending) =>
        LET v == UnitPlan(p.votes, p.buf, p.tier)
        IN  /\ IsVerdict(v)
            /\ v.filter \in WholeFilters =>
                  Len(p.pending) = 1 /\ p.buf = W[p.pending[1].file].cells
            /\ MostAreBehind(W, p.tier, p.pending, v)
IsNoEnd(p, B) ==
    \A n \in 1..Len(p.trace) : OddAt(p, B, n) => p.pending[1].file # p.trace[n].parts[1].file

\* An entry that was new stays new, and no other becomes so.
LEMMA NewAtBoth ==
    ASSUME NEW p, NEW q, NEW B, NEW t, Entered(p, q, B, t), NEW n \in 1..Len(p.trace)
    PROVE  /\ q.trace[n] = p.trace[n]
           /\ NewAt(q.trace, B, n) <=> NewAt(p.trace, B, n)
<1>1. \A m \in 1..(n - 1) : q.trace[m] = p.trace[m]
  BY DEF Entered
<1>2. q.trace[n] = p.trace[n]
  BY DEF Entered
<1> QED BY <1>1, <1>2 DEF NewAt

LEMMA UnitStays ==
    ASSUME NEW p, NEW q, NEW B, NEW t, IsLog(p, B), Entered(p, q, B, t), NEW n \in 1..Len(p.trace)
    PROVE  q.units[q.trace[n].unit] = p.units[p.trace[n].unit]
<1>1. p.trace[n].unit \in 1..Len(p.units)
  BY DEF IsLog
<1> QED BY <1>1 DEF Entered, Grows

LEMMA OddAtBoth ==
    ASSUME NEW p, NEW q, NEW B, NEW t, IsLog(p, B), Entered(p, q, B, t), NEW n \in 1..Len(p.trace)
    PROVE  OddAt(q, B, n) <=> OddAt(p, B, n)
  BY NewAtBoth, UnitStays DEF OddAt

LEMMA LastOrBefore ==
    ASSUME NEW p, NEW q, NEW B, NEW t, Entered(p, q, B, t)
    PROVE  /\ Len(p.trace) \in Nat
           /\ \A n \in 1..Len(q.trace) : n \in 1..Len(p.trace) \/ n = Len(p.trace) + 1
  BY DEF Entered

LEMMA FlushIsSmall ==
    ASSUME NEW p, NEW q, NEW B, NEW t, IsLog(p, B), Entered(p, q, B, t), IsSmall(p)
    PROVE  IsSmall(q)
<1> SUFFICES ASSUME ~q.failed, NEW n \in 1..Len(q.trace)
             PROVE  Len(q.units[q.trace[n].unit].cells) <= MaxStored
  BY DEF IsSmall
<1>1. ~p.failed /\ ~(Len(p.buf) > MaxStored)
  BY DEF Entered, Closes
<1>2. CASE n \in 1..Len(p.trace)
  BY <1>1, <1>2, UnitStays DEF IsSmall
<1>3. CASE n = Len(p.trace) + 1
  <2>1. q.units[q.trace[n].unit].cells = p.buf
    BY <1>3 DEF Entered
  <2>2. Len(p.buf) \in Nat /\ MaxStored \in Nat
    <3>1. p.buf \in Seq(Nat)
      BY DEF IsLog
    <3> QED BY <3>1, GeometryAssumption
  <2> QED BY <1>1, <2>1, <2>2
<1> QED BY <1>2, <1>3, LastOrBefore

LEMMA FlushIsGrouped ==
    ASSUME NEW W, NEW p, NEW q, NEW B, NEW t, Entered(p, q, B, t),
           IsGrouped(W, p), MayClose(W, p)
    PROVE  IsGrouped(W, q)
<1> SUFFICES ASSUME NEW n \in 1..Len(q.trace) PROVE GroupedAt(W, q.tier, q.trace, n)
  BY DEF IsGrouped
<1>1. q.tier = p.tier /\ Len(p.trace) \in Nat
  BY DEF Entered, Closes
<1>2. CASE n \in 1..Len(p.trace)
  <2>1. GroupedAt(W, p.tier, p.trace, n)
    BY <1>2 DEF IsGrouped
  <2>2. q.trace[n] = p.trace[n] /\ (n > 1 => q.trace[n - 1] = p.trace[n - 1])
    <3>1. n > 1 => n - 1 \in 1..Len(p.trace)
      BY <1>1, <1>2
    <3> QED BY <1>2, <3>1 DEF Entered
  <2> QED BY <1>1, <2>1, <2>2 DEF GroupedAt
<1>3. CASE n = Len(p.trace) + 1
  <2>1. q.trace[n].parts = p.pending
    BY <1>3 DEF Entered, Closes
  <2>2. Midway(p) => n > 1 /\ q.trace[n - 1].cut \in Cuts
    <3> SUFFICES ASSUME Midway(p) PROVE n > 1 /\ q.trace[n - 1].cut \in Cuts
      OBVIOUS
    <3>1. n > 1 /\ n - 1 = Len(p.trace) /\ n - 1 \in 1..Len(p.trace)
      BY <1>1, <1>3 DEF Midway
    <3>2. q.trace[n - 1] = p.trace[n - 1]
      BY <3>1 DEF Entered
    <3> QED BY <3>1, <3>2 DEF Midway
  <2> QED BY <1>1, <2>1, <2>2 DEF GroupedAt, MayClose
<1> QED BY <1>2, <1>3, LastOrBefore

LEMMA FlushIsElected ==
    ASSUME NEW W, NEW p, NEW q, NEW B, NEW t, IsLog(p, B), Entered(p, q, B, t),
           AreElected(W, p, B), WillBeElected(W, p)
    PROVE  AreElected(W, q, B)
<1> SUFFICES ASSUME NEW n \in 1..Len(q.trace), NewAt(q.trace, B, n)
             PROVE  ElectedAt(W, q.tier, q.units[q.trace[n].unit], q.trace[n])
  BY DEF AreElected
<1>1. q.tier = p.tier
  BY DEF Entered, Closes
<1>2. CASE n \in 1..Len(p.trace)
  <2>1. NewAt(p.trace, B, n) /\ q.trace[n] = p.trace[n]
        /\ q.units[q.trace[n].unit] = p.units[p.trace[n].unit]
    BY <1>2, NewAtBoth, UnitStays
  <2> QED BY <1>1, <1>2, <2>1 DEF AreElected
<1>3. CASE n = Len(p.trace) + 1
  <2> DEFINE v == UnitPlan(p.votes, p.buf, p.tier)
             unit == Unit(p, v)
  <2>1. q.trace[n] = t /\ t.parts = p.pending /\ q.units[t.unit] = unit
    BY <1>3 DEF Entered, Closes
  <2>2. /\ unit.piece = p.piece /\ unit.cells = p.buf /\ unit.codec = v.codec
        /\ p.piece = Refused => unit.filter = v.filter
    BY DEF Unit
  <2>3. IsVerdict(v) => [codec |-> v.codec, filter |-> v.filter] = v
    BY DEF IsVerdict
  <2> HIDE DEF v, unit
  <2>4. IsVerdict(v) /\ p.piece = Refused => Verdict(unit) = v
    BY <2>2, <2>3 DEF Verdict
  <2> QED BY <1>1, <2>1, <2>2, <2>4 DEF ElectedAt, WillBeElected, v
<1> QED BY <1>2, <1>3, LastOrBefore

LEMMA FlushEnds ==
    ASSUME NEW p, NEW q, NEW B, NEW t, IsLog(p, B), Entered(p, q, B, t),
           AreEnds(p, B), IsNoEnd(p, B), NEW h, EndsAreBefore(p, B, h),
           IsOdd(p.piece) => p.pending[1].file < h
    PROVE  AreEnds(q, B) /\ EndsAreBefore(q, B, h)
<1> DEFINE N == Len(p.trace)
<1>1. N \in Nat /\ Len(q.trace) = N + 1 /\ q.trace[N + 1] = t /\ t.parts = p.pending
  BY DEF Entered, Closes
<1>2. AreEnds(q, B)
  <2> SUFFICES ASSUME NEW n \in 1..Len(q.trace), OddAt(q, B, n), NEW m \in (n + 1)..Len(q.trace)
               PROVE  q.trace[m].parts[1].file # q.trace[n].parts[1].file
    BY DEF AreEnds
  <2>1. n \in 1..N
    BY <1>1
  <2>2. OddAt(p, B, n) /\ q.trace[n] = p.trace[n]
    BY <2>1, OddAtBoth, NewAtBoth
  <2>3. CASE m \in (n + 1)..N
    <3>1. m \in 1..N
      BY <1>1, <2>1, <2>3
    <3>2. q.trace[m] = p.trace[m]
      BY <3>1, NewAtBoth
    <3> QED BY <2>1, <2>2, <2>3, <3>2 DEF AreEnds
  <2>4. CASE m = N + 1
    BY <1>1, <2>1, <2>2, <2>4 DEF IsNoEnd
  <2> QED BY <1>1, <2>1, <2>3, <2>4
<1>3. EndsAreBefore(q, B, h)
  <2> SUFFICES ASSUME NEW n \in 1..Len(q.trace), OddAt(q, B, n)
               PROVE  q.trace[n].parts[1].file < h
    BY DEF EndsAreBefore
  <2>1. CASE n \in 1..N
    BY <2>1, OddAtBoth, NewAtBoth DEF EndsAreBefore
  <2>2. CASE n = N + 1
    <3> DEFINE unit == Unit(p, UnitPlan(p.votes, p.buf, p.tier))
    <3>1. q.units[t.unit] = unit
      BY <1>1, <2>2 DEF OddAt, Entered
    <3>2. unit.piece = p.piece
      BY DEF Unit
    <3> HIDE DEF unit
    <3>3. IsOdd(p.piece)
      BY <1>1, <2>2, <3>1, <3>2 DEF OddAt
    <3> QED BY <1>1, <2>2, <3>3
  <2> QED BY <2>1, <2>2, LastOrBefore
<1> QED BY <1>2, <1>3

\* A flush of something enters it in the log.
LEMMA FlushLogs ==
    ASSUME NEW W, NEW B, NEW p, Logged(W, B, p), p.buf # <<>>, IsFilled(p),
           WillBeElected(W, p), Full(W) => MayClose(W, p), IsNoEnd(p, B),
           NEW h, EndsAreBefore(p, B, h), IsOdd(p.piece) => p.pending[1].file < h, NEW cut
    PROVE  LET q == Flush(p, cut)
           IN  /\ Logged(W, B, q) /\ EndsAreBefore(q, B, h)
               /\ Len(q.files) = Len(p.files) /\ q.tier = p.tier /\ q.current = p.current
               /\ IsClean(q) /\ q.kind = NoKind /\ q.piece = Refused /\ q.votes = NoVotes
               /\ cut \in Cuts => Midway(q)
<1> DEFINE q == Flush(p, cut)
<1>1. IsLog(p, B)
  BY DEF Logged
<1>2. PICK t : t.cut = cut /\ Entered(p, q, B, t)
  BY <1>1, FlushEnters
<1>3. IsLog(q, B) /\ Len(q.files) = Len(p.files)
  BY <1>1, FlushIsLog
<1> HIDE DEF q
<1>4. IsSmall(q)
  BY <1>1, <1>2, FlushIsSmall DEF Logged
<1>5. AreElected(W, q, B)
  BY <1>1, <1>2, FlushIsElected DEF Logged
<1>6. Full(W) => IsGrouped(W, q)
  BY <1>2, FlushIsGrouped DEF Logged
<1>7. AreEnds(q, B) /\ EndsAreBefore(q, B, h)
  BY <1>1, <1>2, FlushEnds DEF Logged
<1>8. /\ q.buf = <<>> /\ q.pending = <<>> /\ q.kind = NoKind /\ q.piece = Refused
      /\ q.votes = NoVotes /\ q.tier = p.tier /\ q.current = p.current
  BY <1>2 DEF Entered, Closes
<1>9. cut \in Cuts => Midway(q)
  <2>1. Len(p.trace) \in Nat /\ Len(q.trace) = Len(p.trace) + 1 /\ q.trace[Len(p.trace) + 1] = t
    BY <1>2 DEF Entered
  <2> QED BY <1>2, <2>1 DEF Midway
<1> QED BY <1>3, <1>4, <1>5, <1>6, <1>7, <1>8, <1>9 DEF Logged, IsClean, q

----------------------------------------------------------------------------
(* The unit that is being filled.                                            *)

\* Every part is a part of a file that was listed.
ArePending(p) ==
    \A k \in 1..Len(p.pending) :
        p.pending[k].file \in 1..Len(p.files) /\ p.pending[k].len \in Nat

\* The votes are the bytes that are pending; a filter that takes a whole file has some
\* only where that file is all there is.
AreVotes(votes) ==
    /\ votes = [v \in DOMAIN votes |-> votes[v]]
    /\ \A v \in DOMAIN votes : IsVerdict(v) /\ votes[v] \in Nat
    /\ \E M \in Nat : \A v \in DOMAIN votes : votes[v] <= M
VotesFor(votes, v) == IF v \in DOMAIN votes THEN votes[v] ELSE 0
AreCounted(W, p) ==
    \A v : BehindIn(W, p.tier, p.pending, v) = VotesFor(p.votes, v)
AllHaveVoted(W, p) ==
    \A k \in 1..Len(p.pending) : IsVoter(W, p.pending[k]) =>
        VotesFor(p.votes, Verdict(PlanFor(W, p.tier, p.pending[k]))) > 0
IsAlone(W, p) == Len(p.pending) = 1 /\ p.buf = W[p.pending[1].file].cells
NoWhole(p) == \A v \in DOMAIN p.votes : p.votes[v] > 0 => v.filter \notin WholeFilters
HasVotes(W, p) ==
    /\ AreVotes(p.votes) /\ AreCounted(W, p) /\ AllHaveVoted(W, p)
    /\ NoWhole(p) \/ IsAlone(W, p)
    /\ p.buf = <<>> => \A v \in DOMAIN p.votes : p.votes[v] = 0

\* The class is that of what is pending, but for what a unit before it has left behind.
HasClass(W, p) ==
    LET classes == ClassesOf(W, p.tier, p.pending)
    IN  classes \subseteq {p.kind} \/ (Midway(p) /\ \E c : classes \subseteq {c, p.kind})

\* No part is of a .wav that has come to its end.
NoneHasEnded(p, B) ==
    \A n \in 1..Len(p.trace) : OddAt(p, B, n) =>
        \A k \in 1..Len(p.pending) : p.pending[k].file # p.trace[n].parts[1].file

IsOpen(W, B, p) ==
    /\ Logged(W, B, p) /\ p.piece = Refused
    /\ ArePending(p)
    /\ p.buf # <<>> => Len(p.pending) > 0
    /\ HasVotes(W, p) /\ NoneHasEnded(p, B)
    /\ Full(W) => HasClass(W, p)

\* An empty unit has no class: one that has been given its class gets some of its bytes.
IsSettled(p) == p.buf = <<>> => p.kind = NoKind

\* Between two files.
Rests(W, B, p) ==
    /\ IsOpen(W, B, p) /\ NoWhole(p) /\ EndsAreBefore(p, B, Len(p.files) + 1)
    /\ p.failed \/ (Full(W) => IsSettled(p))

LogInv == add.on => Rests(add.work, Len(units), add.p)

----------------------------------------------------------------------------
(* Sums, and the election.                                                   *)

LEMMA SumRuns ==
    ASSUME NEW lens, IsSeq(lens)
    PROVE  \E g : IsRun(g, "add", 0, 0, lens) /\ g[Len(lens)] = Sum(lens)
<1> DEFINE Step(f_1) == [s \in SUBSET DOMAIN lens |->
                      IF s = {} THEN 0 ELSE f_1[s \ {Max(s)}] + lens[Max(s)]]
           h == CHOOSE f_1 : f_1 = Step(f_1)
<1>1. PICK f_2 : IsFold(f_2, "add", 0, 0, lens)
  BY SeqFacts, FoldExists
<1>2. \A f_1 : IsFold(f_1, "add", 0, 0, lens) <=> f_1 = Step(f_1)
  BY DEF IsFold, OneStep
<1>3. Sum(lens) = h[DOMAIN lens]
  BY DEF Sum, FoldLeft, MapThenFoldSet
<1>4. h = Step(h)
  <2> HIDE DEF Step
  <2> QED BY <1>1, <1>2
<1>5. IsFold(h, "add", 0, 0, lens)
  BY <1>2, <1>4
<1> HIDE DEF h
<1> QED BY <1>3, <1>5, FoldRuns

LEMMA SumOfNothing == Sum(<<>>) = 0
<1>1. PICK g : IsRun(g, "add", 0, 0, <<>>) /\ g[Len(<<>>)] = Sum(<<>>)
  BY EmptyIsSeq, SumRuns
<1> QED BY <1>1, EmptyIsSeq DEF IsRun

\* A longer sequence adds its last element.
LEMMA SumOfMore ==
    ASSUME NEW s, NEW t, NEW x, OneMore(s, t, x)
    PROVE  Sum(t) = Sum(s) + x
<1>1. Begins(s, t) /\ IsSeq(s) /\ IsSeq(t) /\ Len(t) = Len(s) + 1 /\ t[Len(s) + 1] = x
  BY DEF OneMore, Begins
<1>2. PICK g : IsRun(g, "add", 0, 0, s) /\ g[Len(s)] = Sum(s)
  BY <1>1, SumRuns
<1>3. PICK h : IsRun(h, "add", 0, 0, t) /\ h[Len(t)] = Sum(t)
  BY <1>1, SumRuns
<1>4. Len(s) \in Nat /\ Len(s) \in 0..Len(s) /\ Len(s) \in 0..(Len(t) - 1)
  BY <1>1, SeqFacts
<1>5. g[Len(s)] = h[Len(s)]
  <2>1. \A k \in 0..Len(s) : g[k] = h[k]
    BY <1>1, <1>2, <1>3, SameRun
  <2> QED BY <1>4, <2>1
<1>6. h[Len(s) + 1] = OneStep("add", 0, h[Len(s)], t[Len(s) + 1])
  BY <1>3, <1>4 DEF IsRun
<1>7. h[Len(s) + 1] = h[Len(s)] + t[Len(s) + 1]
  BY <1>6 DEF OneStep
<1> QED BY <1>1, <1>2, <1>3, <1>5, <1>7

\* Of bounded votes some candidate has the most, then the lowest codec, then the lowest
\* filter, and no other has the same.
LEMMA SomeoneWins ==
    ASSUME NEW votes, AreVotes(votes), DOMAIN votes # {}
    PROVE  \E v \in DOMAIN votes : \A w \in DOMAIN votes \ {v} : Outvotes(votes, v, w)
<1> DEFINE D == DOMAIN votes
           id(v) == CodecIds[v.codec]
<1>1. PICK M \in Nat : \A v \in D : votes[v] <= M
  BY DEF AreVotes
<1>2. \A v \in D : votes[v] \in Nat /\ id(v) \in Nat /\ v.filter \in Nat /\ v.codec \in DOMAIN CodecIds
  BY CodecsAre DEF AreVotes, IsVerdict
<1>3. \A v, w \in D : v.codec = w.codec /\ v.filter = w.filter => v = w
  BY DEF AreVotes, IsVerdict
<1>4. \A v, w \in D : id(v) = id(w) => v.codec = w.codec
  BY <1>2, CodecsAre
<1> HIDE DEF D, id
<1>5. PICK a \in D : \A w \in D : votes[w] <= votes[a]
  <2> DEFINE S == { M - votes[v] : v \in D }
  <2>1. S \in SUBSET Nat /\ S # {}
    BY <1>1, <1>2 DEF D
  <2>2. PICK m \in S : \A y \in S : m <= y
    BY <2>1, LeastOf
  <2>3. PICK a_1 \in D : m = M - votes[a_1]
    BY <2>2
  <2>4. \A w \in D : M - votes[a_1] <= M - votes[w]
    BY <2>2, <2>3
  <2> QED BY <1>1, <1>2, <2>4
<1>6. PICK b \in D : votes[b] = votes[a] /\ \A w \in D : votes[w] = votes[a] => id(b) <= id(w)
  <2> DEFINE E == { v \in D : votes[v] = votes[a] }
             S == { id(v) : v \in E }
  <2>1. S \in SUBSET Nat /\ S # {}
    BY <1>2
  <2>2. PICK m \in S : \A y \in S : m <= y
    BY <2>1, LeastOf
  <2> QED BY <2>2
<1>7. PICK c \in D : /\ votes[c] = votes[a] /\ id(c) = id(b)
                     /\ \A w \in D : votes[w] = votes[a] /\ id(w) = id(b) => c.filter <= w.filter
  <2> DEFINE E == { v \in D : votes[v] = votes[a] /\ id(v) = id(b) }
             S == { v.filter : v \in E }
  <2>1. S \in SUBSET Nat /\ S # {}
    BY <1>2, <1>6
  <2>2. PICK m \in S : \A y \in S : m <= y
    BY <2>1, LeastOf
  <2> QED BY <2>2
<1>8. ASSUME NEW w \in D \ {c} PROVE Outvotes(votes, c, w)
  <2>1. votes[w] <= votes[a] /\ votes[w] \in Nat /\ votes[a] \in Nat
    BY <1>2, <1>5
  <2>2. CASE votes[w] < votes[a]
    BY <1>7, <2>1, <2>2 DEF Outvotes
  <2>3. CASE votes[w] = votes[a] /\ id(w) # id(b)
    BY <1>2, <1>6, <1>7, <2>3 DEF Outvotes, id
  <2>4. CASE votes[w] = votes[a] /\ id(w) = id(b)
    <3>1. c.filter <= w.filter /\ c.filter # w.filter /\ c.codec = w.codec
      BY <1>3, <1>4, <1>7, <2>4
    <3> QED BY <1>2, <1>7, <2>4, <3>1 DEF Outvotes
  <2> QED BY <2>1, <2>2, <2>3, <2>4
<1> QED BY <1>8 DEF D

\* The plan of a unit that was voted for is the plan with the most votes.
LEMMA TheMostVotesWin ==
    ASSUME NEW votes, AreVotes(votes), DOMAIN votes # {}, NEW buf, NEW tier
    PROVE  LET v == UnitPlan(votes, buf, tier)
           IN  v \in DOMAIN votes /\ \A w \in DOMAIN votes : votes[v] >= votes[w]
<1> DEFINE v == CHOOSE v_1 \in DOMAIN votes : \A w \in DOMAIN votes \ {v_1} : Outvotes(votes, v_1, w)
<1>1. v \in DOMAIN votes /\ \A w \in DOMAIN votes \ {v} : Outvotes(votes, v, w)
  BY SomeoneWins
<1>2. votes # NoVotes
  BY DEF NoVotes
<1>3. UnitPlan(votes, buf, tier) = v
  BY <1>2 DEF UnitPlan
<1> HIDE DEF v
<1>4. \A w \in DOMAIN votes : votes[w] \in Nat
  BY DEF AreVotes
<1>5. \A w \in DOMAIN votes : votes[v] >= votes[w]
  BY <1>1, <1>4 DEF Outvotes
<1> QED BY <1>1, <1>3, <1>5

LEMMA TheVotedIsElected ==
    ASSUME NEW W, NEW p, HasVotes(W, p)
    PROVE  WillBeElected(W, p)
<1> DEFINE v == UnitPlan(p.votes, p.buf, p.tier)
<1> SUFFICES ASSUME p.piece = Refused, NEW k \in 1..Len(p.pending), IsVoter(W, p.pending[k])
             PROVE  /\ IsVerdict(v)
                    /\ v.filter \in WholeFilters =>
                          Len(p.pending) = 1 /\ p.buf = W[p.pending[1].file].cells
                    /\ MostAreBehind(W, p.tier, p.pending, v)
  BY DEF WillBeElected, HasVoter
<1> DEFINE w == Verdict(PlanFor(W, p.tier, p.pending[k]))
<1>1. VotesFor(p.votes, w) > 0
  BY DEF HasVotes, AllHaveVoted
<1> HIDE DEF w
<1>2. AreVotes(p.votes) /\ w \in DOMAIN p.votes /\ p.votes[w] > 0
  BY <1>1 DEF HasVotes, VotesFor
<1>3. v \in DOMAIN p.votes /\ \A x \in DOMAIN p.votes : p.votes[v] >= p.votes[x]
  <2> HIDE DEF v
  <2> QED BY <1>2, TheMostVotesWin DEF v
<1> HIDE DEF v
<1>4. IsVerdict(v) /\ \A x \in DOMAIN p.votes : p.votes[x] \in Nat
  BY <1>2, <1>3 DEF AreVotes
<1>5. p.votes[v] > 0
  BY <1>2, <1>3, <1>4
<1>6. v.filter \in WholeFilters => Len(p.pending) = 1 /\ p.buf = W[p.pending[1].file].cells
  BY <1>3, <1>5 DEF HasVotes, NoWhole, IsAlone
<1>7. \A x : VotesFor(p.votes, v) >= VotesFor(p.votes, x)
  BY <1>3, <1>4 DEF VotesFor
<1>8. MostAreBehind(W, p.tier, p.pending, v)
  BY <1>7 DEF MostAreBehind, HasVotes, AreCounted
<1> QED BY <1>4, <1>6, <1>8

----------------------------------------------------------------------------
(* One part more.                                                            *)

LEMMA MoreIsSeq ==
    ASSUME NEW xs, NEW ys, NEW x, OneMore(xs, ys, x)
    PROVE  /\ IsSeq(xs) /\ IsSeq(ys) /\ Len(xs) \in Nat /\ Len(ys) = Len(xs) + 1
           /\ ys[Len(xs) + 1] = x
           /\ \A k \in 1..Len(xs) : ys[k] = xs[k]
           /\ \A k \in 1..Len(ys) : k \in 1..Len(xs) \/ k = Len(xs) + 1
<1>1. /\ IsSeq(xs) /\ IsSeq(ys) /\ Len(ys) = Len(xs) + 1 /\ ys[Len(xs) + 1] = x
      /\ \A k \in 1..Len(xs) : xs[k] = ys[k]
  BY DEF OneMore, Begins
<1>2. Len(xs) \in Nat
  BY <1>1, SeqFacts
<1> QED BY <1>1, <1>2

LEMMA AppendedIsMore ==
    ASSUME NEW xs, IsSeq(xs), NEW x
    PROVE  OneMore(xs, Append(xs, x), x)
<1>1. /\ IsSeq(Append(xs, x)) /\ Len(Append(xs, x)) = Len(xs) + 1
      /\ \A k \in 1..Len(xs) : Append(xs, x)[k] = xs[k]
      /\ Append(xs, x)[Len(xs) + 1] = x
  BY AppendAny
<1>2. Len(xs) \in Nat
  BY SeqFacts
<1> QED BY <1>1, <1>2 DEF OneMore, Begins

LEMMA OneShareMore ==
    ASSUME NEW W, NEW tier, NEW xs, NEW ys, NEW x, OneMore(xs, ys, x), NEW v
    PROVE  BehindIn(W, tier, ys, v) =
              BehindIn(W, tier, xs, v)
              + (IF IsVoter(W, x) /\ Verdict(PlanFor(W, tier, x)) = v THEN x.len ELSE 0)
<1> DEFINE share(y) == IF IsVoter(W, y) /\ Verdict(PlanFor(W, tier, y)) = v THEN y.len ELSE 0
           s == [k \in 1..Len(xs) |-> share(xs[k])]
           t == [k \in 1..Len(ys) |-> share(ys[k])]
<1>1. /\ Len(xs) \in Nat /\ Len(ys) \in Nat /\ Len(ys) = Len(xs) + 1 /\ ys[Len(xs) + 1] = x
      /\ \A k \in 1..Len(xs) : ys[k] = xs[k]
  BY MoreIsSeq
<1>2. s = Shares(W, tier, xs, v) /\ t = Shares(W, tier, ys, v)
  BY DEF Shares
<1> HIDE DEF share
<1>3. s = [k \in 1..Len(xs) |-> s[k]] /\ t = [k \in 1..Len(ys) |-> t[k]]
  OBVIOUS
<1>4. (\A k \in 1..Len(xs) : s[k] = t[k]) /\ t[Len(xs) + 1] = share(x)
  <2>1. Len(xs) + 1 \in 1..Len(ys) /\ \A k \in 1..Len(xs) : k \in 1..Len(ys)
    BY <1>1
  <2> QED BY <1>1, <2>1
<1> HIDE DEF s, t
<1>5. IsSeq(s) /\ Len(s) = Len(xs) /\ IsSeq(t) /\ Len(t) = Len(xs) + 1
  BY <1>1, <1>3, IsSeqByLength
<1>6. OneMore(s, t, share(x))
  BY <1>1, <1>4, <1>5 DEF OneMore, Begins
<1>7. Sum(t) = Sum(s) + share(x)
  BY <1>6, SumOfMore
<1> QED BY <1>2, <1>7 DEF BehindIn, share

LEMMA OneClassMore ==
    ASSUME NEW W, NEW tier, NEW xs, NEW ys, NEW x, OneMore(xs, ys, x), NEW S,
           ClassesOf(W, tier, xs) \subseteq S, IsVoter(W, x) => PlanFor(W, tier, x).kind \in S
    PROVE  ClassesOf(W, tier, ys) \subseteq S
<1> SUFFICES ASSUME NEW k \in 1..Len(ys), IsVoter(W, ys[k])
             PROVE  PlanFor(W, tier, ys[k]).kind \in S
  BY DEF ClassesOf
<1>1. CASE k \in 1..Len(xs)
  <2>1. ys[k] = xs[k]
    BY <1>1, MoreIsSeq
  <2> QED BY <1>1, <2>1 DEF ClassesOf
<1>2. CASE k = Len(xs) + 1
  BY <1>2, MoreIsSeq
<1> QED BY <1>1, <1>2, MoreIsSeq

LEMMA NothingPends ==
    ASSUME NEW W, NEW tier
    PROVE  ClassesOf(W, tier, <<>>) = {} /\ \A v : BehindIn(W, tier, <<>>, v) = 0
<1>1. Len(<<>>) = 0 /\ 1..0 = {}
  BY EmptyIsSeq
<1>2. ASSUME NEW v PROVE BehindIn(W, tier, <<>>, v) = 0
  <2> DEFINE s == Shares(W, tier, <<>>, v)
  <2>1. s = [k \in 1..0 |-> s[k]]
    BY <1>1 DEF Shares
  <2> HIDE DEF s
  <2>2. IsSeq(s) /\ Len(s) = 0
    BY <2>1, IsSeqByLength
  <2>3. s = <<>>
    BY <2>2, SeqFacts
  <2> QED BY <2>3, SumOfNothing DEF BehindIn, s
<1> QED BY <1>1, <1>2 DEF ClassesOf

LEMMA CountedVotes ==
    ASSUME NEW votes, AreVotes(votes), NEW verdict, verdict = Refused \/ IsVerdict(verdict),
           NEW n \in Nat
    PROVE  LET w == Counted(votes, verdict, n)
           IN  /\ AreVotes(w)
               /\ \A v : VotesFor(w, v) =
                     VotesFor(votes, v) + (IF verdict # Refused /\ v = verdict THEN n ELSE 0)
<1>1. \A v : VotesFor(votes, v) \in Nat
  BY DEF VotesFor, AreVotes
<1>2. CASE verdict = Refused
  BY <1>1, <1>2 DEF Counted
<1>3. CASE verdict # Refused
  <2> DEFINE w == [v \in DOMAIN votes \cup {verdict} |->
                      (IF v \in DOMAIN votes THEN votes[v] ELSE 0) + (IF v = verdict THEN n ELSE 0)]
  <2>1. w = Counted(votes, verdict, n)
    BY <1>3 DEF Counted
  <2>2. PICK M \in Nat : \A v \in DOMAIN votes : votes[v] <= M
    BY DEF AreVotes
  <2>3. \A v \in DOMAIN votes : IsVerdict(v) /\ votes[v] \in Nat
    BY DEF AreVotes
  <2>4. \A v \in DOMAIN w : IsVerdict(v) /\ w[v] \in Nat /\ w[v] <= M + n
    BY <1>3, <2>2, <2>3
  <2>5. M + n \in Nat /\ w = [v \in DOMAIN w |-> w[v]]
    OBVIOUS
  <2>6. ASSUME NEW v
        PROVE  VotesFor(w, v) = VotesFor(votes, v) + (IF v = verdict THEN n ELSE 0)
    <3>1. CASE v \in DOMAIN votes \/ v = verdict
      BY <3>1 DEF VotesFor
    <3>2. CASE v \notin DOMAIN votes /\ v # verdict
      BY <3>2 DEF VotesFor
    <3> QED BY <3>1, <3>2
  <2> HIDE DEF w
  <2>7. AreVotes(w)
    BY <2>4, <2>5 DEF AreVotes
  <2> QED BY <1>3, <2>1, <2>6, <2>7
<1> QED BY <1>2, <1>3

\* The verdict that the parts of the current file vote for.
CurrentIs(W, p) ==
    LET f == W[Len(p.files)]
    IN  p.current = IF Confident(f) THEN Verdict(FilePlan(f, p.tier)) ELSE Refused

Appends(p, q, n, item) ==
    LET x == [file |-> n, off |-> Len(p.buf), len |-> Len(item)]
    IN  /\ q.tier = p.tier /\ q.units = p.units /\ q.files = p.files /\ q.trace = p.trace
        /\ q.kind = p.kind /\ q.current = p.current /\ q.piece = p.piece /\ q.failed = p.failed
        /\ q.buf = p.buf \o item /\ q.votes = Counted(p.votes, p.current, Len(item))
        /\ IsPacker(q) /\ OneMore(p.pending, q.pending, x)

LEMMA AppendedLeaves ==
    ASSUME NEW p, IsPacker(p), NEW n, NEW item
    PROVE  Appends(p, Appended(p, n, item), n, item)
<1> DEFINE q == Appended(p, n, item)
           x == [file |-> n, off |-> Len(p.buf), len |-> Len(item)]
           xs == p.pending
<1>1. IsPacker(q)
  BY AppendedKin DEF Kin
<1>2. /\ q.tier = p.tier /\ q.units = p.units /\ q.files = p.files /\ q.trace = p.trace
      /\ q.kind = p.kind /\ q.current = p.current /\ q.piece = p.piece /\ q.failed = p.failed
      /\ q.buf = p.buf \o item /\ q.votes = Counted(p.votes, p.current, Len(item))
      /\ q.pending = Append(xs, x)
  BY DEF Appended, IsPacker, PackerFields
<1>3. IsSeq(xs)
  BY DEF IsPacker
<1> HIDE DEF q, x, xs
<1>4. OneMore(xs, Append(xs, x), x)
  BY <1>3, AppendedIsMore
<1> QED BY <1>1, <1>2, <1>4 DEF Appends, q, x, xs

\* A part more of a file that shares its unit, or all of one that does not.
MayGrow(W, p, item) ==
    LET f == W[Len(p.files)]
    IN  NoWhole(p) /\ (~Recompressible(f) \/ (IsClean(p) /\ item = f.cells))

LEMMA AppendedVotes ==
    ASSUME NEW W, NEW p, IsPacker(p), p.buf \in Seq(Nat), HasVotes(W, p), CurrentIs(W, p),
           NEW n, n = Len(p.files), NEW item \in Seq(Nat), MayGrow(W, p, item)
    PROVE  LET q == Appended(p, n, item)
           IN  HasVotes(W, q) /\ (~Recompressible(W[n]) => NoWhole(q))
<1> DEFINE q == Appended(p, n, item)
           x == [file |-> n, off |-> Len(p.buf), len |-> Len(item)]
           f == W[n]
           d == Verdict(FilePlan(f, p.tier))
           L == Len(item)
           xs == p.pending
           ys == q.pending
           K == Len(xs)
<1>1. /\ q.tier = p.tier /\ q.buf = p.buf \o item /\ q.votes = Counted(p.votes, p.current, L)
      /\ OneMore(xs, ys, x)
  <2>1. Appends(p, q, n, item)
    BY AppendedLeaves
  <2> HIDE DEF q
  <2> QED BY <2>1 DEF Appends
<1>2. /\ IsSeq(ys) /\ Len(ys) = K + 1 /\ ys[K + 1] = x
      /\ \A k \in 1..K : ys[k] = xs[k]
      /\ \A k \in 1..Len(ys) : k \in 1..K \/ k = K + 1
  <2> HIDE DEF xs, ys, x
  <2> QED BY <1>1, MoreIsSeq
<1>3. x.file = n /\ x.len = L /\ L \in Nat /\ IsSeq(xs) /\ K \in Nat
  BY SeqFacts DEF IsPacker
<1>4. /\ IsVerdict(d) /\ d # Refused
      /\ d.filter \in WholeFilters => Recompressible(f)
  <2>1. IsVerdict(d) /\ (FilePlan(f, p.tier).filter \in WholeFilters => Recompressible(f))
    BY FilePlanIs
  <2>2. d.filter = FilePlan(f, p.tier).filter
    BY DEF Verdict
  <2> QED BY <2>1, <2>2, RefusedAssumption DEF IsVerdict
<1>5. PlanFor(W, p.tier, x) = FilePlan(f, p.tier) /\ (IsVoter(W, x) <=> Confident(f) /\ L > 0)
  BY <1>3 DEF PlanFor, IsVoter
<1>6. p.current = IF Confident(f) THEN d ELSE Refused
  BY DEF CurrentIs
<1> HIDE DEF q, x, f, d, K, L, xs, ys
<1>7. /\ AreVotes(q.votes)
      /\ \A v : VotesFor(q.votes, v) =
                  VotesFor(p.votes, v) + (IF p.current # Refused /\ v = p.current THEN L ELSE 0)
  <2>1. AreVotes(p.votes) /\ (p.current = Refused \/ IsVerdict(p.current))
    BY <1>4, <1>6 DEF HasVotes
  <2>2. /\ AreVotes(Counted(p.votes, p.current, L))
        /\ \A v : VotesFor(Counted(p.votes, p.current, L), v) =
                    VotesFor(p.votes, v) + (IF p.current # Refused /\ v = p.current THEN L ELSE 0)
    BY <1>3, <2>1, CountedVotes, ZenonT(60)
  <2> QED BY <1>1, <2>2
<1>8. \A v : VotesFor(q.votes, v) =
                VotesFor(p.votes, v) + (IF Confident(f) /\ v = d THEN L ELSE 0)
  BY <1>4, <1>6, <1>7
<1>9. \A v : VotesFor(p.votes, v) \in Nat
  BY DEF HasVotes, AreVotes, VotesFor
<1>10. AreCounted(W, q)
  <2> SUFFICES ASSUME NEW v PROVE BehindIn(W, q.tier, q.pending, v) = VotesFor(q.votes, v)
    BY DEF AreCounted
  <2>1. BehindIn(W, p.tier, ys, v) =
          BehindIn(W, p.tier, xs, v)
          + (IF IsVoter(W, x) /\ Verdict(PlanFor(W, p.tier, x)) = v THEN x.len ELSE 0)
    BY <1>1, OneShareMore
  <2>2. BehindIn(W, p.tier, xs, v) = VotesFor(p.votes, v)
    BY DEF HasVotes, AreCounted, xs
  <2>3. (IF IsVoter(W, x) /\ Verdict(PlanFor(W, p.tier, x)) = v THEN x.len ELSE 0)
          = (IF Confident(f) /\ v = d THEN L ELSE 0)
    BY <1>3, <1>5 DEF d
  <2> QED BY <1>1, <1>8, <2>1, <2>2, <2>3 DEF ys
<1>11. AllHaveVoted(W, q)
  <2> SUFFICES ASSUME NEW k \in 1..Len(ys), IsVoter(W, ys[k])
               PROVE  VotesFor(q.votes, Verdict(PlanFor(W, p.tier, ys[k]))) > 0
    BY <1>1 DEF AllHaveVoted, ys
  <2>1. CASE k \in 1..K
    <3>1. VotesFor(p.votes, Verdict(PlanFor(W, p.tier, ys[k]))) > 0
      BY <1>2, <2>1 DEF HasVotes, AllHaveVoted, xs, K
    <3> QED BY <1>3, <1>8, <1>9, <3>1
  <2>2. CASE k = K + 1
    <3>1. IsVoter(W, x) /\ Verdict(PlanFor(W, p.tier, ys[k])) = d
      BY <1>2, <1>5, <2>2 DEF d
    <3> QED BY <1>3, <1>5, <1>8, <1>9, <3>1
  <2> QED BY <1>2, <2>1, <2>2
<1>12. ~Recompressible(f) => NoWhole(q)
  <2> SUFFICES ASSUME ~Recompressible(f), NEW v \in DOMAIN q.votes, q.votes[v] > 0
               PROVE  v.filter \notin WholeFilters
    BY DEF NoWhole
  <2>1. VotesFor(q.votes, v) > 0
    BY DEF VotesFor
  <2>2. VotesFor(p.votes, v) > 0 \/ v = d
    BY <1>8, <1>9, <2>1
  <2>3. VotesFor(p.votes, v) > 0 => v \in DOMAIN p.votes /\ p.votes[v] > 0
    BY DEF VotesFor
  <2> QED BY <1>4, <2>2, <2>3 DEF MayGrow, NoWhole
<1>13. NoWhole(q) \/ IsAlone(W, q)
  <2>1. CASE ~Recompressible(f)
    BY <1>12, <2>1
  <2>2. CASE IsClean(p) /\ item = f.cells
    <3>1. K = 0 /\ p.buf = <<>>
      BY <2>2, EmptyIsSeq DEF IsClean, K, xs
    <3>2. q.buf = item
      BY <1>1, <3>1, ConcatEmptySeq
    <3>3. Len(ys) = 1 /\ ys[1].file = n
      BY <1>2, <1>3, <3>1
    <3> QED BY <2>2, <3>2, <3>3 DEF IsAlone, ys, f
  <2> QED BY <2>1, <2>2 DEF MayGrow, f
<1>14. q.buf = <<>> => \A v \in DOMAIN q.votes : q.votes[v] = 0
  <2> SUFFICES ASSUME q.buf = <<>>, NEW v \in DOMAIN q.votes PROVE q.votes[v] = 0
    OBVIOUS
  <2>1. p.buf = <<>> /\ L = 0
    <3> DEFINE b == p.buf
    <3>1. b \in Seq(Nat) /\ item \in Seq(Nat) /\ Len(b \o item) = 0
      BY <1>1, EmptyIsSeq
    <3> HIDE DEF b
    <3>2. Len(b) \in Nat /\ Len(item) \in Nat /\ Len(b) + Len(item) = 0
      BY <3>1, ConcatProperties
    <3>3. Len(b) = 0 /\ Len(item) = 0
      BY <3>2
    <3> QED BY <3>1, <3>3 DEF b, L
  <2>2. VotesFor(p.votes, v) = 0
    BY <2>1 DEF HasVotes, VotesFor
  <2>3. VotesFor(q.votes, v) = 0
    BY <1>8, <2>1, <2>2
  <2> QED BY <2>3 DEF VotesFor
<1> QED BY <1>7, <1>10, <1>11, <1>12, <1>13, <1>14 DEF HasVotes, q, f

----------------------------------------------------------------------------
(* The operations of the packer, on a unit that is being filled.             *)

LEMMA OpenIsPacker ==
    ASSUME NEW W, NEW B, NEW p, IsOpen(W, B, p)
    PROVE  /\ IsPacker(p) /\ p.buf \in Seq(Nat) /\ IsLog(p, B) /\ Logged(W, B, p)
           /\ Len(p.files) \in Nat /\ IsSeq(p.pending) /\ Len(p.pending) \in Nat
  BY SeqFacts DEF IsOpen, Logged, IsLog, IsPacker, AreEntries

\* What leaves the log and the unit alone.
SameUnit(p, q) ==
    /\ IsPacker(q) /\ Len(q.files) >= Len(p.files) /\ Len(q.files) \in Nat
    /\ q.trace = p.trace /\ q.units = p.units /\ q.tier = p.tier /\ q.buf = p.buf
    /\ q.pending = p.pending /\ q.votes = p.votes /\ q.piece = p.piece
    /\ ~q.failed => ~p.failed

SameLog(p, q) ==
    /\ IsPacker(q) /\ Len(q.files) >= Len(p.files) /\ Len(q.files) \in Nat
    /\ q.trace = p.trace /\ q.units = p.units /\ q.tier = p.tier /\ q.buf \in Seq(Nat)
    /\ ~q.failed => ~p.failed

LEMMA SameLogIsLogged ==
    ASSUME NEW W, NEW B, NEW p, Logged(W, B, p), NEW q, SameLog(p, q)
    PROVE  /\ Logged(W, B, q)
           /\ \A h : EndsAreBefore(p, B, h) => EndsAreBefore(q, B, h)
           /\ Midway(p) => Midway(q)
           /\ \A n : OddAt(q, B, n) <=> OddAt(p, B, n)
<1>1. IsLog(q, B)
  <2>1. IsLog(p, B) /\ Len(p.files) \in Nat /\ Len(q.files) \in Nat /\ Len(q.files) >= Len(p.files)
    BY SeqFacts DEF Logged, IsLog, IsPacker, AreEntries, SameLog
  <2>2. \A k \in 1..Len(p.files) : k \in 1..Len(q.files)
    BY <2>1
  <2> QED BY <2>1, <2>2 DEF IsLog, SameLog
<1>2. IsSmall(q)
  BY DEF Logged, IsSmall, SameLog
<1>3. AreElected(W, q, B)
  BY DEF Logged, AreElected, SameLog
<1>4. \A n : OddAt(q, B, n) <=> OddAt(p, B, n)
  BY DEF OddAt, SameLog
<1>5. AreEnds(q, B)
  BY <1>4 DEF Logged, AreEnds, SameLog
<1>6. Full(W) => IsGrouped(W, q)
  BY DEF Logged, IsGrouped, SameLog
<1>7. \A h : EndsAreBefore(p, B, h) => EndsAreBefore(q, B, h)
  BY <1>4 DEF EndsAreBefore, SameLog
<1>8. Midway(p) => Midway(q)
  BY DEF Midway, SameLog
<1> QED BY <1>1, <1>2, <1>3, <1>4, <1>5, <1>6, <1>7, <1>8 DEF Logged

LEMMA SameUnitIsOpen ==
    ASSUME NEW W, NEW B, NEW p, IsOpen(W, B, p), NEW q, SameUnit(p, q),
           Full(W) => HasClass(W, q)
    PROVE  /\ IsOpen(W, B, q)
           /\ \A h : EndsAreBefore(p, B, h) => EndsAreBefore(q, B, h)
           /\ NoWhole(p) => NoWhole(q)
           /\ IsClean(p) => IsClean(q)
<1>1. SameLog(p, q) /\ Logged(W, B, p)
  BY OpenIsPacker DEF SameUnit, SameLog
<1>2. /\ Logged(W, B, q)
      /\ \A h : EndsAreBefore(p, B, h) => EndsAreBefore(q, B, h)
      /\ \A n : OddAt(q, B, n) <=> OddAt(p, B, n)
  BY <1>1, SameLogIsLogged
<1>3. ArePending(q) /\ (q.buf # <<>> => Len(q.pending) > 0) /\ q.piece = Refused
  <2>1. Len(p.files) \in Nat /\ Len(q.files) \in Nat /\ Len(q.files) >= Len(p.files)
    BY OpenIsPacker DEF SameUnit
  <2>2. \A k \in 1..Len(p.files) : k \in 1..Len(q.files)
    BY <2>1
  <2> QED BY <2>2 DEF IsOpen, ArePending, SameUnit
<1>4. NoWhole(p) => NoWhole(q)
  BY DEF NoWhole, SameUnit
<1>5. HasVotes(W, q)
  BY <1>4 DEF IsOpen, HasVotes, AreCounted, AllHaveVoted, IsAlone, SameUnit
<1>6. NoneHasEnded(q, B)
  BY <1>2 DEF IsOpen, NoneHasEnded, SameUnit
<1>7. IsClean(p) => IsClean(q)
  BY DEF IsClean, SameUnit
<1> QED BY <1>2, <1>3, <1>4, <1>5, <1>6, <1>7 DEF IsOpen

LEMMA ClassMayClose ==
    ASSUME NEW W, NEW p, HasClass(W, p)
    PROVE  MayClose(W, p)
  BY DEF HasClass, MayClose, OneClass, TwoClasses

LEMMA NothingIsOpen ==
    ASSUME NEW W, NEW B, NEW q, Logged(W, B, q), IsClean(q), q.piece = Refused,
           AreVotes(q.votes), \A v \in DOMAIN q.votes : q.votes[v] = 0
    PROVE  IsOpen(W, B, q) /\ NoWhole(q)
<1>1. q.buf = <<>> /\ q.pending = <<>> /\ Len(q.pending) = 0 /\ 1..0 = {}
  BY EmptyIsSeq DEF IsClean
<1>2. \A v : VotesFor(q.votes, v) = 0
  BY DEF VotesFor
<1>3. ClassesOf(W, q.tier, q.pending) = {} /\ \A v : BehindIn(W, q.tier, q.pending, v) = 0
  BY <1>1, NothingPends
<1>4. AreCounted(W, q) /\ AllHaveVoted(W, q)
  BY <1>1, <1>2, <1>3 DEF AreCounted, AllHaveVoted
<1>5. NoWhole(q)
  BY DEF NoWhole
<1>6. HasVotes(W, q)
  BY <1>4, <1>5 DEF HasVotes
<1>7. ArePending(q) /\ NoneHasEnded(q, B)
  BY <1>1 DEF ArePending, NoneHasEnded
<1>8. HasClass(W, q)
  BY <1>3 DEF HasClass
<1> QED BY <1>1, <1>5, <1>6, <1>7, <1>8 DEF IsOpen

LEMMA FlushIsOpen ==
    ASSUME NEW W, NEW B, NEW p, IsOpen(W, B, p), NEW h, EndsAreBefore(p, B, h), NEW cut
    PROVE  LET q == Flush(p, cut)
           IN  /\ IsOpen(W, B, q) /\ EndsAreBefore(q, B, h) /\ IsClean(q) /\ NoWhole(q)
               /\ Len(q.files) = Len(p.files) /\ q.tier = p.tier /\ q.current = p.current
               /\ p.buf # <<>> => q.kind = NoKind /\ (cut \in Cuts => Midway(q))
               /\ p.buf = <<>> => q.kind = p.kind /\ q.failed = p.failed /\ q.trace = p.trace
<1> DEFINE q == Flush(p, cut)
<1>1. IsPacker(p) /\ Logged(W, B, p) /\ IsLog(p, B) /\ p.piece = Refused /\ Len(p.files) \in Nat
  BY OpenIsPacker DEF IsOpen
<1>2. HasVotes(W, p) /\ AreVotes(p.votes)
  BY DEF IsOpen, HasVotes
<1>3. CASE p.buf # <<>>
  <2>1. IsFilled(p)
    BY <1>3 DEF IsFilled, IsOpen, ArePending
  <2>2. WillBeElected(W, p) /\ (Full(W) => MayClose(W, p))
    BY <1>2, TheVotedIsElected, ClassMayClose DEF IsOpen
  <2>3. IsNoEnd(p, B)
    <3>1. 1 \in 1..Len(p.pending)
      BY <2>1, OpenIsPacker DEF IsFilled
    <3> QED BY <3>1 DEF IsOpen, NoneHasEnded, IsNoEnd
  <2>4. ~IsOdd(p.piece)
    BY <1>1 DEF IsOdd
  <2>5. /\ Logged(W, B, q) /\ EndsAreBefore(q, B, h)
        /\ Len(q.files) = Len(p.files) /\ q.tier = p.tier /\ q.current = p.current
        /\ IsClean(q) /\ q.kind = NoKind /\ q.piece = Refused /\ q.votes = NoVotes
        /\ cut \in Cuts => Midway(q)
    <3> HIDE DEF q
    <3> QED BY <1>1, <1>3, <2>1, <2>2, <2>3, <2>4, FlushLogs, ZenonT(60) DEF q
  <2> HIDE DEF q
  <2>6. AreVotes(q.votes) /\ \A v \in DOMAIN q.votes : q.votes[v] = 0
    BY <2>5 DEF AreVotes, NoVotes
  <2>7. IsOpen(W, B, q) /\ NoWhole(q)
    BY <2>5, <2>6, NothingIsOpen
  <2> QED BY <1>3, <2>5, <2>7 DEF q
<1>4. CASE p.buf = <<>>
  <2>1. /\ q.pending = <<>> /\ q.buf = <<>> /\ q.kind = p.kind /\ q.piece = p.piece
        /\ q.votes = p.votes /\ q.tier = p.tier /\ q.current = p.current
        /\ q.trace = p.trace /\ q.units = p.units /\ q.failed = p.failed
        /\ q.files = p.files
    BY <1>1, <1>4, FlushOfNothing
  <2>2. IsPacker(q)
    BY <1>1, FlushKin DEF Kin
  <2> HIDE DEF q
  <2>3. q.buf \in Seq(Nat)
    <3>1. <<>> \in Seq(Nat)
      OBVIOUS
    <3> QED BY <2>1, <3>1
  <2>4. SameLog(p, q)
    BY <1>1, <2>1, <2>2, <2>3 DEF SameLog
  <2>5. Logged(W, B, q) /\ EndsAreBefore(q, B, h)
    BY <1>1, <2>4, SameLogIsLogged
  <2>6. AreVotes(q.votes) /\ \A v \in DOMAIN q.votes : q.votes[v] = 0
    BY <1>2, <1>4, <2>1 DEF HasVotes
  <2>7. IsClean(q) /\ q.piece = Refused
    BY <1>1, <2>1 DEF IsClean
  <2>8. IsOpen(W, B, q) /\ NoWhole(q)
    BY <2>5, <2>6, <2>7, NothingIsOpen
  <2> QED BY <1>4, <2>1, <2>5, <2>7, <2>8 DEF q
<1> QED BY <1>3, <1>4

\* While the last file that was listed is placed.
IsOfClass(W, p, class) ==
    \/ p.kind = class
    \/ p.kind = NoKind /\ Midway(p) /\ ClassesOf(W, p.tier, p.pending) \subseteq {class}
IsPlacing(W, B, p) ==
    LET f == W[Len(p.files)]
    IN  /\ IsOpen(W, B, p) /\ Len(p.files) \in 1..Len(p.files) /\ CurrentIs(W, p)
        /\ EndsAreBefore(p, B, Len(p.files))
        /\ Full(W) /\ Confident(f) => IsOfClass(W, p, FilePlan(f, p.tier).kind)

LEMMA FlushIsPlacing ==
    ASSUME NEW W, NEW B, NEW p, IsPlacing(W, B, p), NEW cut \in Cuts
    PROVE  LET q == Flush(p, cut)
           IN  /\ IsPlacing(W, B, q) /\ NoWhole(q) /\ IsClean(q)
               /\ Len(q.files) = Len(p.files) /\ q.tier = p.tier
               /\ p.buf # <<>> => q.kind = NoKind
<1> DEFINE q == Flush(p, cut)
           n == Len(p.files)
           d == FilePlan(W[n], p.tier).kind
<1>1. /\ IsOpen(W, B, p) /\ EndsAreBefore(p, B, n) /\ CurrentIs(W, p) /\ n \in 1..n
      /\ Full(W) /\ Confident(W[n]) => IsOfClass(W, p, d)
  BY DEF IsPlacing
<1>2. /\ IsOpen(W, B, q) /\ EndsAreBefore(q, B, n) /\ IsClean(q) /\ NoWhole(q)
      /\ Len(q.files) = n /\ q.tier = p.tier /\ q.current = p.current
      /\ p.buf # <<>> => q.kind = NoKind /\ Midway(q)
      /\ p.buf = <<>> => q.kind = p.kind /\ q.trace = p.trace
  <2> HIDE DEF n
  <2> QED BY <1>1, FlushIsOpen DEF n
<1> HIDE DEF q
<1>3. CurrentIs(W, q)
  BY <1>1, <1>2 DEF CurrentIs
<1>4. Full(W) /\ Confident(W[n]) => IsOfClass(W, q, d)
  <2> SUFFICES ASSUME Full(W), Confident(W[n]) PROVE IsOfClass(W, q, d)
    OBVIOUS
  <2> HIDE DEF d, n
  <2>1. ClassesOf(W, q.tier, q.pending) \subseteq {d}
    BY <1>2, NothingPends DEF IsClean
  <2>2. Midway(p) /\ p.buf = <<>> => Midway(q)
    BY <1>2 DEF Midway
  <2> QED BY <1>1, <1>2, <2>1, <2>2 DEF IsOfClass
<1> QED BY <1>1, <1>2, <1>3, <1>4 DEF IsPlacing, q, n

LEMMA AppendedIsPlacing ==
    ASSUME NEW W, NEW B, NEW p, IsPlacing(W, B, p), NEW n, n = Len(p.files),
           NEW item \in Seq(Nat), MayGrow(W, p, item)
    PROVE  LET q == Appended(p, n, item)
           IN  /\ IsPlacing(W, B, q) /\ Len(q.files) = n /\ q.tier = p.tier
               /\ ~Recompressible(W[n]) => NoWhole(q)
               /\ item # <<>> => q.buf # <<>>
<1> DEFINE q == Appended(p, n, item)
           f == W[n]
           d == FilePlan(f, p.tier).kind
           x == [file |-> n, off |-> Len(p.buf), len |-> Len(item)]
           xs == p.pending
           ys == q.pending
<1>1. /\ IsOpen(W, B, p) /\ EndsAreBefore(p, B, n) /\ CurrentIs(W, p) /\ n \in 1..n
      /\ Full(W) /\ Confident(f) => IsOfClass(W, p, d)
  BY DEF IsPlacing
<1>2. IsPacker(p) /\ p.buf \in Seq(Nat) /\ Logged(W, B, p) /\ n \in Nat /\ p.piece = Refused
      /\ HasVotes(W, p)
  BY <1>1, OpenIsPacker DEF IsOpen
<1>3. Appends(p, q, n, item)
  BY <1>2, AppendedLeaves
<1>4. HasVotes(W, q) /\ (~Recompressible(f) => NoWhole(q))
  BY <1>1, <1>2, AppendedVotes, ZenonT(60)
<1> HIDE DEF q
<1>5. /\ q.tier = p.tier /\ q.units = p.units /\ q.files = p.files /\ q.trace = p.trace
      /\ q.kind = p.kind /\ q.current = p.current /\ q.piece = p.piece /\ q.failed = p.failed
      /\ q.buf = p.buf \o item /\ IsPacker(q) /\ OneMore(xs, ys, x)
  BY <1>3 DEF Appends
<1>6. x.file = n /\ x.len = Len(item) /\ Len(item) \in Nat
  OBVIOUS
<1>7. PlanFor(W, p.tier, x) = FilePlan(f, p.tier) /\ (IsVoter(W, x) => Confident(f))
  BY <1>6 DEF PlanFor, IsVoter
<1> HIDE DEF f, d, x, xs, ys
<1>8. /\ Len(xs) \in Nat /\ Len(ys) = Len(xs) + 1 /\ ys[Len(xs) + 1] = x
      /\ \A k \in 1..Len(xs) : ys[k] = xs[k]
      /\ \A k \in 1..Len(ys) : k \in 1..Len(xs) \/ k = Len(xs) + 1
  BY <1>5, MoreIsSeq
<1>9. q.buf \in Seq(Nat) /\ (item # <<>> => q.buf # <<>>)
  <2> DEFINE b == p.buf
  <2> HIDE DEF b
  <2>1. b \in Seq(Nat) /\ b \o item \in Seq(Nat) /\ Len(b \o item) = Len(b) + Len(item)
    BY <1>2, ConcatProperties DEF b
  <2>2. item # <<>> => Len(item) > 0
    BY EmptyIsSeq, SeqFacts, IsSeqOf
  <2>3. item # <<>> => Len(b \o item) # 0
    BY <1>6, <2>1, <2>2
  <2>4. item # <<>> => b \o item # <<>>
    BY <2>3, EmptyIsSeq
  <2> QED BY <1>5, <2>1, <2>4 DEF b
<1>10. SameLog(p, q)
  BY <1>2, <1>5, <1>9 DEF SameLog
<1>11. Logged(W, B, q) /\ EndsAreBefore(q, B, n) /\ (Midway(p) => Midway(q))
       /\ \A m : OddAt(q, B, m) <=> OddAt(p, B, m)
  BY <1>1, <1>2, <1>10, SameLogIsLogged
<1>12. ArePending(q) /\ Len(ys) > 0
  <2>1. \A k \in 1..Len(ys) : ys[k].file \in 1..n /\ ys[k].len \in Nat
    BY <1>1, <1>6, <1>8 DEF IsOpen, ArePending, xs
  <2> QED BY <1>5, <1>8, <2>1 DEF ArePending, ys
<1>13. NoneHasEnded(q, B)
  <2> SUFFICES ASSUME NEW m \in 1..Len(p.trace), OddAt(p, B, m), NEW k \in 1..Len(ys)
               PROVE  ys[k].file # p.trace[m].parts[1].file
    BY <1>5, <1>11 DEF NoneHasEnded, ys
  <2>1. p.trace[m].parts[1].file < n
    BY <1>1 DEF EndsAreBefore
  <2>2. p.trace[m].parts[1].file # n
    <3>1. IsLog(p, B)
      BY <1>2 DEF Logged
    <3>2. /\ IsSeq(p.trace[m].parts) /\ Len(p.trace[m].parts) > 0
          /\ \A j \in 1..Len(p.trace[m].parts) : p.trace[m].parts[j].file \in 1..Len(p.files)
      BY <3>1 DEF IsLog
    <3>3. 1 \in 1..Len(p.trace[m].parts)
      BY <3>2, SeqFacts
    <3>4. p.trace[m].parts[1].file \in 1..n
      BY <3>2, <3>3
    <3> QED BY <1>2, <2>1, <3>4
  <2>3. CASE k \in 1..Len(xs)
    BY <1>1, <1>8, <2>3 DEF IsOpen, NoneHasEnded, xs
  <2>4. CASE k = Len(xs) + 1
    BY <1>6, <1>8, <2>2, <2>4
  <2> QED BY <1>8, <2>3, <2>4
<1>14. ASSUME NEW S, ClassesOf(W, p.tier, xs) \subseteq S, Confident(f) => d \in S
       PROVE  ClassesOf(W, p.tier, ys) \subseteq S
  <2>1. IsVoter(W, x) => PlanFor(W, p.tier, x).kind \in S
    BY <1>7, <1>14 DEF d
  <2> QED BY <1>5, <1>14, <2>1, OneClassMore
<1>15. Full(W) => HasClass(W, q)
  <2> SUFFICES ASSUME Full(W) PROVE HasClass(W, q)
    OBVIOUS
  <2>1. HasClass(W, p)
    BY <1>1 DEF IsOpen
  <2>2. CASE Confident(f) /\ p.kind # d
    <3>1. p.kind = NoKind /\ Midway(p) /\ ClassesOf(W, p.tier, xs) \subseteq {d}
      BY <1>1, <2>2 DEF IsOfClass, xs
    <3>2. ClassesOf(W, p.tier, ys) \subseteq {d}
      BY <1>14, <3>1
    <3>3. ClassesOf(W, p.tier, ys) \subseteq {d, q.kind}
      BY <3>2
    <3> QED BY <1>5, <1>11, <3>1, <3>3 DEF HasClass, ys
  <2>3. CASE ~(Confident(f) /\ p.kind # d)
    <3>1. CASE ClassesOf(W, p.tier, xs) \subseteq {p.kind}
      <4>1. ClassesOf(W, p.tier, ys) \subseteq {p.kind}
        BY <1>14, <2>3, <3>1
      <4> QED BY <1>5, <4>1 DEF HasClass, ys
    <3>2. CASE Midway(p) /\ \E c : ClassesOf(W, p.tier, xs) \subseteq {c, p.kind}
      <4>1. PICK c : ClassesOf(W, p.tier, xs) \subseteq {c, p.kind}
        BY <3>2
      <4>2. ClassesOf(W, p.tier, ys) \subseteq {c, p.kind}
        BY <1>14, <2>3, <4>1
      <4> QED BY <1>5, <1>11, <3>2, <4>2 DEF HasClass, ys
    <3> QED BY <2>1, <3>1, <3>2 DEF HasClass, xs
  <2> QED BY <2>2, <2>3
<1>16. IsOpen(W, B, q)
  BY <1>2, <1>4, <1>5, <1>11, <1>12, <1>13, <1>15 DEF IsOpen, ys
<1>17. Full(W) /\ Confident(f) => IsOfClass(W, q, d)
  <2> SUFFICES ASSUME Full(W), Confident(f) PROVE IsOfClass(W, q, d)
    OBVIOUS
  <2>1. CASE p.kind = d
    BY <1>5, <2>1 DEF IsOfClass
  <2>2. CASE p.kind = NoKind /\ Midway(p) /\ ClassesOf(W, p.tier, xs) \subseteq {d}
    <3>1. ClassesOf(W, p.tier, ys) \subseteq {d}
      BY <1>14, <2>2
    <3> QED BY <1>5, <1>11, <2>2, <3>1 DEF IsOfClass, ys
  <2> QED BY <1>1, <2>1, <2>2 DEF IsOfClass, xs
<1>18. CurrentIs(W, q)
  BY <1>1, <1>5 DEF CurrentIs
<1>19. IsPlacing(W, B, q)
  BY <1>1, <1>5, <1>11, <1>16, <1>17, <1>18 DEF IsPlacing, f, d
<1> QED BY <1>4, <1>5, <1>9, <1>19 DEF q, f

LEMMA PlaceIsPlacing ==
    ASSUME NEW W, NEW B, NEW p, IsPlacing(W, B, p), NEW n, n = Len(p.files),
           NEW item \in Seq(Nat), MayGrow(W, p, item)
    PROVE  LET q == Place(p, n, item)
           IN  /\ IsPlacing(W, B, q) /\ Len(q.files) = n /\ q.tier = p.tier
               /\ ~Recompressible(W[n]) => NoWhole(q)
               /\ item # <<>> => IsSettled(q)
<1> DEFINE a == IF Overshoots(p, item) THEN Flush(p, "Overshoot") ELSE p
           b == Appended(a, n, item)
           c == CutAfter(b, item)
<1>0. \A cut \in {"Hash", "Cap", "Overshoot"} : cut \in Cuts
  BY DEF Cuts
<1>1. /\ IsPlacing(W, B, a) /\ Len(a.files) = n /\ a.tier = p.tier
      /\ NoWhole(a) /\ (IsClean(p) => IsClean(a))
  <2>1. CASE Overshoots(p, item)
    BY <1>0, <2>1, FlushIsPlacing
  <2>2. CASE ~Overshoots(p, item)
    BY <2>2 DEF MayGrow
  <2> QED BY <2>1, <2>2
<1> HIDE DEF a
<1>2. MayGrow(W, a, item)
  BY <1>1 DEF MayGrow
<1>3. /\ IsPlacing(W, B, b) /\ Len(b.files) = n /\ b.tier = a.tier
      /\ ~Recompressible(W[n]) => NoWhole(b)
      /\ item # <<>> => b.buf # <<>>
  <2>1. IsPlacing(W, B, a) /\ n = Len(a.files) /\ item \in Seq(Nat) /\ MayGrow(W, a, item)
    BY <1>1, <1>2
  <2> HIDE DEF c
  <2> QED BY <2>1, AppendedIsPlacing
<1> HIDE DEF b
<1>4. /\ IsPlacing(W, B, c) /\ Len(c.files) = n /\ c.tier = b.tier
      /\ ~Recompressible(W[n]) => NoWhole(c)
      /\ b.buf # <<>> => IsSettled(c)
  <2>1. ASSUME NEW cut \in Cuts, c = Flush(b, cut)
        PROVE  /\ IsPlacing(W, B, c) /\ Len(c.files) = n /\ c.tier = b.tier /\ NoWhole(c)
               /\ b.buf # <<>> => IsSettled(c)
    <3> HIDE DEF c
    <3>1. /\ IsPlacing(W, B, c) /\ Len(c.files) = Len(b.files) /\ c.tier = b.tier /\ NoWhole(c)
          /\ b.buf # <<>> => c.kind = NoKind
      BY <1>3, <2>1, FlushIsPlacing
    <3> QED BY <1>3, <3>1 DEF IsSettled
  <2>2. CASE ByHash(b, item)
    <3>1. c = Flush(b, "Hash")
      BY <2>2 DEF CutAfter
    <3> HIDE DEF c
    <3> QED BY <1>0, <2>1, <3>1
  <2>3. CASE ~ByHash(b, item) /\ Len(b.buf) >= 2 * Target
    <3>1. c = Flush(b, "Cap")
      BY <2>3 DEF CutAfter
    <3> HIDE DEF c
    <3> QED BY <1>0, <2>1, <3>1
  <2>4. CASE ~ByHash(b, item) /\ ~(Len(b.buf) >= 2 * Target)
    <3>1. c = b
      BY <2>4 DEF CutAfter
    <3> HIDE DEF c
    <3> QED BY <1>3, <3>1 DEF IsSettled
  <2> QED BY <2>2, <2>3, <2>4
<1> HIDE DEF c
<1>5. Place(p, n, item) = c
  BY DEF Place, a, b, c
<1> QED BY <1>1, <1>3, <1>4, <1>5

LEMMA ChunksAreSome ==
    ASSUME NEW cells, IsSeq(cells)
    PROVE  LET items == ChunksOf(Chunks(cells)) IN \A j \in 1..Len(items) : items[j] # <<>>
<1> DEFINE Some(items) == IsSeq(items) /\ \A j \in 1..Len(items) : items[j] # <<>>
           Good(cut) == /\ cut = [done |-> cut.done, open |-> cut.open]
                        /\ Some(cut.done) /\ IsSeq(cut.open)
<1>1. PICK g : IsRun(g, "chunk", 0, NoCut, cells) /\ g[Len(cells)] = Chunks(cells)
  BY ChunksRun
<1>2. Len(cells) \in Nat
  BY SeqFacts
<1>3. ASSUME NEW items, Some(items), NEW x, x # <<>> PROVE Some(Append(items, x))
  <2>1. /\ IsSeq(Append(items, x)) /\ Len(Append(items, x)) = Len(items) + 1
        /\ \A i \in 1..Len(items) : Append(items, x)[i] = items[i]
        /\ Append(items, x)[Len(items) + 1] = x
    BY <1>3, AppendAny
  <2>2. Len(items) \in Nat
    BY <1>3, SeqFacts
  <2> QED BY <1>3, <2>1, <2>2
<1>4. ASSUME NEW cut, Good(cut), NEW c PROVE Good(ChunkOne(cut, c))
  <2> DEFINE open == Append(cut.open, c)
  <2>1. IsSeq(open) /\ Len(open) = Len(cut.open) + 1 /\ Len(cut.open) \in Nat
    BY <1>4, AppendAny, SeqFacts
  <2> HIDE DEF open
  <2>2. open # <<>>
    BY <2>1, EmptyIsSeq
  <2>3. Some(Append(cut.done, open)) /\ IsSeq(<<>>)
    BY <1>3, <1>4, <2>2, EmptyIsSeq
  <2>4. \/ ChunkOne(cut, c) = [done |-> Append(cut.done, open), open |-> <<>>]
        \/ ChunkOne(cut, c) = [cut EXCEPT !.open = open]
    BY DEF ChunkOne, open
  <2>5. [cut EXCEPT !.open = open] = [done |-> cut.done, open |-> open]
    BY <1>4
  <2> HIDE DEF Some
  <2>6. Good([done |-> Append(cut.done, open), open |-> <<>>])
    BY <2>3
  <2>7. Good([done |-> cut.done, open |-> open])
    BY <1>4, <2>1
  <2> HIDE DEF Good
  <2> QED BY <2>4, <2>5, <2>6, <2>7
<1> DEFINE T == { k \in Nat : k <= Len(cells) => Good(g[k]) }
<1>5. 0 \in T
  <2>1. Good([done |-> <<>>, open |-> <<>>])
    BY EmptyIsSeq
  <2> QED BY <1>1, <2>1 DEF IsRun, NoCut
<1>6. ASSUME NEW k \in Nat, k \in T PROVE k + 1 \in T
  <2> SUFFICES ASSUME k + 1 <= Len(cells) PROVE Good(g[k + 1])
    OBVIOUS
  <2>1. k \in 0..(Len(cells) - 1) /\ Good(g[k])
    BY <1>2, <1>6
  <2>2. g[k + 1] = ChunkOne(g[k], cells[k + 1])
    BY <1>1, <2>1 DEF IsRun, OneStep
  <2> HIDE DEF Good
  <2> QED BY <1>4, <2>1, <2>2
<1>7. Good(Chunks(cells))
  <2>1. Len(cells) \in T
    <3> HIDE DEF T
    <3> QED BY <1>2, <1>5, <1>6, Counting
  <2> QED BY <1>1, <1>2, <2>1
<1>8. Some(ChunksOf(Chunks(cells)))
  <2> DEFINE cut == Chunks(cells)
  <2> HIDE DEF cut
  <2>1. Some(cut.done)
    BY <1>7 DEF cut
  <2> HIDE DEF Some
  <2>2. ChunksOf(cut) = IF cut.open = <<>> THEN cut.done ELSE Append(cut.done, cut.open)
    BY DEF ChunksOf
  <2>3. Some(ChunksOf(cut))
    BY <1>3, <2>1, <2>2
  <2> QED BY <2>3 DEF cut
<1> QED BY <1>8

\* What is placed of a file: some cells each time, if the file has some, and all at once of
\* one that will be alone.
AreItems(f, items) ==
    /\ IsSeq(items) /\ \A j \in 1..Len(items) : items[j] \in Seq(Nat)
    /\ f.cells # <<>> => Len(items) > 0 /\ \A j \in 1..Len(items) : items[j] # <<>>
    /\ Recompressible(f) => Len(items) = 1 /\ items[1] = f.cells

LEMMA ItemsAreItems ==
    ASSUME NEW f, IsFile(f)
    PROVE  AreItems(f, ItemsOf(f))
<1> DEFINE items == ItemsOf(f)
           cells == f.cells
           m == Len(items)
<1>1. cells \in Seq(Nat) /\ IsSeq(cells) /\ Len(cells) \in Nat
  BY IsSeqOf DEF IsFile
<1>2. Slices(items, cells, Len(cells))
  BY ItemsAreSlices
<1>3. IsSeq(items) /\ m \in Nat
  BY <1>2, SeqFacts DEF Slices
<1>4. PICK at \in [0..m -> 0..Len(cells)] :
          /\ at[0] = 0 /\ at[m] = Len(cells)
          /\ \A j \in 0..(m - 1) :
                at[j] <= at[j + 1] /\ items[j + 1] = SubSeq(cells, at[j] + 1, at[j + 1])
  BY <1>2 DEF Slices
<1> HIDE DEF items, m, cells
<1>5. ASSUME NEW j \in 1..m PROVE items[j] \in Seq(Nat)
  <2> DEFINE k == j - 1
             a == at[k]
             b == at[k + 1]
  <2>1. k \in 0..(m - 1) /\ k \in 0..m /\ k + 1 \in 0..m /\ k + 1 = j
    BY <1>3
  <2>2. a \in 0..Len(cells) /\ b \in 0..Len(cells) /\ a <= b
    BY <1>4, <2>1
  <2>3. items[j] = SubSeq(cells, a + 1, b)
    BY <1>4, <2>1
  <2> HIDE DEF a, b
  <2>4. SubSeq(cells, a + 1, b) \in Seq(Nat)
    BY <1>1, <2>2, CutInTwo
  <2> QED BY <2>3, <2>4
<1>6. ReadWhole(f) => items = <<cells>> /\ m = 1 /\ items[1] = cells
  BY OneItem DEF ItemsOf, items, m, cells
<1>7. ~ReadWhole(f) => items = ChunksOf(Chunks(cells))
  BY DEF ItemsOf, items, cells
<1>8. cells # <<>> => m > 0
  <2> SUFFICES ASSUME m = 0 PROVE cells = <<>>
    BY <1>3
  <2>1. Len(cells) = 0
    BY <1>4
  <2> QED BY <1>1, <2>1, SeqFacts
<1>9. ASSUME cells # <<>>, NEW j \in 1..m PROVE items[j] # <<>>
  <2>1. CASE ReadWhole(f)
    <3>1. j = 1
      BY <1>6, <2>1
    <3> QED BY <1>6, <1>9, <2>1, <3>1
  <2>2. CASE ~ReadWhole(f)
    <3>1. \A i \in 1..Len(ChunksOf(Chunks(cells))) : ChunksOf(Chunks(cells))[i] # <<>>
      BY <1>1, ChunksAreSome
    <3> QED BY <1>7, <2>2, <3>1 DEF m
  <2> QED BY <2>1, <2>2
<1>10. Recompressible(f) => ReadWhole(f)
  BY DEF ReadWhole
<1> QED BY <1>3, <1>5, <1>6, <1>8, <1>9, <1>10 DEF AreItems, m, items, cells

LEMMA PlacedAllIsPlacing ==
    ASSUME NEW W, NEW B, NEW p, IsPlacing(W, B, p), NEW n, n = Len(p.files),
           NEW items, AreItems(W[n], items),
           NoWhole(p), Recompressible(W[n]) => IsClean(p)
    PROVE  LET q == PlacedAll(p, n, items)
           IN  /\ IsPlacing(W, B, q) /\ Len(q.files) = n /\ q.tier = p.tier
               /\ ~Recompressible(W[n]) => NoWhole(q)
               /\ W[n].cells # <<>> => IsSettled(q)
<1> DEFINE m == Len(items)
           f == W[n]
           Good(q, k) == /\ IsPlacing(W, B, q) /\ Len(q.files) = n /\ q.tier = p.tier
                         /\ ~Recompressible(f) => NoWhole(q)
                         /\ f.cells # <<>> /\ k > 0 => IsSettled(q)
<1>1. IsSeq(items) /\ m \in Nat
  BY SeqFacts DEF AreItems
<1>2. PICK g : IsRun(g, "place", n, p, items) /\ g[m] = PlacedAll(p, n, items)
  BY <1>1, PlacedRuns
<1> DEFINE T == { k \in Nat : k <= m => Good(g[k], k) }
<1>3. 0 \in T
  <2>1. g[0] = p
    BY <1>2 DEF IsRun
  <2> QED BY <2>1
<1>4. ASSUME NEW k \in Nat, k \in T PROVE k + 1 \in T
  <2> SUFFICES ASSUME k + 1 <= m PROVE Good(g[k + 1], k + 1)
    OBVIOUS
  <2> DEFINE r == g[k]
             item == items[k + 1]
  <2>1. k \in 0..(m - 1) /\ k + 1 \in 1..m /\ Good(r, k)
    BY <1>1, <1>4
  <2>2. g[k + 1] = Place(r, n, item)
    BY <1>2, <2>1 DEF IsRun, OneStep
  <2>3. item \in Seq(Nat) /\ (f.cells # <<>> => item # <<>>)
    BY <2>1 DEF AreItems
  <2>4. MayGrow(W, r, item)
    <3>1. CASE Recompressible(f)
      <4>1. k = 0
        <5>1. m = 1
          BY <3>1 DEF AreItems
        <5> QED BY <2>1, <5>1
      <4>2. r = p /\ item = f.cells
        BY <1>2, <3>1, <4>1 DEF IsRun, AreItems
      <4> QED BY <3>1, <4>2 DEF MayGrow
    <3>2. CASE ~Recompressible(f)
      BY <2>1, <3>2 DEF MayGrow
    <3> QED BY <3>1, <3>2
  <2> DEFINE q == Place(r, n, item)
  <2>5. /\ IsPlacing(W, B, q) /\ Len(q.files) = n /\ q.tier = r.tier
        /\ ~Recompressible(W[n]) => NoWhole(q)
        /\ item # <<>> => IsSettled(q)
    <3> HIDE DEF r, item
    <3> QED BY <2>1, <2>3, <2>4, PlaceIsPlacing
  <2> HIDE DEF q, r, item
  <2> QED BY <2>1, <2>2, <2>3, <2>5 DEF q
<1> HIDE DEF T
<1>5. m \in T /\ m <= m
  BY <1>1, <1>3, <1>4, Counting
<1>6. Good(g[m], m)
  BY <1>5 DEF T
<1>7. f.cells # <<>> => m > 0
  BY DEF AreItems
<1> QED BY <1>2, <1>6, <1>7

----------------------------------------------------------------------------
(* The work list grows, and what was true of the log stays true.             *)

Agree(W, V, N) == \A k \in 1..N : V[k] = W[k]
PartsIn(xs, N) == \A k \in 1..Len(xs) : xs[k].file \in 1..N

LEMMA SameVotersAndPlans ==
    ASSUME NEW W, NEW V, NEW N, Agree(W, V, N), NEW xs, PartsIn(xs, N), NEW tier
    PROVE  /\ \A k \in 1..Len(xs) : /\ V[xs[k].file] = W[xs[k].file]
                                    /\ IsVoter(V, xs[k]) <=> IsVoter(W, xs[k])
                                    /\ PlanFor(V, tier, xs[k]) = PlanFor(W, tier, xs[k])
           /\ ClassesOf(V, tier, xs) = ClassesOf(W, tier, xs)
           /\ \A v : BehindIn(V, tier, xs, v) = BehindIn(W, tier, xs, v)
           /\ HasVoter(V, xs) <=> HasVoter(W, xs)
           /\ \A v : MostAreBehind(V, tier, xs, v) <=> MostAreBehind(W, tier, xs, v)
<1>1. \A k \in 1..Len(xs) : V[xs[k].file] = W[xs[k].file]
  BY DEF Agree, PartsIn
<1>2. \A k \in 1..Len(xs) : IsVoter(V, xs[k]) <=> IsVoter(W, xs[k])
  BY <1>1 DEF IsVoter
<1>3. \A k \in 1..Len(xs) : PlanFor(V, tier, xs[k]) = PlanFor(W, tier, xs[k])
  BY <1>1 DEF PlanFor
<1>4. ClassesOf(V, tier, xs) = ClassesOf(W, tier, xs)
  BY <1>2, <1>3 DEF ClassesOf
<1>5. ASSUME NEW v PROVE BehindIn(V, tier, xs, v) = BehindIn(W, tier, xs, v)
  <2>1. Shares(V, tier, xs, v) = Shares(W, tier, xs, v)
    BY <1>2, <1>3 DEF Shares
  <2> QED BY <2>1 DEF BehindIn
<1>6. HasVoter(V, xs) <=> HasVoter(W, xs)
  BY <1>2 DEF HasVoter
<1>7. ASSUME NEW v PROVE MostAreBehind(V, tier, xs, v) <=> MostAreBehind(W, tier, xs, v)
  BY <1>2, <1>3, <1>5 DEF MostAreBehind
<1> QED BY <1>1, <1>2, <1>3, <1>4, <1>5, <1>6, <1>7

LEMMA LoggedForMore ==
    ASSUME NEW W, NEW B, NEW p, Logged(W, B, p), NEW V, Agree(W, V, Len(p.files)),
           Full(V) => Full(W)
    PROVE  Logged(V, B, p)
<1> DEFINE N == Len(p.files)
<1>1. IsLog(p, B) /\ IsSmall(p) /\ AreEnds(p, B)
  BY DEF Logged
<1>2. ASSUME NEW n \in 1..Len(p.trace)
      PROVE  /\ ClassesOf(V, p.tier, p.trace[n].parts) = ClassesOf(W, p.tier, p.trace[n].parts)
             /\ HasVoter(V, p.trace[n].parts) <=> HasVoter(W, p.trace[n].parts)
             /\ \A v : MostAreBehind(V, p.tier, p.trace[n].parts, v)
                          <=> MostAreBehind(W, p.tier, p.trace[n].parts, v)
             /\ V[p.trace[n].parts[1].file] = W[p.trace[n].parts[1].file]
  <2> DEFINE xs == p.trace[n].parts
  <2>1. PartsIn(xs, N) /\ 1 \in 1..Len(xs)
    <3>1. IsSeq(xs) /\ Len(xs) > 0 /\ \A k \in 1..Len(xs) : xs[k].file \in 1..N
      BY <1>1 DEF IsLog
    <3> QED BY <3>1, SeqFacts DEF PartsIn
  <2> HIDE DEF N, xs
  <2> QED BY <2>1, SameVotersAndPlans, SMTT(60) DEF N, xs
<1>3. AreElected(V, p, B)
  <2> SUFFICES ASSUME NEW n \in 1..Len(p.trace), NewAt(p.trace, B, n)
               PROVE  ElectedAt(V, p.tier, p.units[p.trace[n].unit], p.trace[n])
    BY DEF AreElected
  <2>1. ElectedAt(W, p.tier, p.units[p.trace[n].unit], p.trace[n])
    BY DEF Logged, AreElected
  <2> QED BY <1>2, <2>1 DEF ElectedAt
<1>4. Full(V) => IsGrouped(V, p)
  <2> SUFFICES ASSUME Full(V), NEW n \in 1..Len(p.trace) PROVE GroupedAt(V, p.tier, p.trace, n)
    BY DEF IsGrouped
  <2>1. GroupedAt(W, p.tier, p.trace, n)
    BY DEF Logged, IsGrouped
  <2> QED BY <1>2, <2>1 DEF GroupedAt, OneClass, TwoClasses
<1> QED BY <1>1, <1>3, <1>4 DEF Logged

LEMMA OpenForMore ==
    ASSUME NEW W, NEW B, NEW p, IsOpen(W, B, p), NEW V, Agree(W, V, Len(p.files)),
           Full(V) => Full(W)
    PROVE  IsOpen(V, B, p)
<1> DEFINE xs == p.pending
<1>1. Logged(V, B, p)
  BY LoggedForMore DEF IsOpen
<1>2. PartsIn(xs, Len(p.files))
  BY DEF IsOpen, ArePending, PartsIn
<1>3. /\ \A k \in 1..Len(xs) : /\ V[xs[k].file] = W[xs[k].file]
                               /\ IsVoter(V, xs[k]) <=> IsVoter(W, xs[k])
                               /\ PlanFor(V, p.tier, xs[k]) = PlanFor(W, p.tier, xs[k])
      /\ ClassesOf(V, p.tier, xs) = ClassesOf(W, p.tier, xs)
      /\ \A v : BehindIn(V, p.tier, xs, v) = BehindIn(W, p.tier, xs, v)
  <2> HIDE DEF xs
  <2> QED BY <1>2, SameVotersAndPlans
<1>4. AreCounted(V, p)
  BY <1>3 DEF IsOpen, HasVotes, AreCounted
<1>5. AllHaveVoted(V, p)
  BY <1>3 DEF IsOpen, HasVotes, AllHaveVoted
<1>6. IsAlone(W, p) => IsAlone(V, p)
  BY <1>3 DEF IsAlone
<1>7. HasVotes(V, p)
  BY <1>4, <1>5, <1>6 DEF IsOpen, HasVotes
<1>8. Full(V) => HasClass(V, p)
  BY <1>3 DEF IsOpen, HasClass
<1> QED BY <1>1, <1>7, <1>8 DEF IsOpen

LEMMA EndsLater ==
    ASSUME NEW p, NEW B, NEW h \in Nat, EndsAreBefore(p, B, h), IsLog(p, B), NEW g \in Nat, h <= g
    PROVE  EndsAreBefore(p, B, g)
<1> SUFFICES ASSUME NEW n \in 1..Len(p.trace), OddAt(p, B, n)
             PROVE  p.trace[n].parts[1].file < g
  BY DEF EndsAreBefore
<1> DEFINE x == p.trace[n].parts[1].file
<1>1. x < h
  BY DEF EndsAreBefore
<1>2. x \in Nat
  <2>1. /\ IsSeq(p.trace[n].parts) /\ Len(p.trace[n].parts) > 0
        /\ \A k \in 1..Len(p.trace[n].parts) : p.trace[n].parts[k].file \in 1..Len(p.files)
    BY DEF IsLog
  <2>2. 1 \in 1..Len(p.trace[n].parts)
    BY <2>1, SeqFacts
  <2>3. x \in 1..Len(p.files)
    BY <2>1, <2>2
  <2> QED BY <2>3
<1> HIDE DEF x
<1> QED BY <1>1, <1>2 DEF x

\* A file was listed and nothing of it was placed.
IsReady(W, B, p) ==
    /\ IsOpen(W, B, p) /\ NoWhole(p) /\ EndsAreBefore(p, B, Len(p.files))
    /\ Len(p.files) \in 1..Len(p.files)
    /\ Full(W) => IsSettled(p)

LEMMA ListedIsReady ==
    ASSUME NEW W, NEW B, NEW p, Rests(W, B, p), ~p.failed, IsSeq(W), Len(W) = Len(p.files), NEW f
    PROVE  LET q == Listed(p, f)
               V == Append(W, f)
           IN  /\ IsReady(V, B, q) /\ V[Len(q.files)] = f /\ q.tier = p.tier
               /\ Len(q.files) = Len(V) /\ Len(V) = Len(W) + 1 /\ IsSeq(V)
<1> DEFINE q == Listed(p, f)
           V == Append(W, f)
           e == [path |-> f.path, size |-> f.len, dir |-> FALSE, extents |-> <<>>]
           fs == p.files
           N == Len(fs)
<1>1. /\ IsPacker(p) /\ IsOpen(W, B, p) /\ NoWhole(p) /\ EndsAreBefore(p, B, N + 1) /\ N \in Nat
      /\ AreEntries(fs) /\ p.buf \in Seq(Nat) /\ Logged(W, B, p)
      /\ Full(W) => IsSettled(p)
  BY OpenIsPacker DEF Rests, IsPacker
<1>2. /\ IsSeq(V) /\ Len(V) = N + 1 /\ V[N + 1] = f
      /\ \A k \in 1..N : V[k] = W[k]
  BY AppendAny
<1> HIDE DEF V
<1>3. Agree(W, V, N)
  BY <1>2 DEF Agree
<1>4. Full(V) => Full(W)
  <2>1. \A k \in 1..Len(W) : k \in 1..Len(V) /\ V[k] = W[k]
    BY <1>1, <1>2
  <2> QED BY <2>1 DEF Full
<1>5. IsOpen(V, B, p)
  BY <1>1, <1>3, <1>4, OpenForMore
<1>6. /\ q = [x \in PackerFields |-> q[x]]
      /\ q.tier = p.tier /\ q.units = p.units /\ q.trace = p.trace /\ q.buf = p.buf
      /\ q.pending = p.pending /\ q.votes = p.votes /\ q.piece = p.piece /\ q.failed = p.failed
      /\ q.kind = p.kind /\ q.files = Append(fs, e)
  BY <1>1 DEF Listed, IsPacker, PackerFields
<1>7. IsEntry(e)
  BY DEF IsEntry, EntryFields
<1> HIDE DEF q, e, fs
<1>8. AreEntries(Append(fs, e)) /\ Len(Append(fs, e)) = N + 1
  <2>1. /\ IsSeq(fs) /\ IsSeq(Append(fs, e)) /\ Len(Append(fs, e)) = Len(fs) + 1
        /\ \A i \in 1..Len(fs) : Append(fs, e)[i] = fs[i]
        /\ Append(fs, e)[Len(fs) + 1] = e
    BY <1>1, AppendAny DEF AreEntries
  <2>2. \A i \in 1..N + 1 : i \in 1..N \/ i = N + 1
    BY <1>1
  <2> QED BY <1>1, <1>7, <2>1, <2>2 DEF AreEntries
<1>9. SameUnit(p, q)
  <2>1. IsPacker(q)
    BY <1>1, <1>6, <1>8 DEF IsPacker
  <2> QED BY <1>1, <1>6, <1>8, <2>1 DEF SameUnit, fs
<1>10. Full(V) => HasClass(V, q)
  BY <1>5, <1>6 DEF IsOpen, HasClass, Midway
<1>11. IsOpen(V, B, q) /\ NoWhole(q) /\ EndsAreBefore(q, B, N + 1)
  BY <1>1, <1>5, <1>9, <1>10, SameUnitIsOpen
<1>12. Full(V) => IsSettled(q)
  BY <1>1, <1>4, <1>6 DEF IsSettled
<1>13. IsReady(V, B, q)
  BY <1>1, <1>6, <1>8, <1>11, <1>12 DEF IsReady
<1> QED BY <1>2, <1>6, <1>8, <1>13 DEF q, V, fs

\* What a flush before the file, if there is one, makes room for.
IsOpened(W, B, p, o, f, plan) ==
    /\ IsOpen(W, B, o) /\ NoWhole(o) /\ EndsAreBefore(o, B, Len(p.files))
    /\ Len(o.files) = Len(p.files) /\ o.tier = p.tier
    /\ Alone(f, plan) => IsClean(o)
    /\ Full(W) /\ Confident(f) => o.kind \in {NoKind, plan.kind}

LEMMA OpenedIsReady ==
    ASSUME NEW W, NEW B, NEW p, IsReady(W, B, p), NEW f, NEW plan
    PROVE  IsOpened(W, B, p, Opened(p, f, plan), f, plan)
<1>1. /\ IsOpen(W, B, p) /\ NoWhole(p) /\ EndsAreBefore(p, B, Len(p.files))
      /\ Full(W) => IsSettled(p)
  BY DEF IsReady
<1>2. ASSUME NEW cut
      PROVE  IsOpened(W, B, p, Flush(p, cut), f, plan)
  <2> DEFINE q == Flush(p, cut)
  <2>1. /\ IsOpen(W, B, q) /\ NoWhole(q) /\ EndsAreBefore(q, B, Len(p.files)) /\ IsClean(q)
        /\ Len(q.files) = Len(p.files) /\ q.tier = p.tier
        /\ p.buf # <<>> => q.kind = NoKind
        /\ p.buf = <<>> => q.kind = p.kind
    BY <1>1, FlushIsOpen
  <2> HIDE DEF q
  <2>2. Full(W) => q.kind = NoKind
    BY <1>1, <2>1 DEF IsSettled
  <2>3. IsOpened(W, B, p, q, f, plan)
    BY <2>1, <2>2 DEF IsOpened
  <2> QED BY <2>3 DEF q
<1>3. CASE Alone(f, plan)
  BY <1>2, <1>3 DEF Opened
<1>4. CASE ~Alone(f, plan) /\ Mixed(p, f, plan)
  BY <1>2, <1>4 DEF Opened
<1>5. CASE ~Alone(f, plan) /\ ~Mixed(p, f, plan)
  <2>1. Opened(p, f, plan) = p
    BY <1>5 DEF Opened
  <2>2. Confident(f) => p.kind \in {NoKind, plan.kind}
    BY <1>5 DEF Mixed
  <2> QED BY <1>1, <1>5, <2>1, <2>2 DEF IsOpened
<1> QED BY <1>3, <1>4, <1>5

\* An empty class is no class of a file, so that what is pending without one has no voter.
LEMMA ClassIsTaken ==
    ASSUME NEW W, NEW p, HasClass(W, p), NEW q, q.tier = p.tier, q.pending = p.pending,
           q.trace = p.trace, q.kind = p.kind \/ p.kind = NoKind
    PROVE  HasClass(W, q)
<1> DEFINE classes == ClassesOf(W, p.tier, p.pending)
<1>1. NoKind \notin classes
  <2> SUFFICES ASSUME NEW k, PlanFor(W, p.tier, p.pending[k]).kind = NoKind
               PROVE  FALSE
    BY DEF ClassesOf
  <2>1. PlanFor(W, p.tier, p.pending[k]).kind \in Kinds
    BY FilePlanIs DEF PlanFor, IsPlan
  <2> QED BY <2>1 DEF Kinds, NoKind
<1>2. ClassesOf(W, q.tier, q.pending) = classes
  OBVIOUS
<1>3. Midway(p) => Midway(q)
  BY DEF Midway
<1>4. classes \subseteq {p.kind} \/ (Midway(p) /\ \E c : classes \subseteq {c, p.kind})
  BY DEF HasClass
<1> HIDE DEF classes
<1>5. CASE q.kind = p.kind
  BY <1>2, <1>3, <1>4, <1>5 DEF HasClass
<1>6. CASE p.kind = NoKind
  <2>1. CASE classes \subseteq {p.kind}
    <3>1. classes = {}
      BY <1>1, <1>6, <2>1
    <3> QED BY <1>2, <3>1 DEF HasClass
  <2>2. ASSUME Midway(p), NEW c, classes \subseteq {c, p.kind}
        PROVE  HasClass(W, q)
    <3>1. classes \subseteq {c, q.kind}
      BY <1>1, <1>6, <2>2
    <3> QED BY <1>2, <1>3, <2>2, <3>1 DEF HasClass
  <2> QED BY <1>4, <2>1, <2>2
<1> QED BY <1>5, <1>6

LEMMA OpenedIsPlacing ==
    ASSUME NEW W, NEW B, NEW p, IsReady(W, B, p), NEW f, f = W[Len(p.files)],
           NEW plan, plan = FilePlan(f, p.tier)
    PROVE  LET r == Classed(Opened(p, f, plan), f, plan)
           IN  /\ IsPlacing(W, B, r) /\ NoWhole(r)
               /\ Alone(f, plan) => IsClean(r)
               /\ Len(r.files) = Len(p.files) /\ r.tier = p.tier
<1> DEFINE o == Opened(p, f, plan)
           r == Classed(o, f, plan)
<1>1. IsOpened(W, B, p, o, f, plan)
  BY OpenedIsReady
<1> HIDE DEF o
<1>2. /\ IsOpen(W, B, o) /\ NoWhole(o) /\ EndsAreBefore(o, B, Len(p.files))
      /\ Len(o.files) = Len(p.files) /\ o.tier = p.tier
  BY <1>1 DEF IsOpened
<1>3. IsPacker(o) /\ Len(o.files) \in Nat
  BY <1>2, OpenIsPacker
<1>4. /\ r = [x \in PackerFields |-> r[x]]
      /\ r.tier = o.tier /\ r.units = o.units /\ r.trace = o.trace /\ r.buf = o.buf
      /\ r.pending = o.pending /\ r.votes = o.votes /\ r.piece = o.piece /\ r.failed = o.failed
      /\ r.files = o.files
      /\ r.kind = (IF Confident(f) /\ o.kind = NoKind THEN plan.kind ELSE o.kind)
      /\ r.current = (IF Confident(f) THEN Verdict(plan) ELSE Refused)
  BY <1>3 DEF Classed, IsPacker, PackerFields
<1> HIDE DEF r
<1>5. SameUnit(o, r)
  BY <1>3, <1>4 DEF SameUnit, IsPacker
<1>6. Full(W) => HasClass(W, r)
  <2>1. r.kind = o.kind \/ o.kind = NoKind
    BY <1>4
  <2>2. Full(W) => HasClass(W, o)
    BY <1>2 DEF IsOpen
  <2> QED BY <1>4, <2>1, <2>2, ClassIsTaken
<1>7. /\ IsOpen(W, B, r) /\ NoWhole(r) /\ EndsAreBefore(r, B, Len(p.files))
      /\ IsClean(o) => IsClean(r)
  BY <1>2, <1>5, <1>6, SameUnitIsOpen
<1>8. Full(W) /\ Confident(f) => r.kind = plan.kind
  BY <1>1, <1>4 DEF IsOpened
<1>9. IsPlacing(W, B, r)
  <2>1. Len(r.files) = Len(p.files) /\ r.tier = p.tier
    BY <1>2, <1>4
  <2>2. CurrentIs(W, r)
    BY <1>4, <2>1 DEF CurrentIs
  <2>3. Full(W) /\ Confident(f) => IsOfClass(W, r, FilePlan(f, r.tier).kind)
    BY <1>8, <2>1 DEF IsOfClass
  <2>4. Len(r.files) \in 1..Len(r.files)
    BY <2>1 DEF IsReady
  <2> QED BY <1>7, <2>1, <2>2, <2>3, <2>4 DEF IsPlacing
<1>10. Alone(f, plan) => IsClean(r)
  BY <1>1, <1>7 DEF IsOpened
<1> QED BY <1>2, <1>4, <1>7, <1>9, <1>10 DEF r, o

\* A file gets its size when it has been read, and the next one may be taken.
LEMMA FinishedRests ==
    ASSUME NEW W, NEW B, NEW p, IsOpen(W, B, p), NoWhole(p), NEW n, n = Len(p.files),
           EndsAreBefore(p, B, n + 1), p.failed \/ (Full(W) => IsSettled(p)), NEW size
    PROVE  LET q == Finished(p, n, size)
           IN  Rests(W, B, q) /\ Len(q.files) = n /\ q.tier = p.tier
<1> DEFINE q == Finished(p, n, size)
<1>1. IsPacker(p) /\ Len(p.files) \in Nat /\ p.buf \in Seq(Nat)
  BY OpenIsPacker
<1>2. /\ q = [x \in PackerFields |-> q[x]]
      /\ q.tier = p.tier /\ q.units = p.units /\ q.trace = p.trace /\ q.buf = p.buf
      /\ q.pending = p.pending /\ q.votes = p.votes /\ q.piece = p.piece /\ q.failed = p.failed
      /\ q.kind = p.kind /\ q.files = Sized(p.files, n, size)
  BY <1>1 DEF IsPacker, PackerFields, Sized, Finished
<1> HIDE DEF q
<1>3. AreEntries(q.files) /\ Len(q.files) = n
  BY <1>1, <1>2, SizedSameNames DEF IsPacker, SameNames
<1>4. SameUnit(p, q)
  <2>1. IsPacker(q)
    BY <1>1, <1>2, <1>3 DEF IsPacker
  <2> QED BY <1>1, <1>2, <1>3, <2>1 DEF SameUnit
<1>5. Full(W) => HasClass(W, q)
  BY <1>2 DEF IsOpen, HasClass, Midway
<1>6. IsOpen(W, B, q) /\ NoWhole(q) /\ EndsAreBefore(q, B, n + 1)
  BY <1>4, <1>5, SameUnitIsOpen
<1>7. q.failed \/ (Full(W) => IsSettled(q))
  BY <1>2 DEF IsSettled
<1> QED BY <1>2, <1>3, <1>6, <1>7 DEF Rests, q

LEMMA EndsAfter ==
    ASSUME NEW W, NEW B, NEW p, IsOpen(W, B, p), NEW n \in Nat, EndsAreBefore(p, B, n)
    PROVE  EndsAreBefore(p, B, n + 1)
<1>1. IsLog(p, B) /\ n + 1 \in Nat /\ n <= n + 1
  BY OpenIsPacker
<1> QED BY <1>1, EndsLater

\* A file that is not cut by its header is placed and, where it has to be alone, flushed.
LEMMA PlacedRests ==
    ASSUME NEW W, NEW B, NEW p, IsPlacing(W, B, p), NoWhole(p), NEW n, n = Len(p.files),
           n \in 1..Len(W), NEW f, f = W[n], IsFile(f), f.len > 0, ~Splits(f), NEW plan,
           Alone(f, plan) => IsClean(p)
    PROVE  LET q == AddOpened(p, f, plan)
           IN  Rests(W, B, q) /\ Len(q.files) = n /\ q.tier = p.tier
<1> DEFINE items == ItemsOf(f)
           q == PlacedAll(p, n, items)
           s == IF Alone(f, plan) THEN Flush(q, "Solo") ELSE q
           r == Finished(s, n, Len(f.cells))
<1>1. n \in Nat
  BY OpenIsPacker DEF IsPlacing
<1>2. Recompressible(f) => Alone(f, plan)
  BY DEF Alone
<1>3. /\ IsPlacing(W, B, q) /\ Len(q.files) = n /\ q.tier = p.tier
      /\ ~Recompressible(f) => NoWhole(q)
      /\ f.cells # <<>> => IsSettled(q)
  <2>1. AreItems(W[n], items) /\ (Recompressible(W[n]) => IsClean(p))
    BY <1>2, ItemsAreItems
  <2> HIDE DEF items, q
  <2>2. /\ IsPlacing(W, B, q) /\ Len(q.files) = n /\ q.tier = p.tier
        /\ ~Recompressible(W[n]) => NoWhole(q)
        /\ W[n].cells # <<>> => IsSettled(q)
    BY <2>1, PlacedAllIsPlacing DEF q
  <2> QED BY <2>2
<1>4. AddOpened(p, f, plan) = r
  BY <1>3 DEF AddOpened, Done, ItemsOf, Finished
<1> HIDE DEF q, items
<1>5. IsOpen(W, B, q) /\ EndsAreBefore(q, B, n)
  BY <1>3 DEF IsPlacing
<1>6. Full(W) => IsSettled(q)
  BY <1>3 DEF Full
<1>7. IsOpen(W, B, s) /\ NoWhole(s) /\ EndsAreBefore(s, B, n) /\ Len(s.files) = n /\ s.tier = q.tier
      /\ (Full(W) => IsSettled(s))
  <2>1. CASE Alone(f, plan)
    <3> DEFINE t == Flush(q, "Solo")
    <3>1. /\ IsOpen(W, B, t) /\ EndsAreBefore(t, B, n) /\ IsClean(t) /\ NoWhole(t)
          /\ Len(t.files) = Len(q.files) /\ t.tier = q.tier
          /\ q.buf # <<>> => t.kind = NoKind
          /\ q.buf = <<>> => t.kind = q.kind
      BY <1>5, FlushIsOpen
    <3>2. s = t
      BY <2>1
    <3> HIDE DEF t, s
    <3>3. Full(W) => IsSettled(t)
      BY <1>6, <3>1 DEF IsSettled
    <3> QED BY <1>3, <3>1, <3>2, <3>3
  <2>2. CASE ~Alone(f, plan)
    <3>1. s = q
      BY <2>2
    <3> HIDE DEF s
    <3> QED BY <1>2, <1>3, <1>5, <1>6, <2>2, <3>1
  <2> QED BY <2>1, <2>2
<1> HIDE DEF s
<1>8. EndsAreBefore(s, B, n + 1)
  BY <1>1, <1>7, EndsAfter
<1>9. Rests(W, B, r) /\ Len(r.files) = n /\ r.tier = s.tier
  <2>1. n = Len(s.files) /\ (s.failed \/ (Full(W) => IsSettled(s)))
    BY <1>7
  <2> QED BY <1>7, <1>8, <2>1, FinishedRests
<1> QED BY <1>3, <1>4, <1>7, <1>9

----------------------------------------------------------------------------
(* A .wav that is cut by its header.                                         *)

\* A piece that is not the last is a whole number of frames.
LEMMA WholeFrames ==
    ASSUME NEW k \in Nat, NEW frame \in Nat \ {0}
    PROVE  (k * frame) % frame = 0
<1> DEFINE x == k * frame
           a == x \div frame
           r == x % frame
           e == k - a
<1>1. x \in Nat /\ a \in Int /\ r \in 0..(frame - 1) /\ x = frame * a + r /\ e \in Int
  OBVIOUS
<1>2. x = frame * k /\ k = a + e
  BY <1>1
<1> HIDE DEF e, r, a, x
<1>3. frame * e = r
  <2>1. frame * (a + e) = frame * a + frame * e
    BY <1>1
  <2> QED BY <1>1, <1>2, <2>1
<1>4. CASE e = 0
  BY <1>3, <1>4 DEF r, x
<1>5. CASE e >= 1
  <2>1. frame * e >= frame
    BY <1>1, <1>5
  <2> QED BY <1>1, <1>3, <2>1
<1>6. CASE e <= -1
  <2>1. frame * e < 0
    BY <1>1, <1>6
  <2> QED BY <1>1, <1>3, <2>1
<1> QED BY <1>1, <1>4, <1>5, <1>6

\* Every piece has some cells, and none but the last ends between two frames.
LEMMA PieceIsSome ==
    ASSUME NEW o \in Nat, NEW L \in Nat \ {0}, NEW m \in Nat \ {0}, NEW F \in Nat, o + L <= F,
           NEW d \in Nat, d < L,
           NEW run, run = IF m < L - d THEN m ELSE L - d,
           NEW from, from = IF d = 0 THEN 0 ELSE o + d,
           NEW upto, upto = IF d + run = L THEN F ELSE o + d + run
    PROVE  /\ from \in 0..F /\ upto \in 0..F /\ from < upto /\ run \in Nat
           /\ run = m \/ d + m >= L
<1>1. run \in Nat \ {0} /\ d + run <= L
  OBVIOUS
<1>2. from \in Nat /\ from <= o + d
  OBVIOUS
<1>3. upto >= o + d + run /\ upto <= F /\ upto \in Nat
  BY <1>1
<1> QED BY <1>1, <1>2, <1>3

\* Where the .wav that is file n ends: before h in the order of the files.
IsCut(W, B, p, n, h) ==
    /\ IsOpen(W, B, p) /\ NoWhole(p) /\ IsClean(p) /\ EndsAreBefore(p, B, h)
    /\ Len(p.files) = n

\* A unit with one part has one class.
LEMMA OneHasOneClass ==
    ASSUME NEW W, NEW tier, NEW x
    PROVE  OneClass(W, tier, Append(<<>>, x))
<1> DEFINE xs == Append(<<>>, x)
           c == PlanFor(W, tier, x).kind
<1>1. OneMore(<<>>, xs, x)
  BY EmptyIsSeq, AppendedIsMore
<1> DEFINE S == {c}
<1>2. ClassesOf(W, tier, <<>>) \subseteq S /\ PlanFor(W, tier, x).kind \in S
  BY NothingPends
<1> HIDE DEF xs, S
<1>3. ClassesOf(W, tier, xs) \subseteq S
  BY <1>1, <1>2, OneClassMore
<1> USE DEF S
<1> QED BY <1>3 DEF OneClass, xs

\* A piece by itself becomes a unit, and the .wav has come to its end with the last one.
LEMMA PieceLogs ==
    ASSUME NEW W, NEW B, NEW f, IsFile(f), Splits(f), NEW riff, riff = LookOf(f.cells).riff,
           Len(f.cells) >= f.len, NEW k \in 0..(PieceCount(riff) - 1),
           NEW p, NEW n, n \in 1..n, IsCut(W, B, p, n, n)
    PROVE  LET q == WavPiece(p, f, riff, k * PieceLength(riff))
           IN  /\ IsCut(W, B, q, n, n + 1) /\ q.kind = NoKind /\ q.tier = p.tier
               /\ k < PieceCount(riff) - 1 => IsCut(W, B, q, n, n)
<1> DEFINE m == PieceLength(riff)
           L == riff.len
           o == riff.off
           F == f.len
           d == k * m
           run == IF m < L - d THEN m ELSE L - d
           from == IF d = 0 THEN 0 ELSE o + d
           upto == IF d + run = L THEN F ELSE o + d + run
           x == [file |-> Len(p.files), off |-> 0, len |-> upto - from]
           piece == [start |-> IF d = 0 THEN o ELSE 0, len |-> run, frame |-> riff.frame]
           item == SubSeq(f.cells, from + 1, upto)
           q == [p EXCEPT !.buf = item, !.pending = Append(@, x), !.kind = "wav", !.piece = piece]
           h == IF k < PieceCount(riff) - 1 THEN n ELSE n + 1
<1>1. WavPiece(p, f, riff, d) = Flush(q, "Solo")
  BY DEF WavPiece
<1>2. /\ riff.frame \in Nat \ {0} /\ o \in Nat /\ L \in Nat \ {0} /\ m \in Nat \ {0}
      /\ PieceCount(riff) \in Nat /\ F \in Nat /\ o + L <= F
  BY PiecesAreCounted DEF IsFile
<1>3. /\ d \in Nat /\ d < L
      /\ d + m >= L => k = PieceCount(riff) - 1
  <2> DEFINE K == PieceCount(riff)
  <2>1. \A j \in 0..(K - 1) : j * m < L
    <3>1. K = (L + m - 1) \div m
      BY DEF PieceCount
    <3> HIDE DEF m, L, K
    <3> QED BY <1>2, <3>1, PiecesReach
  <2>2. k \in Nat /\ k + 1 \in Nat /\ d = k * m /\ K \in Nat /\ k \in 0..(K - 1)
    BY <1>2
  <2> HIDE DEF m, L, K, d
  <2>3. d \in Nat /\ (k + 1) * m = d + m /\ d < L
    BY <1>2, <2>1, <2>2, TimesNext
  <2>4. ASSUME d + m >= L
        PROVE  k = K - 1
    <3> SUFFICES ASSUME k # K - 1 PROVE FALSE
      OBVIOUS
    <3>1. k + 1 \in 0..(K - 1)
      BY <2>2
    <3>2. (k + 1) * m < L
      BY <2>1, <3>1
    <3> QED BY <1>2, <2>3, <2>4, <3>2
  <2> QED BY <2>3, <2>4 DEF K
<1>4. /\ from \in 0..F /\ upto \in 0..F /\ from < upto /\ run \in Nat
      /\ run = m \/ d + m >= L
  <2>1. /\ run = IF m < L - d THEN m ELSE L - d
        /\ from = IF d = 0 THEN 0 ELSE o + d
        /\ upto = IF d + run = L THEN F ELSE o + d + run
    OBVIOUS
  <2> HIDE DEF m, L, o, F, d, run, from, upto
  <2> QED BY <1>2, <1>3, <2>1, PieceIsSome
<1>5. m % riff.frame = 0
  <2> DEFINE b == riff.frame
             a == Target \div b
  <2>1. a \in Nat
    <3>1. Target \in Nat /\ b \in Nat \ {0}
      BY <1>2, GeometryAssumption
    <3> HIDE DEF b
    <3> QED BY <3>1
  <2>2. m = a * b
    BY DEF PieceLength
  <2> HIDE DEF a, b, m
  <2>3. (a * b) % b = 0
    BY <1>2, <2>1, WholeFrames DEF b
  <2> QED BY <2>2, <2>3 DEF b
<1>6. /\ piece \in [start: Nat, len: Nat, frame: Nat]
      /\ IsOdd(piece) => k = PieceCount(riff) - 1
  <2>1. piece.len = run /\ piece.frame = riff.frame
    OBVIOUS
  <2>2. IsOdd(piece) => run # m
    BY <1>5, <2>1 DEF IsOdd
  <2> HIDE DEF run, m, d, L, o
  <2> QED BY <1>2, <1>3, <1>4, <2>2
<1>7. piece # Refused
  BY <1>6, RefusedAssumption
<1> HIDE DEF piece
<1>8. item \in Seq(Nat) /\ item # <<>>
  <2> DEFINE cells == f.cells
  <2>1. cells \in Seq(Nat) /\ Len(cells) \in Nat /\ Len(cells) >= F
    BY DEF IsFile
  <2> HIDE DEF cells, from, upto, F
  <2>2. from \in 0..Len(cells) /\ upto \in 0..Len(cells) /\ from <= upto /\ from < upto
    <3>1. F \in Nat /\ from \in 0..F /\ upto \in 0..F /\ from < upto
      BY <1>2, <1>4
    <3> QED BY <2>1, <3>1
  <2>3. SubSeq(cells, from + 1, upto) \in Seq(Nat) /\ Len(SubSeq(cells, from + 1, upto)) = upto - from
    BY <2>1, <2>2, CutInTwo
  <2>4. Len(SubSeq(cells, from + 1, upto)) # 0
    BY <2>2, <2>3
  <2>5. SubSeq(cells, from + 1, upto) # <<>>
    BY <2>4, EmptyIsSeq
  <2> QED BY <2>3, <2>5 DEF cells
<1>9. x.file = n
  BY DEF IsCut
<1> HIDE DEF item, x, from, upto, run, d, m, L, o, F
<1>10. /\ IsOpen(W, B, p) /\ IsClean(p) /\ EndsAreBefore(p, B, n) /\ Len(p.files) = n /\ n \in Nat
  BY OpenIsPacker DEF IsCut
<1>11. /\ IsPacker(p) /\ Logged(W, B, p)
  BY <1>10, OpenIsPacker
<1>12. /\ q = [y \in PackerFields |-> q[y]]
       /\ q.units = p.units /\ q.files = p.files /\ q.buf = item /\ q.tier = p.tier
       /\ q.pending = Append(p.pending, x) /\ q.piece = piece /\ q.trace = p.trace
       /\ q.failed = p.failed
  BY <1>11 DEF IsPacker, PackerFields
<1> HIDE DEF q
<1>13. p.pending = <<>>
  BY <1>10 DEF IsClean
<1>14. /\ IsSeq(q.pending) /\ Len(q.pending) = 1 /\ q.pending[1] = x
  <2> DEFINE s == <<>>
             t == Append(s, x)
  <2>1. IsSeq(s) /\ Len(s) = 0
    BY EmptyIsSeq
  <2> HIDE DEF s
  <2>2. IsSeq(t) /\ Len(t) = Len(s) + 1 /\ t[Len(s) + 1] = x
    BY <2>1, AppendAny
  <2>3. q.pending = t
    BY <1>12, <1>13 DEF s
  <2> HIDE DEF t
  <2> QED BY <2>1, <2>2, <2>3
<1>15. IsPacker(q)
  BY <1>11, <1>12, <1>14 DEF IsPacker
<1>16. SameLog(p, q)
  BY <1>8, <1>10, <1>12, <1>15 DEF SameLog
<1>17. /\ Logged(W, B, q) /\ EndsAreBefore(q, B, n)
       /\ \A j : OddAt(q, B, j) <=> OddAt(p, B, j)
  BY <1>10, <1>11, <1>16, SameLogIsLogged
<1>18. IsFilled(q)
  BY <1>9, <1>10, <1>12, <1>14 DEF IsFilled
<1>19. WillBeElected(W, q)
  BY <1>7, <1>12 DEF WillBeElected
<1>20. MayClose(W, q)
  BY <1>12, <1>13, OneHasOneClass DEF MayClose
<1>21. IsNoEnd(q, B)
  <2> SUFFICES ASSUME NEW j \in 1..Len(q.trace), OddAt(q, B, j)
               PROVE  n # q.trace[j].parts[1].file
    BY <1>9, <1>14 DEF IsNoEnd
  <2>1. q.trace[j].parts[1].file < n
    BY <1>17 DEF EndsAreBefore
  <2> QED BY <1>10, <2>1
<1>22. EndsAreBefore(q, B, n + 1)
  <2>1. n <= n + 1 /\ n + 1 \in Nat /\ IsLog(q, B)
    BY <1>10, <1>17 DEF Logged
  <2> QED BY <1>10, <1>17, <2>1, EndsLater
<1>23. EndsAreBefore(q, B, h) /\ (IsOdd(q.piece) => q.pending[1].file < h)
  <2>1. CASE k < PieceCount(riff) - 1
    <3>1. ~IsOdd(q.piece) /\ h = n
      BY <1>2, <1>6, <1>12, <2>1
    <3> QED BY <1>17, <3>1
  <2>2. CASE ~(k < PieceCount(riff) - 1)
    <3>1. h = n + 1
      BY <2>2
    <3> QED BY <1>9, <1>10, <1>14, <1>22, <3>1
  <2> QED BY <2>1, <2>2
<1> DEFINE r == Flush(q, "Solo")
<1> HIDE DEF h
<1>24. /\ Logged(W, B, r) /\ EndsAreBefore(r, B, h)
       /\ Len(r.files) = Len(q.files) /\ r.tier = q.tier
       /\ IsClean(r) /\ r.kind = NoKind /\ r.piece = Refused /\ r.votes = NoVotes
  <2>1. Logged(W, B, q) /\ q.buf # <<>> /\ (Full(W) => MayClose(W, q))
    BY <1>8, <1>12, <1>17, <1>20
  <2>2. IsFilled(q) /\ WillBeElected(W, q) /\ IsNoEnd(q, B)
    BY <1>18, <1>19, <1>21
  <2> HIDE DEF r
  <2> QED BY <2>1, <2>2, <1>23, FlushLogs DEF r
<1> HIDE DEF r
<1>25. AreVotes(r.votes) /\ \A v \in DOMAIN r.votes : r.votes[v] = 0
  BY <1>24 DEF AreVotes, NoVotes
<1>26. IsOpen(W, B, r) /\ NoWhole(r)
  BY <1>24, <1>25, NothingIsOpen
<1>27. IsCut(W, B, r, n, h)
  BY <1>10, <1>12, <1>24, <1>26 DEF IsCut
<1>28. IsCut(W, B, r, n, n + 1)
  <2>1. h = n => EndsAreBefore(r, B, n + 1)
    BY <1>10, <1>26, <1>27, EndsAfter DEF IsCut
  <2> QED BY <1>27, <2>1 DEF IsCut, h
<1>29. k < PieceCount(riff) - 1 => IsCut(W, B, r, n, n)
  BY <1>27 DEF h
<1> QED BY <1>1, <1>12, <1>24, <1>28, <1>29 DEF r, d, m

LEMMA PiecesLog ==
    ASSUME NEW W, NEW B, NEW f, IsFile(f), Splits(f), NEW riff, riff = LookOf(f.cells).riff,
           Len(f.cells) >= f.len, NEW p, NEW n, n \in 1..n, IsCut(W, B, p, n, n)
    PROVE  LET q == PiecesOf(p, f, riff, [k \in 1..PieceCount(riff) |-> k])
           IN  IsCut(W, B, q, n, n + 1) /\ q.kind = NoKind /\ q.tier = p.tier
<1> DEFINE K == PieceCount(riff)
           seq == [k \in 1..K |-> k]
<1>1. K \in Nat \ {0}
  <2> DEFINE L == riff.len
             m == PieceLength(riff)
  <2>1. K = (L + m - 1) \div m /\ L \in Nat \ {0} /\ m \in Nat \ {0}
    BY PiecesAreCounted DEF PieceCount
  <2> HIDE DEF K, L, m
  <2> QED BY <2>1, PiecesReach
<1>2. IsSeq(seq) /\ Len(seq) = K /\ \A k \in 1..K : seq[k] = k
  BY <1>1, NumberedIsSeq
<1> HIDE DEF seq, K
<1>3. PICK g : /\ IsRun(g, "wav", [f |-> f, riff |-> riff], p, seq)
               /\ g[Len(seq)] = PiecesOf(p, f, riff, seq)
  BY <1>2, PiecesRun
<1> DEFINE T == { k \in Nat : k <= K =>
                    /\ g[k].tier = p.tier
                    /\ k > 0 => g[k].kind = NoKind /\ IsCut(W, B, g[k], n, n + 1)
                    /\ k < K => IsCut(W, B, g[k], n, n) }
<1>4. 0 \in T
  BY <1>3 DEF IsRun
<1>5. ASSUME NEW k \in Nat, k \in T PROVE k + 1 \in T
  <2> SUFFICES ASSUME k + 1 <= K
               PROVE  /\ g[k + 1].tier = p.tier /\ g[k + 1].kind = NoKind
                      /\ IsCut(W, B, g[k + 1], n, n + 1)
                      /\ k + 1 < K => IsCut(W, B, g[k + 1], n, n)
    OBVIOUS
  <2> DEFINE r == g[k]
             q == WavPiece(r, f, riff, k * PieceLength(riff))
  <2>1. /\ k \in 0..(K - 1) /\ k + 1 \in 1..K /\ k < K /\ r.tier = p.tier
        /\ IsCut(W, B, r, n, n)
    BY <1>1, <1>5
  <2>2. g[k + 1] = q
    <3>1. g[k + 1] = OneStep("wav", [f |-> f, riff |-> riff], g[k], seq[k + 1])
      BY <1>2, <1>3, <2>1 DEF IsRun
    <3>2. seq[k + 1] = k + 1 /\ (k + 1) - 1 = k
      BY <1>2, <2>1
    <3> QED BY <3>1, <3>2 DEF OneStep
  <2> HIDE DEF T, r
  <2>3. /\ IsCut(W, B, q, n, n + 1) /\ q.kind = NoKind /\ q.tier = r.tier
        /\ k < K - 1 => IsCut(W, B, q, n, n)
    BY <2>1, PieceLogs DEF K
  <2> HIDE DEF q
  <2>4. k + 1 < K => k < K - 1
    BY <1>1
  <2> QED BY <2>1, <2>2, <2>3, <2>4
<1> HIDE DEF T
<1>6. K \in T /\ K <= K /\ K > 0
  BY <1>1, <1>4, <1>5, Counting
<1> QED BY <1>2, <1>3, <1>6 DEF T, seq, K

LEMMA SplitRests ==
    ASSUME NEW W, NEW B, NEW p, IsOpen(W, B, p), NoWhole(p), NEW n, n = Len(p.files), n \in 1..n,
           EndsAreBefore(p, B, n), NEW f, IsFile(f), Splits(f), NEW plan
    PROVE  LET q == AddOpened(p, f, plan)
           IN  Rests(W, B, q) /\ Len(q.files) = n /\ q.tier = p.tier
<1> DEFINE riff == LookOf(f.cells).riff
           q == WavSplit(p, f, riff)
           r == Finished(q, n, f.len)
<1>1. AddOpened(p, f, plan) = r
  BY DEF AddOpened, Finished
<1>2. IsPacker(p) /\ p.buf \in Seq(Nat) /\ n \in Nat
  BY OpenIsPacker
<1> HIDE DEF riff
<1>3. /\ IsOpen(W, B, q) /\ NoWhole(q) /\ EndsAreBefore(q, B, n + 1) /\ n = Len(q.files)
      /\ q.tier = p.tier
      /\ q.failed \/ (Full(W) => IsSettled(q))
  <2>1. CASE Len(f.cells) < f.len
    <3>1. q = [p EXCEPT !.failed = TRUE]
      BY <2>1 DEF WavSplit
    <3>2. /\ q = [x \in PackerFields |-> q[x]]
          /\ q.tier = p.tier /\ q.units = p.units /\ q.trace = p.trace /\ q.buf = p.buf
          /\ q.pending = p.pending /\ q.votes = p.votes /\ q.piece = p.piece /\ q.failed
          /\ q.kind = p.kind /\ q.files = p.files
      BY <1>2, <3>1 DEF IsPacker, PackerFields
    <3> HIDE DEF q
    <3>3. SameUnit(p, q)
      BY <1>2, <3>2 DEF SameUnit, IsPacker
    <3>4. Full(W) => HasClass(W, q)
      BY <3>2 DEF IsOpen, HasClass, Midway
    <3>5. EndsAreBefore(p, B, n + 1)
      BY <1>2, EndsAfter
    <3>6. IsOpen(W, B, q) /\ NoWhole(q) /\ EndsAreBefore(q, B, n + 1)
      BY <3>3, <3>4, <3>5, SameUnitIsOpen
    <3> QED BY <3>2, <3>6
  <2>2. CASE ~(Len(f.cells) < f.len)
    <3> DEFINE s == Flush(p, "BeforeSolo")
               seq == [k \in 1..PieceCount(riff) |-> k]
    <3>1. q = PiecesOf(s, f, riff, seq)
      BY <2>2 DEF WavSplit, PiecesOf, PieceCount
    <3>2. /\ IsOpen(W, B, s) /\ EndsAreBefore(s, B, n) /\ IsClean(s) /\ NoWhole(s)
          /\ Len(s.files) = n /\ s.tier = p.tier
      BY FlushIsOpen
    <3> HIDE DEF s
    <3>3. IsCut(W, B, s, n, n)
      BY <3>2 DEF IsCut
    <3>4. Len(f.cells) >= f.len /\ riff = LookOf(f.cells).riff
      BY <2>2 DEF IsFile, riff
    <3> HIDE DEF q
    <3>5. IsCut(W, B, q, n, n + 1) /\ q.kind = NoKind /\ q.tier = s.tier
      BY <3>1, <3>3, <3>4, PiecesLog
    <3> QED BY <3>2, <3>5 DEF IsCut, IsSettled
  <2> QED BY <2>1, <2>2
<1> HIDE DEF q
<1>4. Rests(W, B, r) /\ Len(r.files) = n /\ r.tier = q.tier
  BY <1>3, FinishedRests
<1> QED BY <1>1, <1>3, <1>4 DEF q, riff

----------------------------------------------------------------------------
(* An add from its beginning.                                                *)

LEMMA AddFileRests ==
    ASSUME NEW W, NEW B, NEW p, Rests(W, B, p), ~p.failed, IsSeq(W), Len(W) = Len(p.files),
           NEW f, IsFile(f)
    PROVE  LET q == AddFile(p, f)
           IN  Rests(Append(W, f), B, q) /\ q.tier = p.tier
<1> DEFINE V == Append(W, f)
           q == Listed(p, f)
           plan == FilePlan(f, p.tier)
           r == Classed(Opened(q, f, plan), f, plan)
           n == Len(q.files)
           s == AddOpened(r, f, plan)
<1>1. /\ IsReady(V, B, q) /\ V[n] = f /\ q.tier = p.tier
      /\ n = Len(V) /\ Len(V) = Len(W) + 1 /\ IsSeq(V)
  BY ListedIsReady
<1>2. CASE f.len = 0
  <2>1. AddFile(p, f) = q
    BY <1>2 DEF AddFile
  <2> HIDE DEF q, V
  <2>2. /\ IsOpen(V, B, q) /\ NoWhole(q) /\ EndsAreBefore(q, B, n) /\ (Full(V) => IsSettled(q))
    BY <1>1 DEF IsReady
  <2>3. n \in Nat
    BY <2>2, OpenIsPacker
  <2>4. EndsAreBefore(q, B, n + 1)
    BY <2>2, <2>3, EndsAfter
  <2> QED BY <1>1, <2>1, <2>2, <2>4 DEF Rests, V
<1>3. CASE f.len # 0
  <2>1. AddFile(p, f) = s
    BY <1>3 DEF AddFile, AddPlanned
  <2> HIDE DEF q, V
  <2>2. /\ IsPlacing(V, B, r) /\ NoWhole(r)
        /\ Alone(f, plan) => IsClean(r)
        /\ Len(r.files) = n /\ r.tier = q.tier
    <3>1. f = V[Len(q.files)] /\ plan = FilePlan(f, q.tier)
      BY <1>1
    <3> HIDE DEF plan
    <3> QED BY <1>1, <3>1, OpenedIsPlacing
  <2> HIDE DEF r, plan
  <2>3. n = Len(r.files) /\ n \in 1..n /\ n \in 1..Len(V) /\ f = V[n]
    BY <1>1, <2>2 DEF IsReady
  <2>4. CASE Splits(f)
    <3>1. IsOpen(V, B, r) /\ EndsAreBefore(r, B, n)
      BY <2>2 DEF IsPlacing
    <3> HIDE DEF n
    <3>2. Rests(V, B, s) /\ Len(s.files) = n /\ s.tier = r.tier
      BY <2>2, <2>3, <2>4, <3>1, SplitRests
    <3> QED BY <1>1, <2>1, <2>2, <3>2 DEF V
  <2>5. CASE ~Splits(f)
    <3>1. f.len > 0
      BY <1>3 DEF IsFile
    <3> HIDE DEF n
    <3>2. Rests(V, B, s) /\ Len(s.files) = n /\ s.tier = r.tier
      BY <2>2, <2>3, <2>5, <3>1, PlacedRests
    <3> QED BY <1>1, <2>1, <2>2, <3>2 DEF V
  <2> QED BY <2>4, <2>5
<1> QED BY <1>2, <1>3

LEMMA NewPackerRests ==
    ASSUME NEW U, AreUnits(U), NEW tier, NEW claims
    PROVE  Rests(<<>>, Len(U), NewPacker(tier, U, claims))
<1> DEFINE p == NewPacker(tier, U, claims)
           B == Len(U)
           none == <<>>
<1>1. /\ p = [x \in PackerFields |-> p[x]]
      /\ p.units = U /\ p.files = none /\ p.buf = none /\ p.kind = NoKind /\ p.pending = none
      /\ p.votes = NoVotes /\ p.piece = Refused /\ p.trace = none /\ ~p.failed
  BY DEF NewPacker, PackerFields
<1>2. IsSeq(none) /\ Len(none) = 0 /\ none \in Seq(Nat) /\ 1..0 = {}
  <2>1. <<>> \in Seq(Nat)
    OBVIOUS
  <2> QED BY <2>1, EmptyIsSeq
<1>3. B \in Nat /\ (B + 1)..B = {} /\ B <= B
  BY SeqFacts DEF AreUnits
<1>4. IsClean(p)
  BY <1>1 DEF IsClean
<1> HIDE DEF p, B, none
<1>5. IsLog(p, B)
  <2>1. IsPacker(p)
    BY <1>1, <1>2 DEF IsPacker, AreEntries
  <2> QED BY <1>1, <1>2, <1>3, <2>1 DEF IsLog, B
<1>6. Logged(none, B, p)
  BY <1>1, <1>2, <1>5 DEF Logged, IsSmall, AreElected, AreEnds, IsGrouped
<1>7. AreVotes(p.votes) /\ \A v \in DOMAIN p.votes : p.votes[v] = 0
  BY <1>1 DEF AreVotes, NoVotes
<1>8. IsOpen(none, B, p) /\ NoWhole(p)
  BY <1>1, <1>4, <1>6, <1>7, NothingIsOpen
<1>9. EndsAreBefore(p, B, Len(p.files) + 1) /\ IsSettled(p)
  BY <1>1, <1>2 DEF EndsAreBefore, IsSettled
<1> QED BY <1>8, <1>9 DEF Rests, p, B, none

----------------------------------------------------------------------------
(* The invariant of the log.                                                 *)

LEMMA BeginAddLogs ==
    ASSUME BytesInv, BeginAdd
    PROVE  LogInv'
<1> DEFINE p == NewPacker(Now.tier, units, Claims)
<1>1. add'.work = <<>> /\ add'.p = p /\ units' = units
  <2>1. add' = [on |-> TRUE, at |-> 0, work |-> <<>>, p |-> p]
    BY DEF BeginAdd
  <2> HIDE DEF p
  <2> QED BY <2>1 DEF BeginAdd
<1>2. Rests(<<>>, Len(units), p)
  BY NewPackerRests DEF BytesInv, Held
<1> HIDE DEF p
<1> QED BY <1>1, <1>2 DEF LogInv

LEMMA TakeFileLogs ==
    ASSUME TreeInv, BytesInv, LogInv, NEW i \in DOMAIN Catalogue, TakeFile(i)
    PROVE  LogInv'
<1> DEFINE f == Catalogue[i]
           p == add.p
           W == add.work
           B == Len(units)
<1>1. /\ add = [x \in AddFields |-> add[x]] /\ IsSeq(W) /\ ~p.failed /\ Len(W) = Len(p.files)
      /\ Rests(W, B, p) /\ units' = units
  BY DEF TreeInv, TakeFile, AddRuns, IsWork, BytesInv, IsPacked, LogInv
<1>2. IsFile(f)
  BY CatalogueAssumption DEF IsFile
<1>3. add'.work = Append(W, f) /\ add'.p = AddFile(p, f)
  <2> HIDE DEF f
  <2>1. add' = [add EXCEPT !.at = i, !.work = Append(@, f), !.p = AddFile(@, f)]
    BY DEF TakeFile, f
  <2> QED BY <1>1, <2>1 DEF AddFields
<1> HIDE DEF f, p, W
<1>4. Rests(Append(W, f), B, AddFile(p, f))
  BY <1>1, <1>2, AddFileRests
<1> QED BY <1>1, <1>3, <1>4 DEF LogInv

LEMMA LogStep ==
    ASSUME TreeInv, BytesInv, LogInv, [Next]_vars
    PROVE  LogInv'
<1>1. CASE BeginAdd
  BY <1>1, BeginAddLogs
<1>2. CASE \E i \in DOMAIN Catalogue : add.on /\ i \in Now.files /\ TakeFile(i)
  BY <1>2, TakeFileLogs
<1>3. CASE FinishAdd
  BY <1>3 DEF FinishAdd, Idle, LogInv
<1>4. CASE AddFails
  BY <1>4 DEF AddFails, Idle, LogInv
<1>5. CASE \E m \in Moves : Rename(m[1], m[2])
  BY <1>5 DEF Rename, Edit, LogInv
<1>6. CASE \E s \in Selections : RemovePaths(s)
  BY <1>6 DEF RemovePaths, Edit, LogInv
<1>7. CASE Compact
  BY <1>7 DEF Compact, Edit, LogInv
<1>8. CASE UNCHANGED vars
  BY <1>8 DEF vars, LogInv
<1> QED BY <1>1, <1>2, <1>3, <1>4, <1>5, <1>6, <1>7, <1>8 DEF Next

THEOREM LogInvHolds == Spec => []LogInv
<1>1. Init => LogInv
  BY DEF Init, Idle, LogInv
<1>2. TreeInv /\ BytesInv /\ LogInv /\ [Next]_vars => LogInv'
  BY LogStep
<1> QED BY TreeInvHolds, BytesInvHolds, <1>1, <1>2, PTL DEF Spec

----------------------------------------------------------------------------
(* What the invariant says of the log of an add that ended here.             *)

LEMMA TheLogIs ==
    ASSUME TreeInv, LogInv, add.on
    PROVE  /\ Logged(add.work, Len(units), Ended)
           /\ Log = Ended.trace /\ DOMAIN Log = 1..Len(Log) /\ Len(Log) \in Nat
           /\ Ended.tier = add.p.tier /\ IsSeq(add.work)
<1>1. Rests(add.work, Len(units), add.p)
  BY DEF LogInv
<1>2. IsOpen(add.work, Len(units), add.p) /\ EndsAreBefore(add.p, Len(units), Len(add.p.files) + 1)
  BY <1>1 DEF Rests
<1>3. IsOpen(add.work, Len(units), Ended) /\ Ended.tier = add.p.tier
  BY <1>2, FlushIsOpen DEF Ended
<1>4. Logged(add.work, Len(units), Ended) /\ IsLog(Ended, Len(units))
  BY <1>3, OpenIsPacker
<1>5. Log = Ended.trace
  BY DEF Log
<1>6. IsSeq(Log)
  BY <1>4, <1>5 DEF IsLog
<1> QED BY <1>3, <1>4, <1>5, <1>6, SeqFacts DEF TreeInv, AddRuns, IsWork

\* An entry of the log, in the words of the properties and in those of the invariant.
LEMMA EntriesAre ==
    ASSUME TreeInv, LogInv, add.on, NEW n \in DOMAIN Log
    PROVE  LET t == Log[n]
               W == add.work
               tier == Ended.tier
           IN  /\ n \in 1..Len(Log) /\ IsSeq(t.parts) /\ Len(t.parts) > 0
               /\ DOMAIN t.parts = 1..Len(t.parts)
               /\ New(t, n) <=> NewAt(Log, Len(units), n)
               /\ Voters(t) = { k \in 1..Len(t.parts) : IsVoter(W, t.parts[k]) }
               /\ Voters(t) # {} <=> HasVoter(W, t.parts)
               /\ Classes(t) = ClassesOf(W, tier, t.parts)
               /\ \A v : Behind(t, v) = BehindIn(W, tier, t.parts, v)
               /\ \A k : FilePlan(FileOf(t.parts[k]), add.p.tier) = PlanFor(W, tier, t.parts[k])
<1> DEFINE t == Log[n]
           W == add.work
           tier == Ended.tier
<1>1. /\ IsLog(Ended, Len(units)) /\ Log = Ended.trace /\ n \in 1..Len(Log) /\ tier = add.p.tier
  BY TheLogIs DEF Logged
<1>2. IsSeq(t.parts) /\ Len(t.parts) > 0
  BY <1>1 DEF IsLog
<1>3. DOMAIN t.parts = 1..Len(t.parts)
  BY <1>2, SeqFacts
<1>4. New(t, n) <=> NewAt(Log, Len(units), n)
  BY DEF New, NewAt
<1> HIDE DEF t, tier
<1>5. \A k : FileOf(t.parts[k]) = W[t.parts[k].file]
  BY DEF FileOf
<1>6. Voters(t) = { k \in 1..Len(t.parts) : IsVoter(W, t.parts[k]) }
  BY <1>3, <1>5 DEF Voters, IsVoter
<1>7. Voters(t) # {} <=> HasVoter(W, t.parts)
  BY <1>6 DEF HasVoter
<1>8. \A k : FilePlan(FileOf(t.parts[k]), add.p.tier) = PlanFor(W, tier, t.parts[k])
  BY <1>1, <1>5 DEF PlanFor
<1>9. Classes(t) = ClassesOf(W, tier, t.parts)
  BY <1>6, <1>8 DEF Classes, ClassesOf
<1>10. ASSUME NEW v PROVE Behind(t, v) = BehindIn(W, tier, t.parts, v)
  <2>1. [k \in DOMAIN t.parts |->
            IF k \in Voters(t) /\ Verdict(FilePlan(FileOf(t.parts[k]), add.p.tier)) = v
            THEN t.parts[k].len ELSE 0]
        = Shares(W, tier, t.parts, v)
    <3>1. \A k \in 1..Len(t.parts) : k \in Voters(t) <=> IsVoter(W, t.parts[k])
      BY <1>6
    <3> QED BY <1>3, <1>8, <3>1 DEF Shares
  <2> QED BY <2>1 DEF Behind, BehindIn
<1> QED BY <1>1, <1>2, <1>3, <1>4, <1>6, <1>7, <1>8, <1>9, <1>10 DEF t, tier

LEMMA NoMoreThanOne ==
    ASSUME NEW S, NEW c, S \subseteq {c}
    PROVE  Cardinality(S) <= 1
<1>1. IsFiniteSet({c}) /\ Cardinality({c}) = 1
  BY FS_Singleton
<1> DEFINE C == {c}
<1>2. S \in SUBSET C /\ IsFiniteSet(C) /\ Cardinality(C) = 1
  BY <1>1
<1> HIDE DEF C
<1> QED BY <1>2, FS_Subset

LEMMA NoMoreThanTwo ==
    ASSUME NEW S, NEW c, NEW d, S \subseteq {c, d}
    PROVE  Cardinality(S) <= 1 \/ Cardinality(S) = 2
<1>1. CASE c \notin S \/ c = d
  <2>1. S \subseteq {d}
    BY <1>1
  <2> QED BY <2>1, NoMoreThanOne
<1>2. CASE d \notin S
  <2>1. S \subseteq {c}
    BY <1>2
  <2> QED BY <2>1, NoMoreThanOne
<1>3. CASE c \in S /\ d \in S /\ c # d
  <2> DEFINE C == {c}
  <2>1. IsFiniteSet(C) /\ Cardinality(C) = 1 /\ d \notin C /\ S = C \cup {d}
    BY <1>3, FS_Singleton
  <2> HIDE DEF C
  <2>2. Cardinality(C \cup {d}) = Cardinality(C) + 1
    BY <2>1, FS_AddElement
  <2> QED BY <2>1, <2>2
<1> QED BY <1>1, <1>2, <1>3

\* "A class change ends a unit at ANY size", but for a unit that place itself opened in the
\* middle of an add, where one class more can join (pack.rs: add_file, place, flush).
THEOREM MixesOnlyBehindACutHolds == Spec => []MixesOnlyBehindACut
<1>1. TreeInv /\ LogInv => MixesOnlyBehindACut
  <2> SUFFICES ASSUME TreeInv, LogInv, add.on, ~Emptied, NEW n \in DOMAIN Log
               PROVE  \/ Cardinality(Classes(Log[n])) <= 1
                      \/ /\ Cardinality(Classes(Log[n])) = 2
                         /\ n > 1 /\ Log[n - 1].cut \in {"Hash", "Cap", "Overshoot"}
    BY DEF MixesOnlyBehindACut
  <2>1. Full(add.work)
    <3>1. DOMAIN add.work = 1..Len(add.work)
      BY TheLogIs, SeqFacts
    <3> QED BY <3>1 DEF Emptied, Full
  <2>2. GroupedAt(add.work, Ended.tier, Log, n)
    <3>1. IsGrouped(add.work, Ended) /\ Log = Ended.trace /\ n \in 1..Len(Log)
      BY <2>1, TheLogIs DEF Logged
    <3> QED BY <3>1 DEF IsGrouped
  <2>3. Classes(Log[n]) = ClassesOf(add.work, Ended.tier, Log[n].parts)
    BY EntriesAre
  <2>4. CASE OneClass(add.work, Ended.tier, Log[n].parts)
    BY <2>3, <2>4, NoMoreThanOne DEF OneClass
  <2>5. CASE n > 1 /\ Log[n - 1].cut \in Cuts /\ TwoClasses(add.work, Ended.tier, Log[n].parts)
    <3>1. Cardinality(Classes(Log[n])) <= 1 \/ Cardinality(Classes(Log[n])) = 2
      BY <2>3, <2>5, NoMoreThanTwo DEF TwoClasses
    <3> QED BY <2>5, <3>1 DEF Cuts
  <2> QED BY <2>2, <2>4, <2>5 DEF GroupedAt
<1> QED BY TreeInvHolds, LogInvHolds, <1>1, PTL

\* "The verdict has to come from the bytes that are in the unit": no other has more of the
\* unit's bytes behind it (pack.rs: place, flush).
THEOREM VotedByItsBytesHolds == Spec => []VotedByItsBytes
<1>1. TreeInv /\ LogInv => VotedByItsBytes
  <2> SUFFICES ASSUME TreeInv, LogInv, add.on, NEW n \in DOMAIN Log, New(Log[n], n),
                      Voters(Log[n]) # {}, Ended.units[Log[n].unit].piece = Refused,
                      NEW k \in Voters(Log[n])
               PROVE  Behind(Log[n], Verdict(Ended.units[Log[n].unit]))
                        >= Behind(Log[n], Verdict(FilePlan(FileOf(Log[n].parts[k]), add.p.tier)))
    BY DEF VotedByItsBytes
  <2> DEFINE t == Log[n]
             unit == Ended.units[t.unit]
             W == add.work
             tier == Ended.tier
  <2>1. /\ n \in 1..Len(Log) /\ NewAt(Log, Len(units), n) /\ HasVoter(W, t.parts)
        /\ k \in 1..Len(t.parts) /\ IsVoter(W, t.parts[k])
        /\ \A v : Behind(t, v) = BehindIn(W, tier, t.parts, v)
        /\ FilePlan(FileOf(t.parts[k]), add.p.tier) = PlanFor(W, tier, t.parts[k])
    BY EntriesAre
  <2>2. ElectedAt(W, tier, unit, t)
    <3>1. AreElected(W, Ended, Len(units)) /\ Log = Ended.trace
      BY TheLogIs DEF Logged
    <3> QED BY <2>1, <3>1 DEF AreElected
  <2>3. MostAreBehind(W, tier, t.parts, Verdict(unit))
    BY <2>1, <2>2 DEF ElectedAt
  <2>4. BehindIn(W, tier, t.parts, Verdict(unit))
          >= BehindIn(W, tier, t.parts, Verdict(PlanFor(W, tier, t.parts[k])))
    BY <2>1, <2>3 DEF MostAreBehind
  <2> QED BY <2>1, <2>4
<1> QED BY TreeInvHolds, LogInvHolds, <1>1, PTL

\* "the scanner must see exactly one container": a filter that takes a whole file has one,
\* a .wav that is cut is cut between frames, and no unit is larger than a reader accepts
\* (pack.rs: add_file, add_wav_split, flush).
THEOREM ContainersAreWholeHolds == Spec => []ContainersAreWhole
<1>1. TreeInv /\ LogInv => ContainersAreWhole
  <2>1. CASE ~add.on
    <3>1. Log = <<>>
      BY <2>1 DEF Log
    <3>2. DOMAIN Log = {}
      BY <3>1
    <3> QED BY <3>2 DEF ContainersAreWhole
  <2>2. ASSUME TreeInv, LogInv, add.on, NEW n \in DOMAIN Log
        PROVE  LET t == Log[n]
                   unit == Ended.units[t.unit]
               IN  /\ ~Ended.failed => Len(unit.cells) <= MaxStored
                   /\ New(t, n) /\ Voters(t) # {} /\ unit.piece = Refused
                      /\ unit.filter \in { NamedFilters[f] : f \in {"jpeg", "chunked", "wav"} }
                      => Len(t.parts) = 1 /\ unit.cells = FileOf(t.parts[1]).cells
                   /\ New(t, n) /\ unit.piece # Refused =>
                         \/ unit.piece.len % unit.piece.frame = 0
                         \/ \A m \in (n + 1)..Len(Log) :
                               Log[m].parts[1].file # t.parts[1].file
    <3> DEFINE t == Log[n]
               unit == Ended.units[t.unit]
    <3>1. /\ IsSmall(Ended) /\ AreElected(add.work, Ended, Len(units)) /\ AreEnds(Ended, Len(units))
          /\ Log = Ended.trace /\ n \in 1..Len(Log)
      BY <2>2, TheLogIs DEF Logged
    <3>2. /\ New(t, n) <=> NewAt(Log, Len(units), n)
          /\ Voters(t) # {} <=> HasVoter(add.work, t.parts)
      BY <2>2, EntriesAre
    <3>3. ~Ended.failed => Len(unit.cells) <= MaxStored
      BY <3>1 DEF IsSmall
    <3>4. New(t, n) => ElectedAt(add.work, Ended.tier, unit, t)
      BY <3>1, <3>2 DEF AreElected
    <3>5. ASSUME New(t, n), Voters(t) # {}, unit.piece = Refused, unit.filter \in WholeFilters
          PROVE  Len(t.parts) = 1 /\ unit.cells = FileOf(t.parts[1]).cells
      BY <3>2, <3>4, <3>5 DEF ElectedAt, FileOf
    <3>6. ASSUME New(t, n), unit.piece # Refused, unit.piece.len % unit.piece.frame # 0,
                 NEW m \in (n + 1)..Len(Log)
          PROVE  Log[m].parts[1].file # t.parts[1].file
      <4>1. OddAt(Ended, Len(units), n)
        BY <3>1, <3>2, <3>6 DEF OddAt, IsOdd
      <4> QED BY <3>1, <3>6, <4>1 DEF AreEnds
    <3>7. WholeFilters = { NamedFilters[f] : f \in {"jpeg", "chunked", "wav"} }
      BY DEF WholeFilters
    <3> HIDE DEF t, unit
    <3> QED BY <3>3, <3>5, <3>6, <3>7 DEF t, unit
  <2> QED BY <2>1, <2>2 DEF ContainersAreWhole
<1> QED BY TreeInvHolds, LogInvHolds, <1>1, PTL

=============================================================================
