--------------------------- MODULE TournamentProofs ---------------------------
(***************************************************************************)
(* The tournament of codecs over a unit: the slots its lanes run in        *)
(* (SlotPool) and the unit that goes through it (UnitJob).                 *)
(*                                                                         *)
(* Of SlotPool, for any number of workers and units: the count of jobs may *)
(* be too high, never too low, once lending begins; and a swap that        *)
(* succeeds has been computed from the `lent` it replaces and from a count *)
(* that can only have fallen since.                                        *)
(*                                                                         *)
(* Of UnitJob, for any filters and any results of the codecs: what they    *)
(* are fed can be undone by the time they run, and each lane has the first *)
(* of the smallest of the entrants it has run.                             *)
(***************************************************************************)
EXTENDS SlotPool, UnitJob, SequenceTheorems, FiniteSetTheorems, WellFoundedInduction, TLAPS

--------------------------------------------------------------------------------
(* The slots.                                                                  *)

Uncounted == IF reader = "count" THEN 1 ELSE 0

CountInv ==
    /\ reader \in {"send", "count", "sealed"} /\ (sealed <=> reader = "sealed")
    /\ sent \in Int /\ ended \in Int /\ outstanding \in Nat /\ lent \in Int
    /\ sent - ended <= outstanding + Uncounted

LaneInv ==
    /\ want \in [Workers -> Nat] /\ seen \in [Workers -> Int]
    /\ take \in [Workers -> Nat] /\ extra \in [Workers -> Nat]
    /\ worker \in [Workers -> {"idle", "running", "looking", "swapping", "racing"}]
    /\ \A w \in Workers :
        /\ worker[w] \in {"looking", "swapping"} => sealed
        /\ worker[w] = "swapping" => seen[w] + take[w] + (sent - ended) <= Total

LentInv ==
    /\ lent > 0 => sealed
    /\ lent > 0 => lent + (sent - ended) <= Total

SlotInv == CountInv /\ LaneInv /\ LentInv

LEMMA TotalIsNat == Total \in Nat
BY SlotAssumption, FS_CardinalityType DEF Total

LEMMA SlotInit == PoolInit => SlotInv
BY DEF PoolInit, SlotInv, CountInv, LaneInv, LentInv, Uncounted

\* The reader: nothing is lent, and nobody looks, before it seals.
LEMMA ReaderKeeps == ASSUME SlotInv, Send \/ Submitted \/ Seal PROVE SlotInv'
<1>1. ~sealed /\ UNCHANGED <<ended, lent, worker, want, seen, take, extra>>
  BY DEF Send, Submitted, Seal, SlotInv, CountInv, slotVars, laneVars
<1>2. CountInv'
  BY DEF Send, Submitted, Seal, SlotInv, CountInv, Uncounted, slotVars
<1>3. LaneInv'
  BY <1>1 DEF SlotInv, LaneInv
<1>4. LentInv'
  BY <1>1 DEF SlotInv, LentInv
<1> QED BY <1>2, <1>3, <1>4 DEF SlotInv

LEMMA TakeKeeps == ASSUME SlotInv, NEW w \in Workers, TakeJob(w) PROVE SlotInv'
BY DEF TakeJob, SlotInv, CountInv, LaneInv, LentInv, Uncounted, slotVars

LEMMA RaceKeeps == ASSUME SlotInv, NEW w \in Workers, Race(w) PROVE SlotInv'
<1>1. UNCHANGED <<jobVars, slotVars, take, extra>>
  BY DEF Race
<1>2. CASE UNCHANGED <<want, seen, worker>>
  BY <1>1, <1>2 DEF SlotInv, CountInv, LaneInv, LentInv, Uncounted, jobVars, slotVars
<1>3. CASE \E n \in Wants : /\ n > 0 /\ MayAsk
                            /\ want' = [want EXCEPT ![w] = n]
                            /\ seen' = [seen EXCEPT ![w] = lent]
                            /\ worker' = [worker EXCEPT ![w] = "looking"]
  <2>1. sealed /\ lent \in Int
    BY <1>3 DEF MayAsk, SlotInv, CountInv
  <2>2. CountInv' /\ LentInv'
    BY <1>1 DEF SlotInv, CountInv, LentInv, Uncounted, jobVars, slotVars
  <2>3. LaneInv'
    BY <1>1, <1>3, <2>1, SlotAssumption DEF SlotInv, LaneInv, jobVars, slotVars
  <2> QED BY <2>2, <2>3 DEF SlotInv
<1> QED BY <1>2, <1>3 DEF Race

LEMMA LookKeeps == ASSUME SlotInv, NEW w \in Workers, Look(w) PROVE SlotInv'
<1> DEFINE n == Least(want[w], Free(w))
<1>1. /\ worker[w] = "looking" /\ sealed
      /\ take' = [take EXCEPT ![w] = n]
      /\ worker' = [worker EXCEPT ![w] = IF n = 0 THEN "running" ELSE "swapping"]
      /\ UNCHANGED <<jobVars, slotVars, races, want, seen, extra>>
  BY DEF Look, SlotInv, LaneInv
<1>2. want[w] \in Nat /\ seen[w] \in Int /\ outstanding \in Nat /\ sent \in Int /\ ended \in Int
      /\ sent - ended <= outstanding /\ Total \in Nat
  BY <1>1, TotalIsNat DEF SlotInv, CountInv, LaneInv, Uncounted
<1>3. n \in Nat /\ (n # 0 => n + outstanding + seen[w] <= Total)
  BY <1>2 DEF Least, Free, Minus
<1> HIDE DEF n
<1>4. n # 0 => seen[w] + n + (sent - ended) <= Total
  BY <1>2, <1>3
<1>5. CountInv' /\ LentInv'
  BY <1>1 DEF SlotInv, CountInv, LentInv, Uncounted, jobVars, slotVars
<1>6. LaneInv'
  BY <1>1, <1>3, <1>4 DEF SlotInv, LaneInv, jobVars, slotVars
<1> QED BY <1>5, <1>6 DEF SlotInv

LEMMA SwapKeeps == ASSUME SlotInv, NEW w \in Workers, Swap(w) PROVE SlotInv'
<1>1. worker[w] = "swapping" /\ sealed /\ UNCHANGED <<jobVars, outstanding, sealed, want, take>>
  BY DEF Swap, SlotInv, LaneInv
<1>2. seen[w] + take[w] + (sent - ended) <= Total /\ take[w] \in Nat /\ lent \in Int
  BY <1>1 DEF SlotInv, CountInv, LaneInv
<1>3. CASE /\ lent = seen[w] /\ lent' = lent + take[w] /\ UNCHANGED seen
           /\ extra' = [extra EXCEPT ![w] = take[w]]
           /\ worker' = [worker EXCEPT ![w] = "racing"]
  <2>1. CountInv' /\ LentInv'
    BY <1>1, <1>2, <1>3 DEF SlotInv, CountInv, LentInv, Uncounted, jobVars
  <2>2. LaneInv'
    BY <1>1, <1>2, <1>3 DEF SlotInv, LaneInv, jobVars
  <2> QED BY <2>1, <2>2 DEF SlotInv
<1>4. CASE /\ seen' = [seen EXCEPT ![w] = lent] /\ UNCHANGED <<lent, extra>>
           /\ worker' = [worker EXCEPT ![w] = "looking"]
  BY <1>1, <1>2, <1>4 DEF SlotInv, CountInv, LaneInv, LentInv, Uncounted, jobVars
<1> QED BY <1>3, <1>4 DEF Swap

LEMMA GiveBackKeeps == ASSUME SlotInv, NEW w \in Workers, GiveBack(w) PROVE SlotInv'
<1>1. /\ worker' = [worker EXCEPT ![w] = "running"]
      /\ extra' = [extra EXCEPT ![w] = 0]
      /\ UNCHANGED <<jobVars, outstanding, sealed, want, seen, take>>
  BY DEF GiveBack
<1>2. lent' \in Int /\ lent' <= lent /\ lent \in Int /\ sent \in Int /\ ended \in Int
  BY DEF GiveBack, AllBack, SlotInv, CountInv, LaneInv
<1>3. CountInv'
  BY <1>1, <1>2 DEF SlotInv, CountInv, Uncounted, jobVars
<1>4. LentInv'
  <2>1. lent' > 0 => lent > 0
    BY <1>2
  <2>2. sent' - ended' = sent - ended /\ sealed' = sealed
    BY <1>1 DEF jobVars
  <2> QED BY <1>2, <2>1, <2>2, TotalIsNat DEF SlotInv, LentInv
<1>5. LaneInv'
  BY <1>1 DEF SlotInv, LaneInv, jobVars
<1> QED BY <1>3, <1>4, <1>5 DEF SlotInv

LEMMA FinishKeeps == ASSUME SlotInv, NEW w \in Workers, Finish(w) PROVE SlotInv'
<1>1. /\ ended' = ended + 1 /\ worker' = [worker EXCEPT ![w] = "idle"]
      /\ UNCHANGED <<reader, sent, lent, sealed, want, seen, take, extra>>
  BY DEF Finish, laneVars
<1>2. CountInv'
  BY <1>1 DEF Finish, LessOneIfAny, Minus, SlotInv, CountInv, Uncounted
<1>3. LaneInv'
  BY <1>1, TotalIsNat DEF SlotInv, CountInv, LaneInv
<1>4. LentInv'
  BY <1>1, TotalIsNat DEF SlotInv, CountInv, LentInv
<1> QED BY <1>2, <1>3, <1>4 DEF SlotInv

LEMMA SlotStep == SlotInv /\ [PoolNext]_poolVars => SlotInv'
<1> SUFFICES ASSUME SlotInv, [PoolNext]_poolVars PROVE SlotInv'
  OBVIOUS
<1>1. CASE UNCHANGED poolVars
  BY <1>1 DEF poolVars, SlotInv, CountInv, LaneInv, LentInv, Uncounted
<1> QED BY <1>1, ReaderKeeps, TakeKeeps, RaceKeeps, LookKeeps, SwapKeeps, GiveBackKeeps,
           FinishKeeps DEF PoolNext

\* A unit that is not finished, waiting or running, keeps a slot of its own while slots
\* are lent (pipeline.rs 229-285): the over-count of submit_job only lends less.
THEOREM NoSlotOfAJobIsLentHolds == PoolSpec => []NoSlotOfAJobIsLent
<1>1. SlotInv => NoSlotOfAJobIsLent
  BY DEF SlotInv, LentInv, NoSlotOfAJobIsLent
<1>2. PoolSpec => []SlotInv
  BY SlotInit, SlotStep, PTL DEF PoolSpec
<1> QED BY <1>1, <1>2, PTL

----------------------------------------------------------------------------
(* Sums over a finite set. *)

SumOf(e, S) == MapThenSumSet(LAMBDA w : e[w], S)

\* The element of s that a fold takes first.
First(s) == CHOOSE x \in s : TRUE

\* f[s] is the sum of e over s, for each s with at most n elements.
SumsTo(f, e, S, n) ==
    \A s \in SUBSET S : Cardinality(s) <= n =>
        f[s] = IF s = {} THEN 0 ELSE e[First(s)] + f[s \ {First(s)}]

LEMMA LessOne ==
    ASSUME NEW S, IsFiniteSet(S), NEW s \in SUBSET S, s # {}
    PROVE  /\ First(s) \in s /\ s \ {First(s)} \in SUBSET S
           /\ Cardinality(s) \in Nat /\ Cardinality(s \ {First(s)}) = Cardinality(s) - 1
<1>1. First(s) \in s
  BY DEF First
<1>2. IsFiniteSet(s)
  BY FS_Subset
<1> QED BY <1>1, <1>2, FS_RemoveElement, FS_CardinalityType

\* One larger set after the other: the smallest number of a nonempty set of numbers.
LEMMA LeastOf ==
    ASSUME NEW T \in SUBSET Nat, T # {}
    PROVE  \E k \in T : \A y \in T : k <= y
<1>1. PICK k \in T : \A y \in T : ~ (<<y, k>> \in OpToRel(<, Nat))
  BY NatLessThanWellFounded, WFMin
<1>2. \A y \in T : ~(y < k)
  BY <1>1 DEF OpToRel
<1> QED BY <1>2

LEMMA SumsExist ==
    ASSUME NEW S, IsFiniteSet(S), NEW e \in [S -> Int], NEW n \in Nat
    PROVE  \E f \in [SUBSET S -> Int] : SumsTo(f, e, S, n)
<1> DEFINE Sums(k) == \E f \in [SUBSET S -> Int] : SumsTo(f, e, S, k)
           T == { k \in Nat : ~Sums(k) }
<1>1. Sums(0)
  <2> DEFINE f == [s \in SUBSET S |-> 0]
  <2>1. f \in [SUBSET S -> Int]
    OBVIOUS
  <2>2. ASSUME NEW s \in SUBSET S, Cardinality(s) <= 0 PROVE s = {}
    BY <2>2, LessOne, FS_Subset, FS_EmptySet, FS_CardinalityType
  <2>3. SumsTo(f, e, S, 0)
    BY <2>2 DEF SumsTo
  <2> QED BY <2>1, <2>3
<1>2. ASSUME NEW k \in Nat, Sums(k) PROVE Sums(k + 1)
  <2>1. PICK f \in [SUBSET S -> Int] : SumsTo(f, e, S, k)
    BY <1>2
  <2> DEFINE g == [s \in SUBSET S |->
                     IF s = {} THEN 0 ELSE e[First(s)] + f[s \ {First(s)}]]
  <2>2. g \in [SUBSET S -> Int]
    <3> SUFFICES ASSUME NEW s \in SUBSET S, s # {} PROVE e[First(s)] + f[s \ {First(s)}] \in Int
      OBVIOUS
    <3>1. First(s) \in S /\ s \ {First(s)} \in SUBSET S
      BY LessOne
    <3> QED BY <2>1, <3>1
  <2>3. \A s \in SUBSET S : Cardinality(s) <= k => g[s] = f[s]
    BY <2>1 DEF SumsTo
  <2>4. ASSUME NEW s \in SUBSET S, Cardinality(s) <= k + 1, s # {}
        PROVE  g[s] = e[First(s)] + g[s \ {First(s)}]
    <3>1. s \ {First(s)} \in SUBSET S /\ Cardinality(s \ {First(s)}) <= k
      BY <2>4, LessOne
    <3>2. g[s \ {First(s)}] = f[s \ {First(s)}]
      BY <2>3, <3>1
    <3>3. g[s] = e[First(s)] + f[s \ {First(s)}]
      BY <2>4
    <3> QED BY <3>2, <3>3
  <2>5. g[{}] = 0
    OBVIOUS
  <2> HIDE DEF g
  <2>6. SumsTo(g, e, S, k + 1)
    BY <2>4, <2>5 DEF SumsTo
  <2> QED BY <2>2, <2>6
<1> HIDE DEF Sums
<1>3. ASSUME T # {} PROVE FALSE
  <2>1. PICK k \in T : \A y \in T : k <= y
    BY <1>3, LeastOf
  <2>2. k # 0 /\ k \in Nat
    BY <1>1, <2>1
  <2>3. k - 1 \in Nat /\ k - 1 \notin T
    BY <2>1, <2>2
  <2>4. Sums((k - 1) + 1)
    BY <1>2, <2>3
  <2>5. (k - 1) + 1 = k
    BY <2>2
  <2> QED BY <2>1, <2>4, <2>5
<1>4. Sums(n)
  BY <1>3
<1> QED BY <1>4 DEF Sums

LEMMA SumOfSums ==
    ASSUME NEW S, IsFiniteSet(S), NEW e \in [S -> Int]
    PROVE  \E f \in [SUBSET S -> Int] :
              SumsTo(f, e, S, Cardinality(S)) /\ SumOf(e, S) = f[S]
<1> DEFINE Turn(f) == [s \in SUBSET S |->
                         IF s = {} THEN 0 ELSE e[First(s)] + f[s \ {First(s)}]]
           h == CHOOSE f : f = Turn(f)
<1>1. Cardinality(S) \in Nat
        /\ \A s \in SUBSET S : Cardinality(s) \in Nat /\ Cardinality(s) <= Cardinality(S)
  BY FS_CardinalityType, FS_Subset
<1>2. PICK f \in [SUBSET S -> Int] : SumsTo(f, e, S, Cardinality(S))
  BY <1>1, SumsExist
<1>3. f = Turn(f)
  <2>1. \A s \in SUBSET S : f[s] = IF s = {} THEN 0 ELSE e[First(s)] + f[s \ {First(s)}]
    BY <1>1, <1>2 DEF SumsTo
  <2> QED BY <2>1
<1>4. h = Turn(h)
  <2> HIDE DEF Turn
  <2> QED BY <1>3
<1>5. SumOf(e, S) = h[S]
  BY DEF SumOf, MapThenSumSet, MapThenFoldSet, First
<1> HIDE DEF h
<1>6. \A s \in SUBSET S : h[s] = IF s = {} THEN 0 ELSE e[First(s)] + h[s \ {First(s)}]
  BY <1>4
<1>7. SumsTo(h, e, S, Cardinality(S))
  BY <1>6 DEF SumsTo
<1>8. h \in [SUBSET S -> Int]
  <2>1. h = [s \in SUBSET S |-> h[s]]
    BY <1>4
  <2> DEFINE T == { k \in Nat : \E s \in SUBSET S : Cardinality(s) = k /\ h[s] \notin Int }
  <2>2. ASSUME T # {} PROVE FALSE
    <3>1. PICK k \in T : \A y \in T : k <= y
      BY <2>2, LeastOf
    <3>2. PICK s \in SUBSET S : Cardinality(s) = k /\ h[s] \notin Int
      BY <3>1
    <3>a. s = {} => h[s] = 0
      BY <1>6
    <3>b. s # {}
      BY <3>2, <3>a
    <3>3. s # {} /\ h[s] = e[First(s)] + h[s \ {First(s)}]
      BY <1>6, <3>b
    <3>4. /\ First(s) \in S /\ s \ {First(s)} \in SUBSET S
          /\ Cardinality(s \ {First(s)}) = k - 1 /\ k - 1 \in Nat
      BY <1>1, <3>2, <3>3, LessOne
    <3>5. k - 1 \notin T
      BY <3>1, <3>4
    <3>6. h[s \ {First(s)}] \in Int /\ e[First(s)] \in Int
      BY <3>4, <3>5
    <3> QED BY <3>2, <3>3, <3>6
  <2>3. \A s \in SUBSET S : h[s] \in Int
    BY <1>1, <2>2
  <2> QED BY <2>1, <2>3
<1> QED BY <1>5, <1>7, <1>8

\* A sum changes by as much as the one summand that does.
LEMMA SumChange ==
    ASSUME NEW S, IsFiniteSet(S), NEW e \in [S -> Int], NEW d \in [S -> Int], NEW w \in S,
           \A x \in S : x # w => d[x] = e[x]
    PROVE  SumOf(d, S) = SumOf(e, S) + (d[w] - e[w])
<1>1. d[w] \in Int /\ e[w] \in Int
  OBVIOUS
<1>2. PICK f \in [SUBSET S -> Int] : SumsTo(f, e, S, Cardinality(S)) /\ SumOf(e, S) = f[S]
  BY SumOfSums
<1>3. PICK g \in [SUBSET S -> Int] : SumsTo(g, d, S, Cardinality(S)) /\ SumOf(d, S) = g[S]
  BY <1>1, SumOfSums
<1>4. Cardinality(S) \in Nat
        /\ \A s \in SUBSET S : Cardinality(s) \in Nat /\ Cardinality(s) <= Cardinality(S)
  BY FS_CardinalityType, FS_Subset
<1>5. \A s \in SUBSET S :
        /\ f[s] = IF s = {} THEN 0 ELSE e[First(s)] + f[s \ {First(s)}]
        /\ g[s] = IF s = {} THEN 0 ELSE d[First(s)] + g[s \ {First(s)}]
  BY <1>2, <1>3, <1>4 DEF SumsTo
<1> DEFINE Moves(s) == g[s] = f[s] + (IF w \in s THEN d[w] - e[w] ELSE 0)
           T == { k \in Nat : \E s \in SUBSET S : Cardinality(s) = k /\ ~Moves(s) }
<1>6. ASSUME T # {} PROVE FALSE
  <2>1. PICK k \in T : \A y \in T : k <= y
    BY <1>6, LeastOf
  <2>2. PICK s \in SUBSET S : Cardinality(s) = k /\ ~Moves(s)
    BY <2>1
  <2>3. s # {}
    <3> SUFFICES ASSUME s = {} PROVE FALSE
      OBVIOUS
    <3>1. f[s] = 0 /\ g[s] = 0 /\ w \notin s
      BY <1>5
    <3>2. Moves(s)
      BY <3>1
    <3> QED BY <2>2, <3>2
  <2> DEFINE x == First(s)
             r == s \ {x}
  <2>4. /\ x \in s /\ r \in SUBSET S
        /\ Cardinality(r) = Cardinality(s) - 1 /\ Cardinality(r) \in Nat
    BY <1>4, <2>3, LessOne
  <2>a. k \in Nat /\ Cardinality(s) = k
    BY <2>1, <2>2
  <2>5. Moves(r)
    <3>1. Cardinality(r) \notin T
      <4> HIDE DEF T, r
      <4> QED BY <2>1, <2>4, <2>a
    <3> QED BY <2>4, <3>1
  <2>6. f[s] = e[x] + f[r] /\ g[s] = d[x] + g[r] /\ f[r] \in Int /\ g[r] \in Int
        /\ e[x] \in Int
    BY <1>5, <2>3, <2>4
  <2>7. (w \in s <=> w = x \/ w \in r) /\ ~(w = x /\ w \in r)
    BY <2>4
  <2> HIDE DEF x, r
  <2>8. CASE x = w
    BY <1>1, <2>2, <2>5, <2>6, <2>7, <2>8
  <2>9. CASE x # w
    <3>1. d[x] = e[x]
      BY <1>1, <2>4, <2>9
    <3> QED BY <1>1, <2>2, <2>5, <2>6, <2>7, <2>9, <3>1
  <2> QED BY <2>8, <2>9
<1>7. Moves(S)
  BY <1>4, <1>6
<1> QED BY <1>2, <1>3, <1>7

LEMMA SumOfNothing ==
    ASSUME NEW S, IsFiniteSet(S)
    PROVE  SumOf([w \in S |-> 0], S) = 0
<1> DEFINE e == [w \in S |-> 0]
<1>1. e \in [S -> Int] /\ \A x \in S : e[x] = 0
  OBVIOUS
<1>2. PICK f \in [SUBSET S -> Int] : SumsTo(f, e, S, Cardinality(S)) /\ SumOf(e, S) = f[S]
  BY <1>1, SumOfSums
<1>3. Cardinality(S) \in Nat
        /\ \A s \in SUBSET S : Cardinality(s) \in Nat /\ Cardinality(s) <= Cardinality(S)
  BY FS_CardinalityType, FS_Subset
<1>4. \A s \in SUBSET S : f[s] = IF s = {} THEN 0 ELSE e[First(s)] + f[s \ {First(s)}]
  BY <1>2, <1>3 DEF SumsTo
<1> HIDE DEF e
<1> DEFINE T == { k \in Nat : \E s \in SUBSET S : Cardinality(s) = k /\ f[s] # 0 }
<1>5. ASSUME T # {} PROVE FALSE
  <2>1. PICK k \in T : \A y \in T : k <= y
    BY <1>5, LeastOf
  <2>2. PICK s \in SUBSET S : Cardinality(s) = k /\ f[s] # 0
    BY <2>1
  <2>3. s # {}
    BY <1>4, <2>2
  <2>4. /\ First(s) \in s /\ s \ {First(s)} \in SUBSET S
        /\ Cardinality(s \ {First(s)}) = Cardinality(s) - 1 /\ Cardinality(s) \in Nat
    BY <2>3, LessOne
  <2>a. k - 1 \in Nat /\ k - 1 < k
    <3>1. Cardinality(s \ {First(s)}) \in Nat
      BY <1>3, <2>4
    <3> QED BY <2>2, <2>4, <3>1
  <2>5. f[s \ {First(s)}] = 0
    BY <2>1, <2>2, <2>4, <2>a
  <2> QED BY <1>1, <1>4, <2>2, <2>3, <2>4, <2>5
<1>6. f[S] = 0
  BY <1>3, <1>5
<1> QED BY <1>2, <1>6 DEF e

----------------------------------------------------------------------------
(* The codecs that run. *)

Busy == { w \in Workers : worker[w] # "idle" }

\* `lent` is the sum of what the races hold, and a job runs in one worker.
BorrowInv ==
    /\ lent = SumOf(extra, Workers)
    /\ \A w \in Workers : worker[w] # "racing" => extra[w] = 0
    /\ taken \in Int /\ taken <= sent
    /\ Cardinality(Busy) = taken - ended

LEMMA BorrowInit == PoolInit => BorrowInv
<1> SUFFICES ASSUME PoolInit PROVE BorrowInv
  OBVIOUS
<1>1. lent = SumOf(extra, Workers)
  BY SumOfNothing, SlotAssumption DEF PoolInit
<1>2. Busy = {} /\ Cardinality({}) = 0
  BY FS_EmptySet DEF PoolInit, Busy
<1> QED BY <1>1, <1>2 DEF PoolInit, BorrowInv

\* A worker goes on with the job it has.
LEMMA StaysBusy ==
    ASSUME SlotInv, NEW w \in Workers, worker[w] # "idle", NEW x, x # "idle",
           worker' = [worker EXCEPT ![w] = x]
    PROVE  Busy' = Busy
BY DEF Busy, SlotInv, LaneInv

\* It takes none and gives none back, and the slots it holds stay its own.
LEMMA LaneKeeps ==
    ASSUME SlotInv, BorrowInv, UNCHANGED <<taken, ended, sent, lent, extra>>, Busy' = Busy,
           \A w \in Workers : worker'[w] # "racing" => worker[w] # "racing"
    PROVE  BorrowInv'
BY DEF BorrowInv

LEMMA BorrowStep == SlotInv /\ BorrowInv /\ [PoolNext]_poolVars => BorrowInv'
<1> SUFFICES ASSUME SlotInv, BorrowInv, [PoolNext]_poolVars PROVE BorrowInv'
  OBVIOUS
<1>0. /\ lent \in Int /\ sent \in Int /\ ended \in Int /\ taken \in Int
      /\ extra \in [Workers -> Int] /\ take \in [Workers -> Nat]
      /\ worker \in [Workers -> {"idle", "running", "looking", "swapping", "racing"}]
      /\ IsFiniteSet(Workers) /\ IsFiniteSet(Busy)
  BY SlotAssumption, FS_Subset DEF SlotInv, CountInv, LaneInv, BorrowInv, Busy
<1>1. CASE Send \/ Submitted \/ Seal \/ UNCHANGED poolVars
  <2>1. UNCHANGED <<taken, ended, lent, extra, worker>> /\ sent' \in {sent, sent + 1}
    BY <1>1 DEF Send, Submitted, Seal, poolVars, slotVars, laneVars
  <2> QED BY <1>0, <2>1 DEF BorrowInv, Busy
<1>2. ASSUME NEW w \in Workers, TakeJob(w) PROVE BorrowInv'
  <2>1. /\ w \notin Busy /\ taken < sent /\ taken' = taken + 1
        /\ worker' = [worker EXCEPT ![w] = "running"]
        /\ UNCHANGED <<sent, ended, lent, extra>>
    BY <1>2 DEF TakeJob, Busy, slotVars
  <2>2. Busy' = Busy \cup {w}
    BY <1>0, <2>1 DEF Busy
  <2>3. Cardinality(Busy') = Cardinality(Busy) + 1
    BY <1>0, <2>1, <2>2, FS_AddElement
  <2>4. \A v \in Workers : worker'[v] # "racing" => extra'[v] = 0
    BY <1>0, <2>1 DEF BorrowInv, Busy
  <2>5. taken' \in Int /\ taken' <= sent' /\ Cardinality(Busy') = taken' - ended'
    BY <1>0, <2>1, <2>3 DEF BorrowInv
  <2> QED BY <2>1, <2>4, <2>5 DEF BorrowInv
<1>3. ASSUME NEW w \in Workers, Race(w) \/ Look(w) PROVE BorrowInv'
  <2>1. worker[w] \in {"running", "looking"} /\ UNCHANGED <<taken, ended, sent, lent, extra>>
    BY <1>3 DEF Race, Look, jobVars, slotVars
  <2>2. worker' = worker \/ \E x \in {"running", "looking", "swapping"} :
                                worker' = [worker EXCEPT ![w] = x]
    BY <1>3 DEF Race, Look
  <2>3. Busy' = Busy
    BY <1>0, <2>1, <2>2 DEF Busy
  <2>4. \A v \in Workers : worker'[v] # "racing" => worker[v] # "racing"
    BY <1>0, <2>1, <2>2
  <2> QED BY <2>1, <2>3, <2>4, LaneKeeps
<1>4. ASSUME NEW w \in Workers, Swap(w) PROVE BorrowInv'
  <2>1. worker[w] = "swapping" /\ UNCHANGED <<taken, ended, sent>> /\ extra[w] = 0
    BY <1>4 DEF Swap, jobVars, BorrowInv
  <2>2. CASE /\ lent' = lent + take[w] /\ extra' = [extra EXCEPT ![w] = take[w]]
             /\ worker' = [worker EXCEPT ![w] = "racing"]
    <3>a. extra' \in [Workers -> Int] /\ extra'[w] = take[w]
          /\ \A x \in Workers : x # w => extra'[x] = extra[x]
      BY <1>0, <2>2
    <3>1. SumOf(extra', Workers) = SumOf(extra, Workers) + (extra'[w] - extra[w])
      BY <1>0, <3>a, SumChange
    <3>2. lent' = SumOf(extra', Workers)
      BY <1>0, <2>1, <2>2, <3>a, <3>1 DEF BorrowInv
    <3>3. Busy' = Busy
      BY <2>1, <2>2, StaysBusy
    <3>4. \A v \in Workers : worker'[v] # "racing" => extra'[v] = 0
      BY <1>0, <2>2 DEF BorrowInv
    <3> QED BY <2>1, <3>2, <3>3, <3>4 DEF BorrowInv
  <2>3. CASE UNCHANGED <<lent, extra>> /\ worker' = [worker EXCEPT ![w] = "looking"]
    <3>1. Busy' = Busy
      BY <2>1, <2>3, StaysBusy
    <3>2. \A v \in Workers : worker'[v] # "racing" => worker[v] # "racing"
      BY <1>0, <2>1, <2>3
    <3> QED BY <2>1, <2>3, <3>1, <3>2, LaneKeeps
  <2> QED BY <1>4, <2>2, <2>3 DEF Swap
<1>5. ASSUME NEW w \in Workers, GiveBack(w) PROVE BorrowInv'
  <2>1. /\ worker[w] = "racing" /\ worker' = [worker EXCEPT ![w] = "running"]
        /\ lent' = lent - extra[w] /\ extra' = [extra EXCEPT ![w] = 0]
        /\ UNCHANGED <<taken, ended, sent>>
    BY <1>5 DEF GiveBack, AllBack, jobVars
  <2>a. extra' \in [Workers -> Int] /\ extra'[w] = 0 /\ extra[w] \in Int
        /\ \A x \in Workers : x # w => extra'[x] = extra[x]
    BY <1>0, <2>1
  <2>2. SumOf(extra', Workers) = SumOf(extra, Workers) + (extra'[w] - extra[w])
    BY <1>0, <2>a, SumChange
  <2>3. lent' = SumOf(extra', Workers)
    BY <1>0, <2>1, <2>a, <2>2 DEF BorrowInv
  <2>4. Busy' = Busy
    BY <2>1, StaysBusy
  <2>5. \A v \in Workers : worker'[v] # "racing" => extra'[v] = 0
    BY <1>0, <2>1 DEF BorrowInv
  <2> QED BY <2>1, <2>3, <2>4, <2>5 DEF BorrowInv
<1>6. ASSUME NEW w \in Workers, Finish(w) PROVE BorrowInv'
  <2>1. /\ worker[w] = "running" /\ w \in Busy /\ ended' = ended + 1
        /\ worker' = [worker EXCEPT ![w] = "idle"]
        /\ UNCHANGED <<taken, sent, lent, extra>>
    BY <1>6 DEF Finish, laneVars, Busy
  <2>2. Busy' = Busy \ {w}
    BY <1>0, <2>1 DEF Busy
  <2>3. Cardinality(Busy') = Cardinality(Busy) - 1
    BY <1>0, <2>1, <2>2, FS_RemoveElement
  <2>4. \A v \in Workers : worker'[v] # "racing" => extra'[v] = 0
    BY <1>0, <2>1 DEF BorrowInv
  <2>5. Cardinality(Busy') = taken' - ended'
    BY <1>0, <2>1, <2>3 DEF BorrowInv
  <2> QED BY <2>1, <2>4, <2>5 DEF BorrowInv
<1> QED BY <1>1, <1>2, <1>3, <1>4, <1>5, <1>6 DEF PoolNext

\* What runs at once never exceeds the number of workers, although the count that
\* lending goes by is read apart from the swap (pipeline.rs 203-285): the memory that
\* Tier::worker_memory sets aside is enough.
THEOREM CodecRunsBoundedHolds == PoolSpec => []CodecRunsBounded
<1>1. SlotInv /\ BorrowInv => CodecRunsBounded
  <2> SUFFICES ASSUME SlotInv, BorrowInv PROVE CodecRunsBounded
    OBVIOUS
  <2>1. CodecRuns = Cardinality(Busy) + SumOf(extra, Workers)
    BY DEF CodecRuns, Busy, SumOf
  <2>2. IsFiniteSet(Busy) /\ Cardinality(Busy) <= Total /\ Cardinality(Busy) \in Nat
    BY SlotAssumption, FS_Subset, FS_CardinalityType DEF Busy, Total
  <2>3. CodecRuns = Cardinality(Busy) + lent /\ Cardinality(Busy) <= sent - ended
    BY <2>1 DEF SlotInv, CountInv, BorrowInv
  <2>4. lent > 0 => lent + (sent - ended) <= Total
    BY DEF SlotInv, LentInv
  <2> QED BY <2>2, <2>3, <2>4, TotalIsNat DEF SlotInv, CountInv, CodecRunsBounded
<1>2. PoolSpec => [](SlotInv /\ BorrowInv)
  BY SlotInit, SlotStep, BorrowInit, BorrowStep, PTL DEF PoolSpec
<1> QED BY <1>1, <1>2, PTL

----------------------------------------------------------------------------
(* Numbers, sequences, and the two folds of a job.                           *)

\* Induction over a set of numbers.
LEMMA Counting ==
    ASSUME NEW T, 0 \in T, \A k \in Nat : k \in T => k + 1 \in T
    PROVE  \A k \in Nat : k \in T
<1> DEFINE L == { k \in Nat : k \notin T }
<1>1. ASSUME L # {} PROVE FALSE
  <2>1. PICK k \in L : \A y \in L : k <= y
    BY <1>1, LeastOf
  <2>2. k \in Nat /\ k # 0 /\ k - 1 \in Nat
    BY <2>1
  <2>3. k - 1 \in T
    BY <2>1, <2>2
  <2>4. (k - 1) + 1 \in T
    BY <2>2, <2>3
  <2>5. (k - 1) + 1 = k
    BY <2>2
  <2> QED BY <2>1, <2>4, <2>5
<1> QED BY <1>1

LEMMA LastOfPrefix ==
    ASSUME NEW k \in Nat, NEW s, s \subseteq 1..k, k \in s
    PROVE  Max(s) = k
<1>1. Max(s) \in s /\ \A y \in s : Max(s) >= y
  <2>1. \E x \in s : \A y \in s : x >= y
    <3>1. \A y \in s : k >= y
      OBVIOUS
    <3> QED BY <3>1
  <2> QED BY <2>1 DEF Max
<1>2. Max(s) \in 1..k /\ Max(s) >= k
  BY <1>1
<1> QED BY <1>2

\* A sequence of whatever it has in it.
IsSeq(s) == s \in Seq({ s[i] : i \in DOMAIN s })

LEMMA IsSeqOf ==
    ASSUME NEW S, NEW s \in Seq(S)
    PROVE  IsSeq(s)
<1>1. s \in [1..Len(s) -> { s[i] : i \in DOMAIN s }] /\ Len(s) \in Nat
  OBVIOUS
<1> QED BY <1>1 DEF IsSeq

LEMMA SeqFacts ==
    ASSUME NEW s, IsSeq(s)
    PROVE  /\ Len(s) \in Nat /\ DOMAIN s = 1..Len(s)
           /\ s = [i \in 1..Len(s) |-> s[i]]
           /\ s = <<>> <=> Len(s) = 0
  BY DEF IsSeq

LEMMA IsSeqByLength ==
    ASSUME NEW s, NEW n \in Nat, s = [i \in 1..n |-> s[i]]
    PROVE  IsSeq(s) /\ Len(s) = n
<1>1. s \in Seq({ s[i] : i \in DOMAIN s })
  OBVIOUS
<1> QED BY <1>1 DEF IsSeq

LEMMA AppendAny ==
    ASSUME NEW s, IsSeq(s), NEW e
    PROVE  /\ IsSeq(Append(s, e)) /\ Len(Append(s, e)) = Len(s) + 1
           /\ \A i \in 1..Len(s) : Append(s, e)[i] = s[i]
           /\ Append(s, e)[Len(s) + 1] = e
<1> DEFINE S == { s[i] : i \in DOMAIN s } \cup {e}
<1>1. s \in Seq(S)
  BY DEF IsSeq
<1>2. e \in S
  OBVIOUS
<1> HIDE DEF S
<1>3. Append(s, e) \in Seq(S)
  BY <1>1, <1>2, AppendProperties
<1>4. IsSeq(Append(s, e))
  BY <1>3, IsSeqOf
<1> QED BY <1>1, <1>2, <1>4, AppendProperties

\* Overall: the winner of a lane takes over from the one before if it beats it.
BetterOne(gain, x, y) == IF y # 0 /\ Beats(gain, y, x) THEN y ELSE x

\* Field: a place in the candidates that qualifies is kept.
KeptOne(c, x, y) == IF Qualifies(c.candidates, c.sizes, y) THEN Append(x, y) ELSE x

\* The prover instantiates no theorem with an operator: this one is the step of both folds.
OneStep(op, c, x, y) ==
    CASE op = "better" -> BetterOne(c, x, y)
      [] op = "kept" -> KeptOne(c, x, y)

\* What the fold computes for each set of places in the sequence.
IsFold(h, op, c, base, seq) ==
    h = [s \in SUBSET DOMAIN seq |->
            IF s = {} THEN base ELSE OneStep(op, c, h[s \ {Max(s)}], seq[Max(s)])]

LEMMA FoldExists ==
    ASSUME NEW op, NEW c, NEW base, NEW seq, NEW n \in Nat, DOMAIN seq = 1..n
    PROVE  \E h : IsFold(h, op, c, base, seq)
<1> DEFINE Folds(f, s) ==
             f[s] = IF s = {} THEN base ELSE OneStep(op, c, f[s \ {Max(s)}], seq[Max(s)])
           T == { k \in Nat : \E f : \A s \in SUBSET (1..k) : Folds(f, s) }
<1>1. 0 \in T
  <2> DEFINE f == [s \in {{}} |-> base]
  <2>1. \A s \in SUBSET (1..0) : s = {}
    OBVIOUS
  <2>2. \A s \in SUBSET (1..0) : Folds(f, s)
    BY <2>1
  <2> HIDE DEF f, Folds
  <2> QED BY <2>2
<1>2. ASSUME NEW k \in Nat, k \in T PROVE k + 1 \in T
  <2>1. PICK f : \A s \in SUBSET (1..k) : Folds(f, s)
    BY <1>2
  <2> DEFINE g == [s \in SUBSET (1..k + 1) |->
                     IF k + 1 \in s THEN OneStep(op, c, f[s \ {k + 1}], seq[k + 1]) ELSE f[s]]
  <2>2. ASSUME NEW s \in SUBSET (1..k + 1), k + 1 \notin s PROVE Folds(g, s)
    <3>1. s \in SUBSET (1..k)
      BY <2>2
    <3>2. Folds(f, s)
      BY <2>1, <3>1
    <3>3. \A u \in SUBSET s : u \in SUBSET (1..k + 1) /\ g[u] = f[u]
      BY <2>2
    <3>4. g[s] = f[s] /\ g[s \ {Max(s)}] = f[s \ {Max(s)}]
      BY <3>3
    <3> HIDE DEF g
    <3> QED BY <3>2, <3>4
  <2>3. ASSUME NEW s \in SUBSET (1..k + 1), k + 1 \in s PROVE Folds(g, s)
    <3>1. Max(s) = k + 1
      <4>1. k + 1 \in Nat /\ s \subseteq 1..k + 1
        OBVIOUS
      <4> HIDE DEF g, Folds
      <4> QED BY <2>3, <4>1, LastOfPrefix
    <3>2. s \ {k + 1} \in SUBSET (1..k + 1)
      OBVIOUS
    <3>3. g[s \ {k + 1}] = f[s \ {k + 1}]
      BY <3>2
    <3>4. g[s] = OneStep(op, c, f[s \ {k + 1}], seq[k + 1])
      BY <2>3
    <3> HIDE DEF g
    <3> QED BY <2>3, <3>1, <3>3, <3>4
  <2>4. \A s \in SUBSET (1..k + 1) : Folds(g, s)
    BY <2>2, <2>3
  <2>5. k + 1 \in Nat
    OBVIOUS
  <2> HIDE DEF g, Folds
  <2> QED BY <2>4, <2>5
<1>3. n \in T
  <2> HIDE DEF T
  <2> QED BY <1>1, <1>2, Counting
<1>4. PICK f : \A s \in SUBSET (1..n) : Folds(f, s)
  BY <1>3
<1> DEFINE e == [s \in SUBSET (1..n) |-> f[s]]
<1>5. e = [s \in SUBSET (1..n) |->
             IF s = {} THEN base ELSE OneStep(op, c, e[s \ {Max(s)}], seq[Max(s)])]
  BY <1>4
<1> HIDE DEF e
<1>6. IsFold(e, op, c, base, seq)
  BY <1>5 DEF IsFold
<1> QED BY <1>6

\* The values of a fold after each of the elements.
IsRun(g, op, c, base, seq) ==
    /\ g[0] = base
    /\ \A k \in 0..(Len(seq) - 1) : g[k + 1] = OneStep(op, c, g[k], seq[k + 1])

LEMMA FoldRuns ==
    ASSUME NEW op, NEW c, NEW base, NEW seq, IsSeq(seq),
           NEW h, IsFold(h, op, c, base, seq)
    PROVE  \E g : IsRun(g, op, c, base, seq) /\ g[Len(seq)] = h[DOMAIN seq]
<1> DEFINE n == Len(seq)
<1>1. n \in Nat /\ DOMAIN seq = 1..n
  BY SeqFacts
<1> HIDE DEF n
<1>2. \A s \in SUBSET (1..n) :
        h[s] = IF s = {} THEN base ELSE OneStep(op, c, h[s \ {Max(s)}], seq[Max(s)])
  BY <1>1 DEF IsFold
<1>3. h[{}] = base
  BY <1>2
<1>4. ASSUME NEW k \in 0..(n - 1) PROVE h[1..k + 1] = OneStep(op, c, h[1..k], seq[k + 1])
  <2>1. (1..k + 1) \in SUBSET (1..n) /\ (1..k + 1) # {} /\ (1..k + 1) \ {k + 1} = 1..k
    BY <1>1
  <2>2. Max(1..k + 1) = k + 1
    BY <1>1, LastOfPrefix
  <2> QED BY <1>2, <2>1, <2>2
<1> DEFINE g == [k \in 0..n |-> h[1..k]]
<1>5. g[0] = base /\ g[n] = h[1..n]
  <2>1. 1..0 = {}
    OBVIOUS
  <2> QED BY <1>1, <1>3, <2>1
<1>6. \A k \in 0..(n - 1) : g[k + 1] = OneStep(op, c, g[k], seq[k + 1])
  <2>1. \A k \in 0..(n - 1) : k \in 0..n /\ k + 1 \in 0..n
    BY <1>1
  <2> QED BY <1>4, <2>1
<1> HIDE DEF g
<1>7. IsRun(g, op, c, base, seq)
  BY <1>5, <1>6 DEF IsRun, n
<1> QED BY <1>1, <1>5, <1>7 DEF n

LEMMA OverallRuns ==
    ASSUME NEW gain, NEW winners, IsSeq(winners)
    PROVE  \E g : IsRun(g, "better", gain, 0, winners) /\ g[Len(winners)] = Overall(gain, winners)
<1> DEFINE Turn(f_1) == [s \in SUBSET DOMAIN winners |->
                      IF s = {} THEN 0 ELSE BetterOne(gain, f_1[s \ {Max(s)}], winners[Max(s)])]
           h == CHOOSE f_1 : f_1 = Turn(f_1)
<1>1. PICK f_2 : IsFold(f_2, "better", gain, 0, winners)
  BY SeqFacts, FoldExists
<1>2. \A f_1 : IsFold(f_1, "better", gain, 0, winners) <=> f_1 = Turn(f_1)
  BY DEF IsFold, OneStep
<1>3. Overall(gain, winners) = h[DOMAIN winners]
  BY DEF Overall, BetterOne, FoldLeft, MapThenFoldSet
<1>4. h = Turn(h)
  <2> HIDE DEF Turn
  <2> QED BY <1>1, <1>2
<1>5. IsFold(h, "better", gain, 0, winners)
  BY <1>2, <1>4
<1> HIDE DEF h
<1> QED BY <1>3, <1>5, FoldRuns

\* The fold of Field by itself.
KeptOf(candidates, sizes, everyone) ==
    FoldLeft(LAMBDA some, k : IF Qualifies(candidates, sizes, k) THEN Append(some, k)
                              ELSE some, <<>>, everyone)

LEMMA KeptRuns ==
    ASSUME NEW candidates, NEW sizes, NEW places, IsSeq(places)
    PROVE  \E g : /\ IsRun(g, "kept", [candidates |-> candidates, sizes |-> sizes], <<>>, places)
                  /\ g[Len(places)] = KeptOf(candidates, sizes, places)
<1> DEFINE c == [candidates |-> candidates, sizes |-> sizes]
           Turn(f_1) == [s \in SUBSET DOMAIN places |->
                      IF s = {} THEN <<>> ELSE KeptOne(c, f_1[s \ {Max(s)}], places[Max(s)])]
           h == CHOOSE f_1 : f_1 = Turn(f_1)
<1>1. PICK f_2 : IsFold(f_2, "kept", c, <<>>, places)
  BY SeqFacts, FoldExists
<1>2. \A f_1 : IsFold(f_1, "kept", c, <<>>, places) <=> f_1 = Turn(f_1)
  BY DEF IsFold, OneStep
<1>3. KeptOf(candidates, sizes, places) = h[DOMAIN places]
  BY DEF KeptOf, KeptOne, FoldLeft, MapThenFoldSet
<1>4. h = Turn(h)
  <2> HIDE DEF Turn
  <2> QED BY <1>1, <1>2
<1>5. IsFold(h, "kept", c, <<>>, places)
  BY <1>2, <1>4
<1> HIDE DEF h
<1> QED BY <1>3, <1>5, FoldRuns

----------------------------------------------------------------------------
(* qualify.                                                                  *)

\* Places in the candidates, at least one.
IsField(f, candidates) ==
    IsSeq(f) /\ Len(f) > 0 /\ \A k \in 1..Len(f) : f[k] \in 1..Len(candidates)

\* Whatever the sample says of whom, somebody runs.
LEMMA SomebodyRuns ==
    ASSUME NEW candidates, IsSeq(candidates), candidates # <<>>, NEW length, NEW sizes
    PROVE  IsField(Field(candidates, length, sizes), candidates)
<1> DEFINE n == Len(candidates)
           everyone == [k \in DOMAIN candidates |-> k]
           kept == KeptOf(candidates, sizes, everyone)
<1>1. n \in Nat /\ n > 0 /\ DOMAIN candidates = 1..n
  BY SeqFacts
<1> HIDE DEF n
<1>2. IsSeq(everyone) /\ Len(everyone) = n
  <2>1. everyone = [k \in 1..n |-> everyone[k]]
    BY <1>1
  <2> HIDE DEF everyone
  <2> QED BY <1>1, <2>1, IsSeqByLength
<1>3. \A k \in 1..n : everyone[k] = k
  BY <1>1
<1> HIDE DEF everyone
<1>4. IsField(everyone, candidates)
  BY <1>1, <1>2, <1>3 DEF IsField, n
<1>5. IsSeq(kept) /\ \A k \in 1..Len(kept) : kept[k] \in 1..n
  <2> DEFINE c == [candidates |-> candidates, sizes |-> sizes]
  <2>1. PICK g : IsRun(g, "kept", c, <<>>, everyone) /\ g[n] = kept
    BY <1>2, KeptRuns
  <2> HIDE DEF c, kept
  <2> DEFINE Fine(s) == IsSeq(s) /\ \A k \in 1..Len(s) : s[k] \in 1..n
             T == { k \in Nat : k <= n => Fine(g[k]) }
  <2>2. Fine(<<>>)
    <3>1. <<>> \in Seq({0}) /\ Len(<<>>) = 0
      OBVIOUS
    <3>2. IsSeq(<<>>)
      BY <3>1, IsSeqOf
    <3>3. \A k \in 1..0 : FALSE
      OBVIOUS
    <3> QED BY <3>1, <3>2, <3>3
  <2>3. 0 \in T
    BY <2>1, <2>2 DEF IsRun
  <2>4. ASSUME NEW k \in Nat, k \in T PROVE k + 1 \in T
    <3> SUFFICES ASSUME k + 1 <= n PROVE Fine(g[k + 1])
      OBVIOUS
    <3>1. k <= n /\ k \in 0..(n - 1) /\ k + 1 \in 1..n
      BY <1>1
    <3>2. Fine(g[k])
      BY <2>4, <3>1
    <3>3. everyone[k + 1] = k + 1
      BY <1>3, <3>1
    <3>4. g[k + 1] = KeptOne(c, g[k], k + 1)
      BY <1>2, <2>1, <3>1, <3>3 DEF IsRun, OneStep
    <3>5. g[k + 1] = g[k] \/ g[k + 1] = Append(g[k], k + 1)
      BY <3>4 DEF KeptOne
    <3> DEFINE x == g[k]
               y == k + 1
               z == Append(x, y)
    <3>6. Fine(z)
      <4>1. IsSeq(x) /\ y \in 1..n /\ \A i \in 1..Len(x) : x[i] \in 1..n
        BY <3>1, <3>2
      <4> HIDE DEF x, y
      <4>2. /\ IsSeq(z) /\ Len(z) = Len(x) + 1 /\ z[Len(x) + 1] = y
            /\ \A i \in 1..Len(x) : z[i] = x[i]
        BY <4>1, AppendAny
      <4>3. Len(x) \in Nat
        BY <4>1, SeqFacts
      <4> HIDE DEF z
      <4>4. \A i \in 1..Len(z) : i \in 1..Len(x) \/ i = Len(x) + 1
        BY <4>2, <4>3
      <4> QED BY <4>1, <4>2, <4>4
    <3> HIDE DEF Fine
    <3> QED BY <3>2, <3>5, <3>6
  <2> HIDE DEF T
  <2>5. n \in T
    BY <1>1, <2>3, <2>4, Counting
  <2> QED BY <1>1, <2>1, <2>5 DEF T
<1>6. kept # <<>> => IsField(kept, candidates)
  <2> HIDE DEF kept
  <2>1. Len(kept) \in Nat /\ (kept # <<>> => Len(kept) # 0)
    BY <1>5, SeqFacts
  <2>2. kept # <<>> => Len(kept) > 0
    BY <2>1
  <2> QED BY <1>5, <2>2 DEF IsField, n
<1>7. \/ Field(candidates, length, sizes) = everyone
      \/ kept # <<>> /\ Field(candidates, length, sizes) = kept
  BY DEF Field, KeptOf, everyone
<1> HIDE DEF kept
<1> QED BY <1>4, <1>6, <1>7

----------------------------------------------------------------------------
(* race.                                                                     *)

\* The first among the smallest of a run of places in the field.
FirstLeast(f, gain, from, to, k) ==
    /\ k \in from..to
    /\ \A j \in from..to : IF j < k THEN gain[f[j]] > gain[f[k]] ELSE gain[f[j]] >= gain[f[k]]

AreGains(f, gain) ==
    \A k \in 1..Len(f) : f[k] # 0 /\ gain[f[k]] \in Int

LaneCount(n, e) == (n + LaneLength(n, e) - 1) \div LaneLength(n, e)
LaneFrom(n, e, l) == LaneOf(n, e, l).next
LaneTo(n, e, l) == LaneOf(n, e, l).last

LEMMA Times ==
    ASSUME NEW a \in Int, NEW b \in Int, a <= b, NEW c \in Nat
    PROVE  c * a <= c * b
  OBVIOUS

\* The lanes lie one behind the other and cover the field; none is empty.
LEMMA LanesCover ==
    ASSUME NEW n \in Nat, n > 0, NEW e \in 0..(n - 1)
    PROVE  LET m == LaneCount(n, e)
           IN  /\ m \in Nat /\ m > 0
               /\ LaneFrom(n, e, 1) = 1 /\ LaneTo(n, e, m) = n
               /\ \A l \in 1..m :
                     /\ LaneFrom(n, e, l) \in Nat /\ LaneTo(n, e, l) \in Nat
                     /\ 1 <= LaneFrom(n, e, l) /\ LaneFrom(n, e, l) <= LaneTo(n, e, l)
                     /\ LaneTo(n, e, l) <= n
                     /\ l < m => LaneFrom(n, e, l + 1) = LaneTo(n, e, l) + 1
<1> DEFINE p == LaneLength(n, e)
           m == LaneCount(n, e)
<1>1. p \in Nat /\ p > 0
  BY DEF LaneLength
<1>2. m = (n + p - 1) \div p
  BY DEF LaneCount
<1>3. \A l : /\ LaneFrom(n, e, l) = p * (l - 1) + 1
             /\ LaneTo(n, e, l) = IF p * l < n THEN p * l ELSE n
  BY DEF LaneFrom, LaneTo, LaneOf
<1> HIDE DEF p, m
<1>4. m \in Nat /\ p * m >= n /\ p * m < n + p
  BY <1>1, <1>2
<1>5. m > 0
  <2>1. m = 0 => p * m = 0
    BY <1>1
  <2> QED BY <1>4, <2>1
<1>6. p * (m - 1) = p * m - p
  BY <1>1, <1>4
<1>7. ASSUME NEW l \in 1..m
      PROVE  /\ p * (l - 1) \in Nat /\ p * l \in Nat /\ p * l = p * (l - 1) + p /\ p * (l - 1) < n
             /\ l < m => p * l < n
  <2>1. p * (l - 1) \in Nat /\ p * l \in Nat /\ p * l = p * (l - 1) + p
    BY <1>1
  <2>2. p * (l - 1) <= p * (m - 1)
    BY <1>1, <1>4, Times
  <2>3. l < m => p * l <= p * (m - 1)
    <3>1. l < m => l <= m - 1
      BY <1>4
    <3>2. l \in Int /\ m - 1 \in Int
      BY <1>4
    <3> QED BY <1>1, <3>1, <3>2, Times
  <2>4. p * m \in Nat
    BY <1>1, <1>4
  <2> QED BY <1>1, <1>4, <1>6, <2>1, <2>2, <2>3, <2>4
<1>8. LaneFrom(n, e, 1) = 1 /\ LaneTo(n, e, m) = n
  <2>1. LaneFrom(n, e, 1) = p * (1 - 1) + 1 /\ p * (1 - 1) = 0
    BY <1>1, <1>3
  <2>2. LaneTo(n, e, m) = IF p * m < n THEN p * m ELSE n
    BY <1>3
  <2> DEFINE b == p * m
  <2>3. b \in Nat /\ b >= n
    BY <1>1, <1>4
  <2> HIDE DEF b
  <2>4. LaneTo(n, e, m) = IF b < n THEN b ELSE n
    BY <2>2 DEF b
  <2> QED BY <2>1, <2>3, <2>4
<1>9. ASSUME NEW l \in 1..m
      PROVE  /\ LaneFrom(n, e, l) \in Nat /\ LaneTo(n, e, l) \in Nat
             /\ 1 <= LaneFrom(n, e, l) /\ LaneFrom(n, e, l) <= LaneTo(n, e, l)
             /\ LaneTo(n, e, l) <= n
             /\ l < m => LaneFrom(n, e, l + 1) = LaneTo(n, e, l) + 1
  <2> DEFINE a == p * (l - 1)
             b == p * l
  <2>1. a \in Nat /\ b \in Nat /\ b = a + p /\ a < n
    BY <1>7
  <2>b. l < m => b < n
    BY <1>7
  <2>2. LaneFrom(n, e, l) = a + 1 /\ LaneTo(n, e, l) = IF b < n THEN b ELSE n
    BY <1>3
  <2>3. l < m => LaneFrom(n, e, l + 1) = b + 1
    <3>1. (l + 1) - 1 = l
      OBVIOUS
    <3> QED BY <1>3, <3>1
  <2> HIDE DEF a, b
  <2> QED BY <1>1, <2>1, <2>b, <2>2, <2>3
<1> QED BY <1>4, <1>5, <1>8, <1>9 DEF m

\* A lane knows the first of the smallest it has run.
IsLane(lane, f, gain, from, to) ==
    /\ lane = [x \in {"next", "last", "won", "failed"} |-> lane[x]]
    /\ lane.last = to /\ lane.failed \in BOOLEAN
    /\ lane.next \in from..(to + 1)
    /\ lane.next = from => lane.won = 0
    /\ lane.next # from =>
          \E k : FirstLeast(f, gain, from, lane.next - 1, k) /\ lane.won = f[k]

\* Of two runs of places, one behind the other, the first of the smallest of both is that
\* of the first, unless that of the second beats it.
LEMMA FirstOfBoth ==
    ASSUME NEW f, NEW gain, AreGains(f, gain), NEW a \in Nat, NEW b \in Int, NEW c \in Nat,
           1 <= a, b < c, c <= Len(f), Len(f) \in Nat,
           NEW k, FirstLeast(f, gain, a, b, k), NEW j, FirstLeast(f, gain, b + 1, c, j)
    PROVE  FirstLeast(f, gain, a, c, IF gain[f[j]] < gain[f[k]] THEN j ELSE k)
<1>1. k \in a..b /\ j \in (b + 1)..c /\ a <= b
  BY DEF FirstLeast
<1>2. \A i \in a..c : i \in 1..Len(f)
  OBVIOUS
<1>3. \A i \in a..c : gain[f[i]] \in Int
  BY <1>2 DEF AreGains
<1>4. \A i \in a..b : IF i < k THEN gain[f[i]] > gain[f[k]] ELSE gain[f[i]] >= gain[f[k]]
  BY DEF FirstLeast
<1>5. \A i \in (b + 1)..c : IF i < j THEN gain[f[i]] > gain[f[j]] ELSE gain[f[i]] >= gain[f[j]]
  BY DEF FirstLeast
<1>6. k \in a..c /\ j \in a..c
  BY <1>1
<1> DEFINE h == IF gain[f[j]] < gain[f[k]] THEN j ELSE k
<1>7. ASSUME NEW i \in a..c
      PROVE  IF i < h THEN gain[f[i]] > gain[f[h]] ELSE gain[f[i]] >= gain[f[h]]
  <2>1. gain[f[i]] \in Int /\ gain[f[k]] \in Int /\ gain[f[j]] \in Int
    BY <1>3, <1>6
  <2>2. CASE i \in a..b
    <3>1. i < j
      BY <1>1, <2>2
    <3>2. IF i < k THEN gain[f[i]] > gain[f[k]] ELSE gain[f[i]] >= gain[f[k]]
      BY <1>4, <2>2
    <3>3. CASE gain[f[j]] < gain[f[k]]
      <4>1. h = j
        BY <3>3
      <4>2. gain[f[i]] >= gain[f[k]]
        BY <2>1, <3>2
      <4> QED BY <2>1, <3>1, <3>3, <4>1, <4>2
    <3>4. CASE ~(gain[f[j]] < gain[f[k]])
      <4>1. h = k
        BY <3>4
      <4> QED BY <3>2, <4>1
    <3> QED BY <3>3, <3>4
  <2>3. CASE i \in (b + 1)..c
    <3>1. ~(i < k)
      BY <1>1, <2>3
    <3>2. IF i < j THEN gain[f[i]] > gain[f[j]] ELSE gain[f[i]] >= gain[f[j]]
      BY <1>5, <2>3
    <3>3. CASE gain[f[j]] < gain[f[k]]
      <4>1. h = j
        BY <3>3
      <4> QED BY <3>2, <4>1
    <3>4. CASE ~(gain[f[j]] < gain[f[k]])
      <4>1. h = k
        BY <3>4
      <4>2. gain[f[i]] >= gain[f[j]]
        BY <2>1, <3>2
      <4> QED BY <2>1, <3>1, <3>4, <4>1, <4>2
    <3> QED BY <3>3, <3>4
  <2>4. i \in a..b \/ i \in (b + 1)..c
    OBVIOUS
  <2> QED BY <2>2, <2>3, <2>4
<1> HIDE DEF h
<1>8. h \in a..c
  BY <1>6 DEF h
<1>9. FirstLeast(f, gain, a, c, h)
  BY <1>7, <1>8 DEF FirstLeast
<1> QED BY <1>9 DEF h

\* A lane takes its next entrant on.
LEMMA LaneGoesOn ==
    ASSUME NEW lane, NEW f, NEW gain, NEW from \in Nat, NEW to \in Nat,
           1 <= from, from <= to, to <= Len(f), Len(f) \in Nat, AreGains(f, gain),
           IsLane(lane, f, gain, from, to), Running(lane)
    PROVE  LET n == f[lane.next]
               next == IF gain[n] = Fails THEN [lane EXCEPT !.failed = TRUE]
                       ELSE [lane EXCEPT !.next = @ + 1,
                                         !.won = IF Beats(gain, n, @) THEN n ELSE @]
           IN  IsLane(next, f, gain, from, to)
<1> DEFINE p == lane.next
           n == f[p]
           won == lane.won
           on == [lane EXCEPT !.next = @ + 1, !.won = IF Beats(gain, n, @) THEN n ELSE @]
           out == [lane EXCEPT !.failed = TRUE]
           fields == {"next", "last", "won", "failed"}
<1>1. /\ lane = [x \in fields |-> lane[x]] /\ lane.last = to
      /\ lane.failed = FALSE /\ p \in from..to
  <2>1. /\ lane = [x \in fields |-> lane[x]] /\ lane.last = to
        /\ lane.failed \in BOOLEAN /\ p \in from..(to + 1)
    BY DEF IsLane
  <2>2. ~lane.failed /\ p <= lane.last
    BY DEF Running
  <2> QED BY <2>1, <2>2
<1>2. IsLane(out, f, gain, from, to)
  <2>1. /\ out = [x \in fields |-> out[x]] /\ out.last = to
        /\ out.next = p /\ out.won = won /\ out.failed = TRUE
    BY <1>1
  <2> HIDE DEF out
  <2> QED BY <2>1 DEF IsLane
<1>3. IsLane(on, f, gain, from, to)
  <2> DEFINE best == IF Beats(gain, n, won) THEN n ELSE won
  <2>1. /\ on = [x \in fields |-> on[x]] /\ on.last = to
        /\ on.next = p + 1 /\ on.won = best /\ on.failed = FALSE
    BY <1>1
  <2> HIDE DEF on, best
  <2>2. p + 1 \in from..(to + 1) /\ p + 1 # from /\ (p + 1) - 1 = p
    BY <1>1
  <2>3. FirstLeast(f, gain, p, p, p)
    <3>1. p \in 1..Len(f) /\ p \in p..p /\ \A j \in p..p : j = p
      BY <1>1
    <3>2. gain[f[p]] \in Int
      BY <3>1 DEF AreGains
    <3> HIDE DEF p
    <3> QED BY <3>1, <3>2 DEF FirstLeast
  <2>4. \E k : FirstLeast(f, gain, from, p, k) /\ best = f[k]
    <3>1. CASE p = from
      <4>1. won = 0
        BY <3>1 DEF IsLane
      <4>2. best = f[p]
        BY <4>1 DEF best, Beats
      <4> QED BY <2>3, <3>1, <4>2
    <3>2. CASE p # from
      <4>1. PICK k : FirstLeast(f, gain, from, p - 1, k) /\ won = f[k]
        BY <3>2 DEF IsLane
      <4>2. k \in 1..Len(f) /\ p \in Nat /\ p - 1 \in Int /\ p - 1 < p /\ p <= Len(f)
            /\ (p - 1) + 1 = p
        BY <1>1, <4>1 DEF FirstLeast
      <4>3. won # 0
        BY <4>1, <4>2 DEF AreGains
      <4> DEFINE h == IF gain[f[p]] < gain[f[k]] THEN p ELSE k
      <4>4. FirstLeast(f, gain, from, p, h)
        <5> HIDE DEF p
        <5> QED BY <2>3, <4>1, <4>2, FirstOfBoth
      <4>5. best = f[h]
        BY <4>1, <4>3 DEF best, Beats
      <4> QED BY <4>4, <4>5
    <3> QED BY <3>1, <3>2
  <2> HIDE DEF p
  <2> QED BY <2>1, <2>2, <2>4 DEF IsLane
<1> QED BY <1>2, <1>3

\* A race of the whole field: in lanes of some length, or, to be stored, in none.
IsRace(race, f, gain) ==
    \E e \in 0..(Len(f) - 1) :
        LET m == LaneCount(Len(f), e)
        IN  /\ race = [l \in 1..m |-> race[l]]
            /\ \A l \in 1..m :
                  IsLane(race[l], f, gain, LaneFrom(Len(f), e, l), LaneTo(Len(f), e, l))

LEMMA RaceBegins ==
    ASSUME NEW f, NEW gain, Len(f) \in Nat, Len(f) > 0, NEW e \in 0..(Len(f) - 1)
    PROVE  IsRace(LanesFor(Len(f), e), f, gain)
<1> DEFINE n == Len(f)
           m == LaneCount(n, e)
           race == LanesFor(n, e)
<1>1. m \in Nat /\ \A l \in 1..m : /\ LaneFrom(n, e, l) \in Nat /\ LaneTo(n, e, l) \in Nat
                                   /\ LaneFrom(n, e, l) <= LaneTo(n, e, l)
  BY LanesCover
<1>2. race = [l \in 1..m |-> LaneOf(n, e, l)]
  BY DEF LanesFor, LaneCount
<1> HIDE DEF race, m, n
<1>3. race = [l \in 1..m |-> race[l]]
  BY <1>2
<1>4. ASSUME NEW l \in 1..m PROVE IsLane(race[l], f, gain, LaneFrom(n, e, l), LaneTo(n, e, l))
  <2> DEFINE a == LaneFrom(n, e, l)
             b == LaneTo(n, e, l)
             lane == LaneOf(n, e, l)
  <2>1. a \in Nat /\ b \in Nat /\ a <= b
    BY <1>1
  <2>2. lane = [next |-> a, last |-> b, won |-> 0, failed |-> FALSE]
    BY DEF LaneOf, LaneFrom, LaneTo
  <2>3. race[l] = lane
    BY <1>2
  <2> HIDE DEF a, b, lane
  <2>4. lane.next = a /\ lane.won = 0 /\ lane.failed = FALSE
    BY <2>2
  <2>5. IsLane(lane, f, gain, a, b)
    BY <2>1, <2>2, <2>4 DEF IsLane
  <2> QED BY <2>3, <2>5 DEF a, b
<1>5. IsRace(race, f, gain)
  BY <1>3, <1>4 DEF IsRace, m, n
<1> QED BY <1>5 DEF race, n

\* All lanes at their end, the first of the smallest of all is the first of theirs.
LEMMA FirstOfAll ==
    ASSUME NEW race, NEW f, NEW gain, Len(f) \in Nat, Len(f) > 0, AreGains(f, gain),
           IsRace(race, f, gain),
           \A l \in DOMAIN race : ~race[l].failed /\ ~Running(race[l])
    PROVE  \E k : /\ FirstLeast(f, gain, 1, Len(f), k)
                  /\ Overall(gain, [l \in DOMAIN race |-> race[l].won]) = f[k]
<1> DEFINE n == Len(f)
<1>1. PICK e \in 0..(n - 1) :
         /\ race = [l \in 1..LaneCount(n, e) |-> race[l]]
         /\ \A l \in 1..LaneCount(n, e) :
               IsLane(race[l], f, gain, LaneFrom(n, e, l), LaneTo(n, e, l))
  BY DEF IsRace
<1> DEFINE m == LaneCount(n, e)
           W == [l \in DOMAIN race |-> race[l].won]
<1>2. m \in Nat /\ m > 0 /\ LaneFrom(n, e, 1) = 1 /\ LaneTo(n, e, m) = n
  BY LanesCover
<1>3. \A l \in 1..m : /\ LaneFrom(n, e, l) \in Nat /\ LaneTo(n, e, l) \in Nat
                      /\ 1 <= LaneFrom(n, e, l) /\ LaneFrom(n, e, l) <= LaneTo(n, e, l)
                      /\ LaneTo(n, e, l) <= n
                      /\ l < m => LaneFrom(n, e, l + 1) = LaneTo(n, e, l) + 1
  BY LanesCover
<1>4. DOMAIN race = 1..m /\ \A l \in 1..m : IsLane(race[l], f, gain, LaneFrom(n, e, l), LaneTo(n, e, l))
  BY <1>1
<1> HIDE DEF m
<1>5. ASSUME NEW l \in 1..m
      PROVE  \E k : FirstLeast(f, gain, LaneFrom(n, e, l), LaneTo(n, e, l), k) /\ W[l] = f[k]
  <2> DEFINE a == LaneFrom(n, e, l)
             b == LaneTo(n, e, l)
             lane == race[l]
  <2>1. IsLane(lane, f, gain, a, b) /\ ~lane.failed /\ ~Running(lane) /\ W[l] = lane.won
    BY <1>4
  <2>2. a \in Nat /\ b \in Nat /\ a <= b
    BY <1>3
  <2> HIDE DEF a, b, lane
  <2>3. lane.last = b
    BY <2>1 DEF IsLane
  <2>4. lane.next = b + 1
    <3>1. lane.next \in a..(b + 1) /\ ~(lane.next <= b)
      BY <2>1, <2>3 DEF IsLane, Running
    <3> QED BY <2>2, <3>1
  <2>5. lane.next # a /\ lane.next - 1 = b
    BY <2>2, <2>4
  <2>6. \E k : FirstLeast(f, gain, a, b, k) /\ lane.won = f[k]
    BY <2>1, <2>5 DEF IsLane
  <2> QED BY <2>1, <2>6 DEF a, b
<1>6. IsSeq(W) /\ Len(W) = m
  <2>1. W = [l \in 1..m |-> W[l]]
    BY <1>4
  <2> HIDE DEF W
  <2> QED BY <1>2, <2>1, IsSeqByLength
<1>7. PICK g : IsRun(g, "better", gain, 0, W) /\ g[m] = Overall(gain, W)
  BY <1>6, OverallRuns
<1> HIDE DEF W
<1>8. g[0] = 0 /\ \A l \in 0..(m - 1) : g[l + 1] = BetterOne(gain, g[l], W[l + 1])
  BY <1>6, <1>7 DEF IsRun, OneStep
<1> DEFINE Ahead(l) == \E k : FirstLeast(f, gain, 1, LaneTo(n, e, l), k) /\ g[l] = f[k]
           T == { l \in Nat : l + 1 <= m => Ahead(l + 1) }
<1>9. 0 \in T
  <2>1. 1 \in 1..m /\ 0 \in 0..(m - 1) /\ 0 + 1 = 1
    BY <1>2
  <2>2. PICK k : FirstLeast(f, gain, 1, LaneTo(n, e, 1), k) /\ W[1] = f[k]
    BY <1>2, <1>5, <2>1
  <2>3. k \in 1..n
    <3>1. k \in 1..LaneTo(n, e, 1)
      BY <2>2 DEF FirstLeast
    <3> QED BY <1>3, <2>1, <3>1
  <2>4. W[1] # 0
    BY <2>2, <2>3 DEF AreGains
  <2>5. g[1] = BetterOne(gain, 0, W[1])
    BY <1>8, <2>1
  <2>6. g[1] = W[1]
    BY <2>4, <2>5 DEF BetterOne, Beats
  <2>7. Ahead(1)
    BY <2>2, <2>6
  <2> QED BY <2>1, <2>7
<1>10. ASSUME NEW i \in Nat, i \in T PROVE i + 1 \in T
  <2> SUFFICES ASSUME (i + 1) + 1 <= m PROVE Ahead((i + 1) + 1)
    OBVIOUS
  <2> DEFINE l == i + 1
  <2>1. /\ l \in Nat /\ l \in 1..m /\ l + 1 \in 1..m /\ l < m /\ l \in 0..(m - 1)
    BY <1>2
  <2>2. Ahead(l)
    BY <1>10, <2>1
  <2> HIDE DEF l
  <2> DEFINE b == LaneTo(n, e, l)
             d == LaneTo(n, e, l + 1)
  <2>3. PICK k : FirstLeast(f, gain, 1, b, k) /\ g[l] = f[k]
    BY <2>2
  <2>4. PICK j : FirstLeast(f, gain, LaneFrom(n, e, l + 1), d, j) /\ W[l + 1] = f[j]
    BY <1>5, <2>1
  <2>5. /\ LaneFrom(n, e, l + 1) = b + 1 /\ b \in Nat /\ d \in Nat /\ b + 1 <= d /\ d <= n
    <3>1. LaneFrom(n, e, l + 1) = b + 1 /\ b \in Nat
      BY <1>3, <2>1
    <3>2. d \in Nat /\ LaneFrom(n, e, l + 1) <= d /\ d <= n
      BY <1>3, <2>1
    <3> QED BY <3>1, <3>2
  <2> HIDE DEF b, d
  <2>6. k \in 1..n /\ j \in 1..n
    BY <2>3, <2>4, <2>5 DEF FirstLeast
  <2>7. f[k] # 0 /\ f[j] # 0
    BY <2>6 DEF AreGains
  <2>8. g[l + 1] = BetterOne(gain, f[k], f[j])
    BY <1>8, <2>1, <2>3, <2>4
  <2> DEFINE h == IF gain[f[j]] < gain[f[k]] THEN j ELSE k
  <2>9. g[l + 1] = f[h]
    BY <2>7, <2>8 DEF BetterOne, Beats
  <2>10. FirstLeast(f, gain, 1, d, h)
    <3>1. FirstLeast(f, gain, b + 1, d, j)
      BY <2>4, <2>5
    <3>2. b \in Int /\ b < d /\ 1 \in Nat /\ 1 <= 1
      BY <2>5
    <3> QED BY <2>3, <2>5, <3>1, <3>2, FirstOfBoth
  <2> QED BY <2>9, <2>10 DEF d, l
<1> HIDE DEF T, Ahead
<1>11. m - 1 \in Nat /\ m - 1 \in T
  <2>1. \A i \in Nat : i \in T
    BY <1>9, <1>10, Counting
  <2>2. m - 1 \in Nat
    BY <1>2
  <2> QED BY <2>1, <2>2
<1>12. Ahead(m)
  <2>1. (m - 1) + 1 = m /\ m <= m
    BY <1>2
  <2> QED BY <1>11, <2>1 DEF T
<1>13. Overall(gain, W) = g[m] /\ LaneTo(n, e, m) = n
  BY <1>2, <1>7
<1> QED BY <1>12, <1>13 DEF Ahead, W

----------------------------------------------------------------------------
(* A unit, from its bytes to the record and back.                            *)

LEMMA NoFilter == FilterOf(0) = "none" /\ ~Rebuilds(0)
<1>1. 0 \notin 2..MaxDeltaId
  BY DeltaAssumption DEF MaxDeltaId
<1>2. "none" \in DOMAIN NamedFilters /\ \A f \in DOMAIN NamedFilters : NamedFilters[f] = 0 <=> f = "none"
  BY DEF NamedFilters
<1>3. (CHOOSE f \in DOMAIN NamedFilters : NamedFilters[f] = 0) = "none"
  BY <1>2
<1>4. FilterOf(0) = "none"
  BY <1>1, <1>2, <1>3 DEF FilterOf
<1> QED BY <1>4 DEF Rebuilds

\* Every codec has an id of its own.
LEMMA CodecOfItsId ==
    ASSUME NEW c \in DOMAIN CodecIds
    PROVE  CodecOf(CodecIds[c]) = c
<1>1. \A d \in DOMAIN CodecIds : CodecIds[d] = CodecIds[c] => d = c
  BY DEF CodecIds
<1>2. (CHOOSE d \in DOMAIN CodecIds : CodecIds[d] = CodecIds[c]) = c
  BY <1>1
<1> QED BY <1>2 DEF CodecOf

IsTaken == \E n \in DOMAIN Cases : job \in Cases[n]

LEMMA TakenIsJob == IsTaken => IsJob(job)
  BY JobAssumption DEF IsTaken

\* What codecs may be fed: it can be undone, is no longer than a reader accepts, and is
\* empty only where the unit is.
IsForm(id, form) ==
    /\ form # Refused /\ Unapply(id, form) = Original(job)
    /\ CodedLength(id, form) \in 0..MaxCoded
    /\ CodedLength(id, form) = 0 => Unpacked = 0

IsKept(rec) ==
    /\ rec.payload.size <= Unpacked
    /\ CodedLen(rec) <= MaxCoded
    /\ Verify(rec) = Original(job)

\* The original is one, with no filter.
LEMMA OriginalIsForm == IsJob(job) => IsForm(0, Original(job))
  BY DEF IsJob, IsForm, Unpacked

\* A record of what can be undone is read back, whatever codec it was.
LEMMA RecordIsKept ==
    ASSUME NEW codec \in DOMAIN CodecIds, NEW param, NEW id, NEW form, NEW size,
           IsForm(id, form), Unpacked \in 0..MaxCoded, size <= Unpacked, MaxCoded \in Nat
    PROVE  LET length == CodedLength(id, form)
           IN  IsKept(Record(codec, param, id, length, Compress(codec, param, form, length, size)))
<1> DEFINE length == CodedLength(id, form)
           payload == Compress(codec, param, form, length, size)
           rec == Record(codec, param, id, length, payload)
<1>1. /\ length \in 0..MaxCoded /\ (length = 0 => Unpacked = 0)
      /\ form # Refused /\ Unapply(id, form) = Original(job)
  BY DEF IsForm
<1>2. /\ payload.holds = form /\ payload.length = length /\ payload.size = size
      /\ payload.by = codec /\ payload.setting = Setting(codec, param, length)
  BY DEF Compress
<1> HIDE DEF payload, length
<1>3. /\ rec.payload = payload /\ rec.codec = CodecIds[codec] /\ rec.param = param
      /\ rec.filter = id /\ rec.unpacked = Unpacked
      /\ rec.filtered = IF length = Unpacked THEN 0 ELSE length
  BY DEF Record
<1> HIDE DEF rec
<1>4. CodedLen(rec) = length
  BY <1>1, <1>3 DEF CodedLen
<1>5. Decompress(CodecOf(rec.codec), rec.payload, CodedLen(rec), rec.param) = form
  BY <1>2, <1>3, <1>4, CodecOfItsId DEF Decompress
<1>6. Verify(rec) = Original(job)
  BY <1>1, <1>3, <1>4, <1>5 DEF Verify
<1>7. IsKept(rec)
  BY <1>1, <1>2, <1>3, <1>4, <1>6 DEF IsKept
<1> QED BY <1>7 DEF rec, payload, length

\* Whoever won, what is kept of the three is.
LEMMA KeepIsKept ==
    ASSUME IsJob(job), MaxCoded \in Nat, IsForm(filter, data),
           NEW n, n = 0 \/ n \in DOMAIN job.candidates
    PROVE  IsKept(KeepOf(n, CodedLength(filter, data)))
<1> DEFINE length == CodedLength(filter, data)
<1>1. Unpacked \in 0..MaxCoded /\ CodedLength(0, Original(job)) = Unpacked
  BY DEF IsJob, Unpacked
<1>2. length \in 0..MaxCoded
  BY DEF IsForm
<1>3. "store" \in DOMAIN CodecIds
  BY DEF CodecIds
<1>4. Restored(filter, data) = Original(job)
  BY DEF Restored, IsForm
<1>5. IsKept(Stored(0, Restored(filter, data), Unpacked))
  <2>1. IsForm(0, Original(job)) /\ Unpacked <= Unpacked
    BY <1>1, OriginalIsForm
  <2>2. IsKept(Record("store", 0, 0, CodedLength(0, Original(job)),
                      Compress("store", 0, Original(job), CodedLength(0, Original(job)), Unpacked)))
    BY <1>1, <1>3, <2>1, RecordIsKept
  <2> QED BY <1>1, <1>4, <2>2 DEF Stored
<1>6. ASSUME length < Unpacked PROVE IsKept(Stored(filter, data, length))
  <2>1. length <= Unpacked
    BY <1>1, <1>2, <1>6
  <2>2. IsKept(Record("store", 0, filter, length, Compress("store", 0, data, length, length)))
    BY <1>1, <1>3, <2>1, RecordIsKept
  <2> QED BY <2>2 DEF Stored
<1>7. ASSUME n # 0, job.gain[n] < 0 PROVE IsKept(CodedBy(n, length))
  <2> DEFINE codec == job.candidates[n].codec
             param == job.candidates[n].param
             size == Unpacked + job.gain[n]
  <2>1. codec \in DOMAIN CodecIds
    <3> DEFINE S == [codec : DOMAIN CodecIds, param : Nat]
    <3>1. job.candidates \in Seq(S) /\ n \in DOMAIN job.candidates
      BY <1>7 DEF IsJob
    <3>2. \A x \in S : x.codec \in DOMAIN CodecIds
      OBVIOUS
    <3> HIDE DEF S
    <3>3. job.candidates[n] \in S
      BY <3>1
    <3> QED BY <3>2, <3>3
  <2>2. job.gain[n] \in Int
    BY <1>7 DEF IsJob
  <2>3. size <= Unpacked
    BY <1>1, <1>7, <2>2
  <2> HIDE DEF codec, param, size
  <2>4. IsKept(Record(codec, param, filter, length, Compress(codec, param, data, length, size)))
    BY <1>1, <2>1, <2>3, RecordIsKept
  <2> QED BY <2>4 DEF CodedBy, codec, param, size
<1> QED BY <1>5, <1>6, <1>7 DEF KeepOf

----------------------------------------------------------------------------
(* The invariant of a job.                                                   *)

Stages == {"filter", "prove", "qualify", "race", "lanes", "failed", "stored", "read"}

\* What the codecs are fed has been undone, or is the original, by the time they run.
FormInv ==
    /\ stage = "filter" => filter = job.filter
    /\ stage = "prove" => /\ filter = job.filter /\ data = Apply(job)
                          /\ data # Refused /\ Rebuilds(filter) /\ ~TooLong(filter, data)
    /\ stage \in {"qualify", "race", "lanes"} => IsForm(filter, data)

RaceInv ==
    /\ stage \in {"race", "lanes"} => IsField(field, job.candidates)
    /\ stage = "lanes" => lanes = <<>> \/ IsRace(lanes, field, job.gain)

KeptInv ==
    /\ stage \notin {"stored", "read"} => done = Nothing
    /\ stage \in {"stored", "read"} => IsKept(done)
    /\ stage = "read" => back = Original(job)

UnitInv == IsTaken /\ stage \in Stages /\ FormInv /\ RaceInv /\ KeptInv

LEMMA InitUnit == Init => UnitInv
  BY DEF Init, UnitInv, IsTaken, Stages, FormInv, RaceInv, KeptInv

\* What is said of a job that does not change.
LEMMA SameJob ==
    ASSUME UNCHANGED job
    PROVE  /\ (IsTaken)' = IsTaken /\ (Unpacked)' = Unpacked
           /\ \A id, form : (IsForm(id, form))' = IsForm(id, form)
           /\ \A rec : (IsKept(rec))' = IsKept(rec)
  BY DEF IsTaken, Unpacked, IsForm, IsKept, CodedLen, Verify

\* The bytes without a filter are what every failure of a filter comes to.
LEMMA PlainKeeps ==
    ASSUME UnitInv, stage \in {"filter", "prove"}, Plain(Original(job)),
           UNCHANGED <<job, field, lanes, done, back>>
    PROVE  UnitInv'
<1>1. IsForm(0, Original(job))
  BY TakenIsJob, OriginalIsForm DEF UnitInv
<1>2. filter' = 0 /\ data' = Original(job) /\ stage' = "qualify"
  BY DEF Plain
<1>3. IsTaken' /\ (IsForm(filter, data))'
  <2>1. (IsForm(0, Original(job)))'
    BY <1>1, SameJob
  <2>2. Original(job)' = Original(job)
    OBVIOUS
  <2>3. IsTaken'
    BY SameJob DEF UnitInv
  <2> QED BY <1>2, <2>1, <2>2, <2>3
<1>4. FormInv' /\ RaceInv' /\ stage' \in Stages
  BY <1>2, <1>3 DEF FormInv, RaceInv, Stages
<1>5. KeptInv'
  BY <1>2 DEF KeptInv, UnitInv, Nothing
<1> QED BY <1>3, <1>4, <1>5 DEF UnitInv

LEMMA ApplyFilterKeeps == UnitInv /\ ApplyFilter => UnitInv'
<1> SUFFICES ASSUME UnitInv, ApplyFilter PROVE UnitInv'
  OBVIOUS
<1> DEFINE coded == Apply(job)
<1>1. /\ stage = "filter" /\ filter = job.filter /\ IsJob(job)
      /\ UNCHANGED <<job, field, lanes, done, back>>
  BY TakenIsJob DEF UnitInv, FormInv, ApplyFilter
<1>2. CASE Plain(Original(job))
  BY <1>1, <1>2, PlainKeeps
<1>3. ASSUME coded # Refused, Plain(Restored(filter, coded)) PROVE UnitInv'
  <2>1. Restored(filter, coded) = Original(job)
    BY <1>1, <1>3 DEF Restored, IsJob
  <2>2. Plain(Original(job))
    BY <1>3, <2>1
  <2> QED BY <1>2, <2>2
<1>4. ASSUME coded # Refused, ~TooLong(filter, coded), data' = coded,
             stage' = IF Rebuilds(filter) THEN "prove" ELSE "qualify", UNCHANGED filter
      PROVE  UnitInv'
  <2>1. IsTaken'
    BY <1>1, SameJob DEF UnitInv
  <2>2. stage' \in Stages /\ RaceInv'
    BY <1>1, <1>4 DEF Stages, RaceInv
  <2>3. KeptInv'
    BY <1>1, <1>4 DEF KeptInv, UnitInv, Nothing
  <2>4. CASE Rebuilds(filter)
    <3>1. stage' = "prove" /\ filter' = filter /\ data' = coded /\ job' = job
      BY <1>1, <1>4, <2>4
    <3>2. (TooLong(filter, data))' = TooLong(filter, coded)
      BY <3>1 DEF TooLong
    <3>3. FormInv'
      BY <1>1, <1>4, <2>4, <3>1, <3>2 DEF FormInv
    <3> QED BY <2>1, <2>2, <2>3, <3>3 DEF UnitInv
  <2>5. CASE ~Rebuilds(filter)
    <3>1. stage' = "qualify" /\ filter' = filter /\ data' = coded /\ job' = job
      BY <1>1, <1>4, <2>5
    <3>2. IsForm(filter, coded)
      <4>1. Unapply(filter, coded) = Original(job) /\ CodedLength(filter, coded) = Unpacked
            /\ Unpacked \in 0..MaxCoded
        BY <1>1, <2>5 DEF IsJob, Unpacked
      <4> QED BY <1>4, <4>1 DEF IsForm
    <3>3. (IsForm(filter, data))' = IsForm(filter, coded)
      BY <3>1 DEF IsForm, Unpacked
    <3>4. FormInv'
      BY <3>1, <3>2, <3>3 DEF FormInv
    <3> QED BY <2>1, <2>2, <2>3, <3>4 DEF UnitInv
  <2> QED BY <2>4, <2>5
<1> QED BY <1>2, <1>3, <1>4 DEF ApplyFilter, Take

LEMMA ProveFilterKeeps == UnitInv /\ ProveFilter => UnitInv'
<1> SUFFICES ASSUME UnitInv, ProveFilter PROVE UnitInv'
  OBVIOUS
<1>1. /\ stage = "prove" /\ filter = job.filter /\ data = Apply(job) /\ data # Refused
      /\ Rebuilds(filter) /\ ~TooLong(filter, data) /\ IsJob(job)
      /\ UNCHANGED <<job, field, lanes, done, back>>
  BY TakenIsJob DEF UnitInv, FormInv, ProveFilter
<1>2. CASE Plain(Original(job))
  BY <1>1, <1>2, PlainKeeps
<1>3. ASSUME Proves(filter, data, Original(job)), stage' = "qualify", UNCHANGED <<filter, data>>
      PROVE  UnitInv'
  <2>1. CodedLength(filter, data) \in Nat \ {0}
    BY <1>1 DEF IsJob
  <2>2. CodedLength(filter, data) <= MaxCoded
    BY <1>1, <2>1, JobAssumption DEF TooLong
  <2>3. IsForm(filter, data)
    BY <1>1, <1>3, <2>1, <2>2, JobAssumption DEF IsForm, Proves
  <2>4. (IsForm(filter, data))' = IsForm(filter, data)
    BY <1>1, <1>3 DEF IsForm, Unpacked
  <2>5. FormInv' /\ RaceInv' /\ stage' \in Stages
    BY <1>3, <2>3, <2>4 DEF FormInv, RaceInv, Stages
  <2>6. KeptInv'
    BY <1>1, <1>3 DEF KeptInv, UnitInv, Nothing
  <2>7. IsTaken'
    BY <1>1, SameJob DEF UnitInv
  <2> QED BY <2>5, <2>6, <2>7 DEF UnitInv
<1> QED BY <1>2, <1>3 DEF ProveFilter

\* What the codecs are fed does not change while they run.
LEMMA FormStays ==
    ASSUME UnitInv, stage \in {"qualify", "race", "lanes"}, UNCHANGED <<job, filter, data>>
    PROVE  /\ IsForm(filter, data) /\ (IsForm(filter, data))' /\ IsTaken' /\ IsJob(job)
<1>1. IsForm(filter, data) /\ IsTaken
  BY DEF UnitInv, FormInv
<1>2. (IsForm(filter, data))' = IsForm(filter, data)
  BY DEF IsForm, Unpacked
<1> QED BY <1>1, <1>2, SameJob, TakenIsJob

LEMMA ThinFieldKeeps == UnitInv /\ ThinField => UnitInv'
<1> SUFFICES ASSUME UnitInv, ThinField PROVE UnitInv'
  OBVIOUS
<1>1. /\ stage = "qualify" /\ stage' = "race" /\ UNCHANGED <<job, filter, data, lanes, done, back>>
      /\ field' = Field(job.candidates, CodedLength(filter, data), job.trial)
  BY DEF ThinField
<1>2. IsForm(filter, data) /\ (IsForm(filter, data))' /\ IsTaken' /\ IsJob(job)
  BY <1>1, FormStays
<1>3. IsSeq(job.candidates) /\ job.candidates # <<>>
  BY <1>2, IsSeqOf DEF IsJob
<1>4. IsField(field', job.candidates)
  BY <1>1, <1>3, SomebodyRuns
<1>5. (IsField(field, job.candidates))' = IsField(field', job.candidates)
  BY <1>1 DEF IsField
<1>6. FormInv' /\ RaceInv' /\ stage' \in Stages
  BY <1>1, <1>2, <1>4, <1>5 DEF FormInv, RaceInv, Stages
<1>7. KeptInv'
  BY <1>1 DEF KeptInv, UnitInv, Nothing
<1> QED BY <1>2, <1>6, <1>7 DEF UnitInv

\* The field of a race, with what it makes of the unit.
LEMMA FieldGains ==
    ASSUME UnitInv, stage \in {"race", "lanes"}
    PROVE  /\ Len(field) \in Nat /\ Len(field) > 0 /\ AreGains(field, job.gain)
           /\ \A k \in 1..Len(field) : field[k] \in DOMAIN job.candidates
<1>1. IsField(field, job.candidates) /\ IsJob(job)
  BY TakenIsJob DEF UnitInv, RaceInv
<1>2. IsSeq(field) /\ Len(field) \in Nat /\ DOMAIN field = 1..Len(field) /\ Len(field) > 0
      /\ \A k \in 1..Len(field) : field[k] \in DOMAIN job.candidates /\ field[k] # 0
  BY <1>1, SeqFacts DEF IsField
<1>3. job.gain \in [DOMAIN job.candidates -> Int]
  BY <1>1 DEF IsJob
<1>4. AreGains(field, job.gain)
  BY <1>2, <1>3 DEF AreGains
<1> QED BY <1>2, <1>4

\* A step of the race changes the lanes only.
LEMMA RacingKeeps ==
    ASSUME UnitInv, stage \in {"race", "lanes"}, stage' = "lanes",
           UNCHANGED <<job, filter, data, field, done, back>>,
           lanes' = <<>> \/ IsRace(lanes', field, job.gain)
    PROVE  UnitInv'
<1>1. IsForm(filter, data) /\ (IsForm(filter, data))' /\ IsTaken' /\ IsJob(job)
  BY FormStays
<1>2. (IsField(field, job.candidates))' = IsField(field, job.candidates)
  BY DEF IsField
<1>3. (IsRace(lanes, field, job.gain))' = IsRace(lanes', field, job.gain)
  BY DEF IsRace, IsLane, FirstLeast
<1>4. (lanes = <<>> \/ IsRace(lanes, field, job.gain))'
  BY <1>3
<1>5. FormInv' /\ stage' \in Stages
  BY <1>1 DEF FormInv, Stages
<1>6. RaceInv'
  BY <1>2, <1>4 DEF RaceInv, UnitInv
<1>7. KeptInv'
  BY DEF KeptInv, UnitInv, Nothing
<1> QED BY <1>1, <1>5, <1>6, <1>7 DEF UnitInv

LEMMA StartRaceKeeps == UnitInv /\ StartRace => UnitInv'
<1> SUFFICES ASSUME UnitInv, StartRace PROVE UnitInv'
  OBVIOUS
<1>1. /\ stage = "race" /\ stage' = "lanes" /\ UNCHANGED <<job, filter, data, field, done, back>>
      /\ lanes' = <<>> \/ \E borrowed \in 0..(Len(field) - 1) : lanes' = LanesFor(Len(field), borrowed)
  BY DEF StartRace
<1>2. Len(field) \in Nat /\ Len(field) > 0
  BY <1>1, FieldGains
<1>3. lanes' = <<>> \/ IsRace(lanes', field, job.gain)
  BY <1>1, <1>2, RaceBegins
<1> QED BY <1>1, <1>3, RacingKeeps

LEMMA LaneStepKeeps == ASSUME NEW l \in DOMAIN lanes PROVE UnitInv /\ LaneStep(l) => UnitInv'
<1> SUFFICES ASSUME UnitInv, LaneStep(l) PROVE UnitInv'
  OBVIOUS
<1> DEFINE gain == job.gain
           n == field[lanes[l].next]
           next == After(lanes[l], n)
           f == Len(field)
<1>1. /\ stage = "lanes" /\ stage' = "lanes" /\ UNCHANGED <<job, filter, data, field, done, back>>
      /\ Running(lanes[l]) /\ lanes' = [lanes EXCEPT ![l] = next]
  BY DEF LaneStep
<1>2. f \in Nat /\ f > 0 /\ AreGains(field, gain)
  BY <1>1, FieldGains
<1>3. IsRace(lanes, field, gain)
  <2>1. lanes # <<>>
    OBVIOUS
  <2> QED BY <1>1, <2>1 DEF UnitInv, RaceInv
<1>4. PICK e \in 0..(f - 1) :
         /\ lanes = [k \in 1..LaneCount(f, e) |-> lanes[k]]
         /\ \A k \in 1..LaneCount(f, e) :
               IsLane(lanes[k], field, gain, LaneFrom(f, e, k), LaneTo(f, e, k))
  BY <1>3 DEF IsRace
<1> DEFINE m == LaneCount(f, e)
           a == LaneFrom(f, e, l)
           b == LaneTo(f, e, l)
<1>5. l \in 1..m /\ DOMAIN lanes = 1..m
  BY <1>4
<1>6. a \in Nat /\ b \in Nat /\ 1 <= a /\ a <= b /\ b <= f
  BY <1>2, <1>5, LanesCover
<1>7. IsLane(lanes[l], field, gain, a, b)
  BY <1>4, <1>5
<1>8. IsLane(next, field, gain, a, b)
  <2> HIDE DEF a, b
  <2> QED BY <1>1, <1>2, <1>6, <1>7, LaneGoesOn DEF After
<1> HIDE DEF next, m
<1>9. lanes' = [k \in 1..m |-> lanes'[k]]
  BY <1>1, <1>5
<1>10. ASSUME NEW k \in 1..m
       PROVE  IsLane(lanes'[k], field, gain, LaneFrom(f, e, k), LaneTo(f, e, k))
  <2>1. CASE k = l
    <3>1. lanes'[k] = next
      BY <1>1, <1>5, <2>1
    <3> QED BY <1>8, <2>1, <3>1
  <2>2. CASE k # l
    <3>1. lanes'[k] = lanes[k]
      BY <1>1, <1>5, <2>2
    <3>2. IsLane(lanes[k], field, gain, LaneFrom(f, e, k), LaneTo(f, e, k))
      BY <1>4 DEF m
    <3> QED BY <3>1, <3>2
  <2> QED BY <2>1, <2>2
<1>11. IsRace(lanes', field, gain)
  BY <1>9, <1>10 DEF IsRace, m
<1> QED BY <1>1, <1>11, RacingKeeps

\* A race without lanes has no winner.
LEMMA NoLanes ==
    ASSUME NEW gain
    PROVE  Overall(gain, [l \in DOMAIN <<>> |-> (<<>>)[l].won]) = 0
<1> DEFINE W == [l \in DOMAIN <<>> |-> (<<>>)[l].won]
<1>1. W = [l \in 1..0 |-> W[l]] /\ 0 \in Nat
  OBVIOUS
<1> HIDE DEF W
<1>2. IsSeq(W) /\ Len(W) = 0
  BY <1>1, IsSeqByLength
<1>3. PICK g : IsRun(g, "better", gain, 0, W) /\ g[0] = Overall(gain, W)
  BY <1>2, OverallRuns
<1>4. g[0] = 0
  BY <1>3 DEF IsRun
<1> QED BY <1>3, <1>4 DEF W

\* All lanes at their end, the winner is the first of the smallest of the field.
LEMMA WinnerOfLanes ==
    ASSUME UnitInv, stage = "lanes", Finished, lanes # <<>>,
           \A l \in DOMAIN lanes : ~lanes[l].failed
    PROVE  \E k \in 1..Len(field) : field[k] = Winner /\ FirstLeast(field, job.gain, 1, Len(field), k)
<1>1. Len(field) \in Nat /\ Len(field) > 0 /\ AreGains(field, job.gain)
  BY FieldGains
<1>2. IsRace(lanes, field, job.gain)
  BY DEF UnitInv, RaceInv
<1>3. \A l \in DOMAIN lanes : ~lanes[l].failed /\ ~Running(lanes[l])
  BY DEF Finished
<1>4. PICK k : /\ FirstLeast(field, job.gain, 1, Len(field), k)
               /\ Overall(job.gain, [l \in DOMAIN lanes |-> lanes[l].won]) = field[k]
  BY <1>1, <1>2, <1>3, FirstOfAll
<1>5. k \in 1..Len(field)
  BY <1>4 DEF FirstLeast
<1> QED BY <1>4, <1>5 DEF Winner

LEMMA EndRaceKeeps == UnitInv /\ EndRace => UnitInv'
<1> SUFFICES ASSUME UnitInv, EndRace PROVE UnitInv'
  OBVIOUS
<1>1. stage = "lanes" /\ Finished /\ UNCHANGED <<job, filter, data, field, lanes, back>>
  BY DEF EndRace
<1>2. IsForm(filter, data) /\ (IsForm(filter, data))' /\ IsTaken' /\ IsJob(job) /\ done = Nothing
  BY <1>1, FormStays DEF UnitInv, KeptInv
<1>3. CASE stage' = "failed" /\ UNCHANGED done
  <2>1. FormInv' /\ RaceInv' /\ stage' \in Stages
    BY <1>3 DEF FormInv, RaceInv, Stages
  <2>2. KeptInv'
    BY <1>2, <1>3 DEF KeptInv, Nothing
  <2> QED BY <1>2, <2>1, <2>2 DEF UnitInv
<1>4. ASSUME ~(\E l \in DOMAIN lanes : lanes[l].failed), stage' = "stored", done' = Keep
      PROVE  UnitInv'
  <2>1. Winner = 0 \/ Winner \in DOMAIN job.candidates
    <3>1. CASE lanes = <<>>
      BY <3>1, NoLanes DEF Winner
    <3>2. CASE lanes # <<>>
      <4>1. PICK k \in 1..Len(field) : field[k] = Winner
        BY <1>1, <1>4, <3>2, WinnerOfLanes
      <4>2. field[k] \in DOMAIN job.candidates
        BY <1>1, FieldGains
      <4> QED BY <4>1, <4>2
    <3> QED BY <3>1, <3>2
  <2>2. IsKept(Keep)
    BY <1>2, <2>1, JobAssumption, KeepIsKept DEF Keep
  <2>3. (IsKept(done))'
    <3>1. (IsKept(done))' = IsKept(done')
      BY <1>1 DEF IsKept, CodedLen, Verify, Unpacked
    <3> QED BY <1>4, <2>2, <3>1
  <2>4. FormInv' /\ RaceInv' /\ stage' \in Stages
    BY <1>4 DEF FormInv, RaceInv, Stages
  <2>5. KeptInv'
    BY <1>4, <2>3 DEF KeptInv
  <2> QED BY <1>2, <2>4, <2>5 DEF UnitInv
<1> QED BY <1>3, <1>4 DEF EndRace

LEMMA ReadBackKeeps == UnitInv /\ ReadBack => UnitInv'
<1> SUFFICES ASSUME UnitInv, ReadBack PROVE UnitInv'
  OBVIOUS
<1>1. /\ stage = "stored" /\ stage' = "read" /\ back' = Verify(done)
      /\ UNCHANGED <<job, filter, data, field, lanes, done>>
  BY DEF ReadBack
<1>2. IsTaken' /\ IsKept(done)
  BY <1>1, SameJob DEF UnitInv, KeptInv
<1>3. (IsKept(done))' /\ back' = Original(job)
  <2>1. (IsKept(done))' = IsKept(done)
    BY <1>1 DEF IsKept, CodedLen, Verify, Unpacked
  <2> QED BY <1>1, <1>2, <2>1 DEF IsKept
<1>4. FormInv' /\ RaceInv' /\ stage' \in Stages
  BY <1>1 DEF FormInv, RaceInv, Stages
<1>5. KeptInv'
  BY <1>1, <1>3 DEF KeptInv
<1> QED BY <1>2, <1>4, <1>5 DEF UnitInv

LEMMA UnitSame == UnitInv /\ UNCHANGED vars => UnitInv'
<1> SUFFICES ASSUME UnitInv, UNCHANGED vars PROVE UnitInv'
  OBVIOUS
<1>1. /\ job' = job /\ filter' = filter /\ data' = data /\ stage' = stage /\ field' = field
      /\ lanes' = lanes /\ done' = done /\ back' = back
  BY DEF vars
<1>2. (IsForm(filter, data))' = IsForm(filter, data) /\ IsTaken' /\ stage' \in Stages
  BY <1>1 DEF UnitInv, IsForm, Unpacked, IsTaken
<1>3. FormInv'
  BY <1>1, <1>2 DEF UnitInv, FormInv, TooLong
<1>4. RaceInv'
  BY <1>1 DEF UnitInv, RaceInv, IsField, IsRace, IsLane, FirstLeast
<1>5. KeptInv'
  <2>1. (IsKept(done))' = IsKept(done)
    BY <1>1 DEF IsKept, CodedLen, Verify, Unpacked
  <2> QED BY <1>1, <2>1 DEF UnitInv, KeptInv, Nothing
<1> QED BY <1>2, <1>3, <1>4, <1>5 DEF UnitInv

LEMMA UnitStep == UnitInv /\ [Next]_vars => UnitInv'
  BY ApplyFilterKeeps, ProveFilterKeeps, ThinFieldKeeps, StartRaceKeeps, LaneStepKeeps,
     EndRaceKeeps, ReadBackKeeps, UnitSame DEF Next, Step, Over

LEMMA UnitHolds == Spec => []UnitInv
  BY InitUnit, UnitStep, PTL DEF Spec

\* Whatever the filters are and make of a unit, whichever codecs run and in however many
\* lanes, who has the record and the payload gets the original bytes (compress_job and
\* verify_chunk): what a rebuilding filter made is kept only when its decoder has undone it.
THEOREM ReadsBackHolds == Spec => []ReadsBack
<1>1. UnitInv => ReadsBack
  BY DEF UnitInv, KeptInv, ReadsBack
<1> QED BY <1>1, UnitHolds, PTL

\* No unit is stored in more bytes than it has, and none that a reader refuses for its
\* coded length (MAX_CODED_CHUNK in compress_job and verify_chunk).
THEOREM NeverWorseHolds == Spec => []NeverWorse
<1>1. UnitInv => NeverWorse
  <2> SUFFICES ASSUME UnitInv, done # Nothing PROVE IsKept(done)
    BY DEF NeverWorse, IsKept
  <2> QED BY DEF UnitInv, KeptInv
<1> QED BY <1>1, UnitHolds, PTL

\* The winner is the first among the smallest of the field, for any number of candidates
\* and of lanes, and in whatever order the lanes end (race in compress_job).
THEOREM FirstOfTheSmallestHolds == Spec => []FirstOfTheSmallest
<1>1. UnitInv => FirstOfTheSmallest
  <2> SUFFICES ASSUME UnitInv, stage = "lanes", Finished, lanes # <<>>,
                      \A l \in DOMAIN lanes : ~lanes[l].failed
               PROVE  \E k \in DOMAIN field :
                         /\ field[k] = Winner
                         /\ \A j \in DOMAIN field :
                               IF j < k THEN job.gain[field[j]] > job.gain[field[k]]
                               ELSE job.gain[field[j]] >= job.gain[field[k]]
    BY DEF FirstOfTheSmallest
  <2>1. PICK k \in 1..Len(field) :
           field[k] = Winner /\ FirstLeast(field, job.gain, 1, Len(field), k)
    BY WinnerOfLanes
  <2>2. DOMAIN field = 1..Len(field)
    BY SeqFacts DEF UnitInv, RaceInv, IsField
  <2> QED BY <2>1, <2>2 DEF FirstLeast
<1> QED BY <1>1, UnitHolds, PTL
=============================================================================
