------------------------------ MODULE SlotPool ------------------------------
(***************************************************************************)
(* Slots (pipeline.rs 203-285): workers lend the slots of idle workers to  *)
(* a job that runs the entrants of its tournament side by side. All shared *)
(* state is atomics; each load and each read-modify-write is a step.       *)
(*                                                                         *)
(* The jobs reach the workers as in Pipeline; the budget, which only makes *)
(* the reader wait, and the writer are left out.                           *)
(***************************************************************************)
EXTENDS Integers, FiniteSets, FiniteSetsExt

CONSTANTS Workers,   \* the worker threads
          N,         \* bound: the units that are submitted
          Wants,     \* the numbers of slots a race asks for: entrants - 1
          MaxRaces   \* bound: the races of one job

ASSUME SlotAssumption ==
    /\ IsFiniteSet(Workers) /\ Workers # {}
    /\ N \in Nat /\ MaxRaces \in Nat
    /\ Wants \subseteq Nat

VARIABLES
    reader,       \* where the reader is
    sent,         \* the jobs sent,
    taken,        \* received,
    ended,        \* and compressed
    outstanding,  \* Slots::outstanding
    lent,         \* Slots::lent
    sealed,       \* Slots::sealed
    worker,       \* where each worker is,
    races,        \* the races its job has left,
    want,         \* what it wants,
    seen,         \* the value of `lent` that it has,
    take,         \* what it is about to take,
    extra         \* and the slots it has borrowed

jobVars == <<reader, sent, taken, ended>>
slotVars == <<outstanding, lent, sealed>>
laneVars == <<races, want, seen, take, extra>>
poolVars == <<reader, sent, taken, ended, outstanding, lent, sealed, worker, races, want,
          seen, take, extra>>

Total == Cardinality(Workers)

SlotTypeOK ==
    /\ reader \in {"send", "count", "sealed"}
    /\ sent \in 0..N /\ taken \in 0..sent /\ ended \in 0..taken
    /\ outstanding \in 0..N /\ lent \in 0..Total /\ sealed \in BOOLEAN
    /\ worker \in [Workers -> {"idle", "running", "looking", "swapping", "racing"}]
    /\ races \in [Workers -> 0..MaxRaces] /\ want \in [Workers -> Wants \cup {0}]
    /\ seen \in [Workers -> 0..Total] /\ take \in [Workers -> 0..Total]
    /\ extra \in [Workers -> 0..Total]

PoolInit ==
    /\ reader = "send" /\ sent = 0 /\ taken = 0 /\ ended = 0
    /\ outstanding = 0 /\ lent = 0 /\ sealed = FALSE
    /\ worker = [w \in Workers |-> "idle"]
    /\ races = [w \in Workers |-> 0] /\ want = [w \in Workers |-> 0]
    /\ seen = [w \in Workers |-> 0] /\ take = [w \in Workers |-> 0]
    /\ extra = [w \in Workers |-> 0]

Least(a, b) == IF a <= b THEN a ELSE b

\* saturating_sub
Minus(a, b) == IF a >= b THEN a - b ELSE 0

----------------------------------------------------------------------------
(* The reader: submit_job sends first and counts second; pack_with seals. *)

Send ==
    /\ reader = "send" /\ sent < N
    /\ sent' = sent + 1
    /\ reader' = "count"
    /\ UNCHANGED <<taken, ended, slotVars, worker, laneVars>>

Submitted ==
    /\ reader = "count"
    /\ outstanding' = outstanding + 1
    /\ reader' = "send"
    /\ UNCHANGED <<sent, taken, ended, lent, sealed, worker, laneVars>>

Seal ==
    /\ reader = "send"
    /\ sealed' = TRUE
    /\ reader' = "sealed"
    /\ UNCHANGED <<sent, taken, ended, outstanding, lent, worker, laneVars>>

----------------------------------------------------------------------------
(* A worker: worker_loop, race, Slots::borrow. *)

TakeJob(w) ==
    /\ worker[w] = "idle" /\ taken < sent
    /\ taken' = taken + 1
    /\ worker' = [worker EXCEPT ![w] = "running"]
    /\ races' = [races EXCEPT ![w] = MaxRaces]
    /\ UNCHANGED <<reader, sent, ended, slotVars, want, seen, take, extra>>

\* "NOTHING IS LENT WHILE THE READER IS STILL PRODUCING"
MayAsk == sealed

\* A race begins. It looks at `lent`, or it runs its entrants one after another.
Race(w) ==
    /\ worker[w] = "running" /\ races[w] > 0
    /\ races' = [races EXCEPT ![w] = @ - 1]
    /\ \E n \in Wants :
        \/ /\ n > 0 /\ MayAsk
           /\ want' = [want EXCEPT ![w] = n]
           /\ seen' = [seen EXCEPT ![w] = lent]
           /\ worker' = [worker EXCEPT ![w] = "looking"]
        \/ /\ n = 0 \/ ~MayAsk
           /\ UNCHANGED <<want, seen, worker>>
    /\ UNCHANGED <<jobVars, slotVars, take, extra>>

\* What is free if only the units that a worker runs count, not those in the channel
\* and not the slots that are lent.
FreeOfRunning(w) == Minus(Total, Cardinality({ v \in Workers : worker[v] # "idle" }))

Free(w) == Minus(Total, outstanding + seen[w])

Look(w) ==
    /\ worker[w] = "looking"
    /\ LET n == Least(want[w], Free(w)) IN
        /\ take' = [take EXCEPT ![w] = n]
        /\ worker' = [worker EXCEPT ![w] = IF n = 0 THEN "running" ELSE "swapping"]
    /\ UNCHANGED <<jobVars, slotVars, races, want, seen, extra>>

\* compare_exchange_weak, which may fail although nothing has changed.
Swap(w) ==
    /\ worker[w] = "swapping"
    /\ \/ /\ lent = seen[w]
          /\ lent' = lent + take[w]
          /\ extra' = [extra EXCEPT ![w] = take[w]]
          /\ worker' = [worker EXCEPT ![w] = "racing"]
          /\ UNCHANGED seen
       \/ /\ seen' = [seen EXCEPT ![w] = lent]
          /\ worker' = [worker EXCEPT ![w] = "looking"]
          /\ UNCHANGED <<lent, extra>>
    /\ UNCHANGED <<jobVars, outstanding, sealed, races, want, take>>

\* What was asked for goes back, and not what was granted.
WantedBack(w) == lent - want[w]

AllBack(w) == lent - extra[w]

\* The lanes are joined. An error of one of them does not keep the slots.
GiveBack(w) ==
    /\ worker[w] = "racing"
    /\ lent' = AllBack(w)
    /\ extra' = [extra EXCEPT ![w] = 0]
    /\ worker' = [worker EXCEPT ![w] = "running"]
    /\ UNCHANGED <<jobVars, outstanding, sealed, races, want, seen, take>>

LessOneIfAny == Minus(outstanding, 1)

Finish(w) ==
    /\ worker[w] = "running"
    /\ ended' = ended + 1
    /\ outstanding' = LessOneIfAny
    /\ worker' = [worker EXCEPT ![w] = "idle"]
    /\ UNCHANGED <<reader, sent, taken, lent, sealed, laneVars>>

PoolNext ==
    \/ Send \/ Submitted \/ Seal
    \/ \E w \in Workers :
        TakeJob(w) \/ Race(w) \/ Look(w) \/ Swap(w) \/ GiveBack(w) \/ Finish(w)

PoolSpec == PoolInit /\ [][PoolNext]_poolVars

----------------------------------------------------------------------------
(* Properties. *)

\* The codecs that run: one in each worker that has a job, and one in each slot that a
\* job has borrowed.
CodecRuns ==
    Cardinality({ w \in Workers : worker[w] # "idle" })
        + MapThenSumSet(LAMBDA w : extra[w], Workers)

\* "concurrent codec runs never exceed the worker count": what Tier::worker_memory has
\* budgeted is enough. The count that lending reads is not what runs, and is read apart
\* from the swap.
CodecRunsBounded == CodecRuns <= Total

\* No unit that is not finished is without a slot of its own, once slots are lent: a
\* unit in the channel never waits for a slot that a race has taken.
NoSlotOfAJobIsLent == lent > 0 => lent + (sent - ended) <= Total
=============================================================================
