------------------------------ MODULE Pipeline ------------------------------
(***************************************************************************)
(* The packing pipeline (pipeline.rs): one reader submits units, a set of  *)
(* workers compresses them, one writer appends them to the archive in the  *)
(* order of submission, and a governor moves the limit of the memory       *)
(* budget that holds the reader back. The threads share two bounded        *)
(* channels, one mutex with a condition variable, and two atomics (limit   *)
(* and running).                                                           *)
(*                                                                         *)
(* Only Budget::acquire holds the mutex across a step of the model: it     *)
(* reads `limit`, which changes without the mutex, before it goes to       *)
(* sleep. Every other critical section is one action.                      *)
(***************************************************************************)
EXTENDS Integers, Sequences, FiniteSets

CONSTANTS Workers,    \* the worker threads
          N,          \* bound: the units that are submitted
          Through,    \* Through[n]: what the first n units are charged together
          Hard,       \* Budget::hard
          Floor,      \* Budget::floor, WORKER_CHUNK_BYTES
          MaxPanics   \* bound: threads that panic

ASSUME PipelineAssumption ==
    /\ IsFiniteSet(Workers) /\ Workers # {}
    /\ N \in Nat
    /\ Through \in [0..N -> Nat]
    /\ \A m, n \in 0..N : m < n => Through[m] < Through[n]    \* no unit is empty
    /\ Hard \in Nat /\ Floor \in Nat \ {0} /\ Floor <= Hard
    /\ MaxPanics \in Nat

VARIABLES
    reader,   \* where the reader is
    sent,     \* Submitter::next_seq; the channel of jobs is taken..sent-1
    taken,    \* jobs the workers have received
    open,     \* the sender of the job channel exists
    result,   \* what `produce` returned
    worker,   \* where each worker is,
    unit,     \* the unit it has,
    good,     \* and whether that was compressed
    done,     \* the channel from the workers to the writer
    writer,   \* where the writer is
    pending,  \* units that wait for one in front of them
    chunks,   \* the units written, in the order of the archive
    written,  \* what the writer returned
    used,     \* BudgetState::used
    aborted,  \* BudgetState::aborted
    limit,    \* Budget::limit
    governor, \* where the governor is
    running,  \* the flag that ends the governor
    panics    \* threads that panicked

readerVars == <<reader, sent, open, result>>
workerVars == <<worker, unit, good, panics>>
writerVars == <<writer, pending, chunks, written>>
budgetVars == <<used, aborted>>
governorVars == <<limit, governor, running>>
vars == <<reader, sent, taken, open, result, worker, unit, good, done, writer,
          pending, chunks, written, used, aborted, limit, governor, running, panics>>

Units == 0..(N - 1)

\* Job::charge: the input and a buffer for the output.
Charge(s) == Through[s + 1] - Through[s]

\* The capacity of either channel.
Capacity == 2 * Cardinality(Workers)

Least(a, b) == IF a <= b THEN a ELSE b
Most(a, b) == IF a >= b THEN a ELSE b

Outcomes == {"none", "ok", "err", "panic"}

TypeOK ==
    /\ reader \in {"produce", "acquire", "parking", "waiting", "send", "failed",
                   "abort", "join", "leave", "returned"}
    /\ sent \in 0..N /\ taken \in 0..sent
    /\ open \in BOOLEAN /\ result \in Outcomes
    /\ worker \in [Workers -> {"idle", "running", "sending", "gone", "panicked"}]
    /\ unit \in [Workers -> Nat] /\ good \in [Workers -> BOOLEAN]
    /\ done \in Seq([seq : Units, ok : BOOLEAN])
    /\ writer \in {"seek", "receive", "store", "release", "abort", "returned", "panicked"}
    /\ pending \subseteq Units /\ chunks \in Seq(Units) /\ written \in Outcomes
    /\ used \in Nat /\ aborted \in BOOLEAN
    /\ limit \in Floor..Hard
    /\ governor \in {"check", "sleep", "lock", "ring", "gone"}
    /\ running \in BOOLEAN
    /\ panics \in 0..MaxPanics

Init ==
    /\ reader = "produce" /\ sent = 0 /\ taken = 0 /\ open = TRUE /\ result = "none"
    /\ worker = [w \in Workers |-> "idle"]
    /\ unit = [w \in Workers |-> 0]
    /\ good = [w \in Workers |-> FALSE]
    /\ done = <<>>
    /\ writer = "seek" /\ pending = {} /\ chunks = <<>> /\ written = "none"
    /\ used = 0 /\ aborted = FALSE
    /\ limit = Most(Hard \div 4, Floor)
    /\ governor = "check" /\ running = TRUE
    /\ panics = 0

\* The budget's mutex. Nobody but Budget::acquire keeps it for more than a step.
Unlocked == reader # "parking"

\* Condvar::notify_all: only the reader ever waits.
Awake == IF reader = "waiting" THEN "acquire" ELSE reader

Halted(w) == worker[w] \in {"gone", "panicked"}

\* The writer has ended, and with it the receiver of what the workers send.
WriterGone == writer \in {"returned", "panicked"}

\* The workers that have a unit.
Busy == { w \in Workers : worker[w] \in {"running", "sending"} }

----------------------------------------------------------------------------
(* The reader: pack_with, Submitter::submit_job, Budget::acquire. *)

\* `produce` has a unit to submit.
Submit ==
    /\ reader = "produce" /\ sent < N
    /\ reader' = "acquire"
    /\ UNCHANGED <<sent, taken, open, result, workerVars, done, writerVars, budgetVars,
                   governorVars>>

\* A single unit larger than the budget is admitted when nothing is in flight.
Admits(n) == used = 0 \/ used + n <= limit

Acquire ==
    /\ reader = "acquire"
    /\ \/ /\ aborted
          /\ reader' = "failed"
          /\ UNCHANGED used
       \/ /\ ~aborted /\ Admits(Charge(sent))
          /\ used' = used + Charge(sent)
          /\ reader' = "send"
       \/ /\ ~aborted /\ ~Admits(Charge(sent))
          /\ reader' = "parking"
          /\ UNCHANGED used
    /\ UNCHANGED <<sent, taken, open, result, workerVars, done, writerVars, aborted,
                   governorVars>>

\* Condvar::wait: the mutex is released and the thread sleeps, in one.
Park ==
    /\ reader = "parking"
    /\ reader' = "waiting"
    /\ UNCHANGED <<sent, taken, open, result, workerVars, done, writerVars, budgetVars,
                   governorVars>>

\* A condition variable may wake without a notification.
WakeUnasked ==
    /\ reader = "waiting"
    /\ reader' = "acquire"
    /\ UNCHANGED <<sent, taken, open, result, workerVars, done, writerVars, budgetVars,
                   governorVars>>

\* The job goes into the channel, or every receiver is gone and it is dropped.
SendJob ==
    /\ reader = "send"
    /\ \/ /\ \E w \in Workers : ~Halted(w)
          /\ sent - taken < Capacity
          /\ sent' = sent + 1
          /\ reader' = "produce"
          /\ UNCHANGED used
       \/ /\ \A w \in Workers : Halted(w)
          /\ used' = Most(used - Charge(sent), 0)
          /\ reader' = "failed"
          /\ UNCHANGED sent
    /\ UNCHANGED <<taken, open, result, workerVars, done, writerVars, aborted, governorVars>>

\* `produce` returns: the channel is closed, and after an error the budget aborted.
\* It fails where a unit was refused, and may fail to read its input at any time.
ProduceEnds ==
    /\ \/ reader = "produce" /\ sent = N /\ result' = "ok"
       \/ reader \in {"produce", "failed"} /\ result' = "err"
    /\ open' = FALSE
    /\ reader' = IF result' = "err" THEN "abort" ELSE "join"
    /\ UNCHANGED <<sent, taken, workerVars, done, writerVars, budgetVars, governorVars>>

AbortByReader ==
    /\ reader = "abort"
    /\ used' = 0 /\ aborted' = TRUE
    /\ reader' = "join"
    /\ UNCHANGED <<sent, taken, open, result, workerVars, done, writerVars, governorVars>>

\* `produce` panics: the submitter is dropped and closes the channel, but the closure of
\* the scope is left, the budget not aborted and the governor not told to stop.
ProducePanics ==
    /\ reader \in {"produce", "failed"} /\ panics < MaxPanics
    /\ panics' = panics + 1 /\ result' = "panic"
    /\ open' = FALSE
    /\ reader' = "leave"
    /\ UNCHANGED <<sent, taken, worker, unit, good, done, writerVars, budgetVars,
                   governorVars>>

\* The writer is joined, and the governor told to stop, unless the writer panicked.
Join ==
    /\ reader = "join" /\ WriterGone
    /\ running' = (running /\ writer = "panicked")
    /\ reader' = "leave"
    /\ UNCHANGED <<sent, taken, open, result, workerVars, done, writerVars, budgetVars,
                   limit, governor>>

\* The scope ends when all its threads have, and panics itself where one of them did.
Leave ==
    /\ reader = "leave" /\ WriterGone
    /\ \A w \in Workers : Halted(w)
    /\ governor = "gone"
    /\ reader' = "returned"
    /\ UNCHANGED <<sent, taken, open, result, workerVars, done, writerVars, budgetVars,
                   governorVars>>

Reader ==
    \/ Submit \/ Acquire \/ Park \/ SendJob \/ ProduceEnds \/ AbortByReader
    \/ Join \/ Leave

----------------------------------------------------------------------------
(* A worker: worker_loop. *)

Take(w) ==
    /\ worker[w] = "idle" /\ taken < sent
    /\ worker' = [worker EXCEPT ![w] = "running"]
    /\ unit' = [unit EXCEPT ![w] = taken]
    /\ taken' = taken + 1
    /\ UNCHANGED <<readerVars, good, panics, done, writerVars, budgetVars, governorVars>>

\* The channel is closed and empty.
Quit(w) ==
    /\ worker[w] = "idle" /\ taken = sent /\ ~open
    /\ worker' = [worker EXCEPT ![w] = "gone"]
    /\ UNCHANGED <<readerVars, taken, unit, good, panics, done, writerVars, budgetVars,
                   governorVars>>

\* compress_job, with a block or with an error.
Compress(w) ==
    /\ worker[w] = "running"
    /\ worker' = [worker EXCEPT ![w] = "sending"]
    /\ \E ok \in BOOLEAN : good' = [good EXCEPT ![w] = ok]
    /\ UNCHANGED <<readerVars, taken, unit, panics, done, writerVars, budgetVars,
                   governorVars>>

SendDone(w) ==
    /\ worker[w] = "sending"
    /\ \/ /\ ~WriterGone /\ Len(done) < Capacity
          /\ done' = Append(done, [seq |-> unit[w], ok |-> good[w]])
          /\ worker' = [worker EXCEPT ![w] = "idle"]
       \/ /\ WriterGone
          /\ worker' = [worker EXCEPT ![w] = "gone"]
          /\ UNCHANGED done
    /\ UNCHANGED <<readerVars, taken, unit, good, panics, writerVars, budgetVars,
                   governorVars>>

\* compress_job panics: the unit and the worker are gone, and nobody is told.
Panic(w) ==
    /\ worker[w] = "running" /\ panics < MaxPanics
    /\ worker' = [worker EXCEPT ![w] = "panicked"]
    /\ panics' = panics + 1
    /\ UNCHANGED <<readerVars, taken, unit, good, done, writerVars, budgetVars,
                   governorVars>>

Worker(w) == Take(w) \/ Quit(w) \/ Compress(w) \/ SendDone(w)

----------------------------------------------------------------------------
(* The writer: writer_loop, Budget::release, Budget::abort. *)

\* `next`: the unit whose turn it is.
Turn == Len(chunks)

\* The writer looks for the end of the file first. Where that fails it returns the error,
\* and does not abort the budget.
Seek ==
    /\ writer = "seek"
    /\ \/ writer' = "receive" /\ UNCHANGED written
       \/ writer' = "returned" /\ written' = "err"
    /\ UNCHANGED <<readerVars, taken, workerVars, done, pending, chunks, budgetVars,
                   governorVars>>

Receive ==
    /\ writer = "receive" /\ done # <<>>
    /\ done' = Tail(done)
    /\ \/ /\ Head(done).ok
          /\ pending' = pending \cup {Head(done).seq}
          /\ writer' = "store"
       \/ /\ ~Head(done).ok
          /\ writer' = "abort"
          /\ UNCHANGED pending
    /\ UNCHANGED <<readerVars, taken, workerVars, chunks, written, budgetVars, governorVars>>

\* Whatever has arrived is written.
AnyPending == pending

\* The units that may be written next.
Ready == pending \cap {Turn}

Store ==
    /\ writer = "store"
    /\ \/ \E s \in Ready :
            /\ pending' = pending \ {s}
            /\ \/ writer' = "release" /\ chunks' = Append(chunks, s)
               \/ writer' = "abort" /\ UNCHANGED chunks      \* write_all fails
       \/ /\ Ready = {}
          /\ writer' = "receive"
          /\ UNCHANGED <<pending, chunks>>
    /\ UNCHANGED <<readerVars, taken, workerVars, done, written, budgetVars, governorVars>>

\* The reader is not woken.
LetSleep == reader

\* What becomes of the reader when the budget is released.
Notified == Awake

\* Only the input of the unit is given back, not the buffer for the output.
InputRefunded == Most(used - Charge(Turn - 1) \div 2, 0)

Refunded == Most(used - Charge(Turn - 1), 0)

Release ==
    /\ writer = "release" /\ Unlocked
    /\ used' = Refunded
    /\ reader' = Notified
    /\ writer' = "store"
    /\ UNCHANGED <<sent, taken, open, result, workerVars, done, pending, chunks, written,
                   aborted, governorVars>>

\* Every sender is gone and the channel is empty. Units that are left over miss one
\* in front of them, which a worker took with it.
End ==
    /\ writer = "receive" /\ done = <<>>
    /\ \A w \in Workers : Halted(w)
    /\ \/ pending = {} /\ writer' = "returned" /\ written' = "ok"
       \/ pending # {} /\ writer' = "abort" /\ UNCHANGED written
    /\ UNCHANGED <<readerVars, taken, workerVars, done, pending, chunks, budgetVars,
                   governorVars>>

\* The reader may go on after the writer has failed.
AbortUnsaid == FALSE

AbortSaid == TRUE

AbortByWriter ==
    /\ writer = "abort" /\ Unlocked
    /\ used' = 0 /\ aborted' = AbortSaid
    /\ reader' = Awake
    /\ writer' = "returned" /\ written' = "err"
    /\ UNCHANGED <<sent, taken, open, result, workerVars, done, pending, chunks,
                   governorVars>>

\* The callback that hears of the progress panics: the budget is not aborted either.
WriterPanics ==
    /\ writer = "store" /\ Ready = {} /\ panics < MaxPanics
    /\ panics' = panics + 1
    /\ writer' = "panicked" /\ written' = "panic"
    /\ UNCHANGED <<readerVars, taken, worker, unit, good, done, pending, chunks, budgetVars,
                   governorVars>>

Writer == Seek \/ Receive \/ Store \/ Release \/ End \/ AbortByWriter

----------------------------------------------------------------------------
(* The governor: the loop in pack_with, Budget::govern. *)

Look ==
    /\ governor = "check"
    /\ governor' = IF running THEN "sleep" ELSE "gone"
    /\ UNCHANGED <<readerVars, taken, workerVars, done, writerVars, budgetVars, limit,
                   running>>

Raised(l) == Least(l + Hard \div 8, Hard)

Lowered(l) == Most(l \div 2, Floor)

\* memory_status has no answer, or finds memory short, plentiful, or neither.
Govern ==
    /\ governor = "sleep"
    /\ \/ limit' = Hard /\ governor' = "ring"
       \/ \E next \in {limit, Raised(limit), Lowered(limit)} :
            /\ limit' = next
            /\ governor' = IF next # limit THEN "lock" ELSE "check"
    /\ UNCHANGED <<readerVars, taken, workerVars, done, writerVars, budgetVars, running>>

\* The mutex is taken to notify after a change, and is not where there was no answer.
Ring ==
    /\ \/ governor = "lock" /\ Unlocked
       \/ governor = "ring"
    /\ reader' = Awake
    /\ governor' = "check"
    /\ UNCHANGED <<sent, taken, open, result, workerVars, done, writerVars, budgetVars,
                   limit, running>>

Governor == Look \/ Govern \/ Ring

----------------------------------------------------------------------------

Returned == reader = "returned" /\ UNCHANGED vars

Next ==
    \/ Reader \/ WakeUnasked \/ ProducePanics
    \/ \E w \in Workers : Worker(w) \/ Panic(w)
    \/ Writer \/ WriterPanics
    \/ Governor
    \/ Returned

\* Every thread runs, and one that waits for the mutex gets it: it is held for a few
\* instructions. Nothing makes a condition variable wake unasked or a thread panic.
Fairness ==
    /\ WF_vars(Reader)
    /\ \A w \in Workers : WF_vars(Worker(w))
    /\ SF_vars(Writer)
    /\ SF_vars(Governor)

Spec == Init /\ [][Next]_vars /\ Fairness

----------------------------------------------------------------------------
(* Properties. *)

\* The units that are in memory, wherever they are.
InFlight ==
    taken..(sent - 1)
        \cup { unit[w] : w \in Busy }
        \cup { done[i].seq : i \in DOMAIN done }
        \cup pending
        \cup (IF writer = "release" THEN {Turn - 1} ELSE {})
        \cup (IF reader = "send" THEN {sent} ELSE {})

\* The first unit that is not released, and the first that is not acquired.
First == IF writer = "release" THEN Turn - 1 ELSE Turn
Beyond == IF reader = "send" THEN sent + 1 ELSE sent

\* submit() promised each unit its index in PackOutput::chunks before the unit was
\* compressed, and the file entries hold these indexes: unit i is chunk i, whatever the
\* order in which the workers finish. And if pack_with returns chunks at all, then it
\* returns every one: no error and no lost worker leaves a hole that nobody reports.
IndexesAreTrue ==
    /\ \A i \in DOMAIN chunks : chunks[i] = i - 1
    /\ reader = "returned" /\ result = "ok" /\ written = "ok" /\ panics = 0
         => Len(chunks) = N

\* The budget neither forgets a unit nor, until something fails, keeps one that is gone:
\* what is charged is what is in the channels, the workers and the writer.
BudgetExact ==
    ~aborted =>
        /\ InFlight \subseteq First..(Beyond - 1)
        /\ panics = 0 /\ writer # "abort" /\ written # "err" => InFlight = First..(Beyond - 1)
        /\ used = Through[Beyond] - Through[First]

\* The units in memory never exceed the resolved budget together, however the limit moves
\* under the reader and also after an abort has set `used` to zero, with the one
\* exception of a unit that is alone.
MemoryBounded ==
    /\ InFlight \subseteq First..(Beyond - 1)
    /\ Through[Beyond] - Through[First] <= Hard \/ Beyond - First <= 1

\* The reader is in submit() after the writer has ended with an error that it did not
\* abort the budget for: the seek.
LeftAlone ==
    /\ written = "err" /\ ~aborted
    /\ reader \in {"acquire", "parking", "waiting"}

\* "an abort path so a failing writer can never leave the reader blocked forever"
\* (pipeline.rs 290): as long as nothing panics pack_with returns, whatever fails and
\* whoever waits for whom, or the one error without an abort has left the reader in
\* Budget::acquire for good.
Terminates ==
    \/ <>(reader = "returned" \/ panics > 0)
    \/ <>[]LeftAlone
=============================================================================
