--------------------------- MODULE PipelineProofs ---------------------------
(***************************************************************************)
(* Pipeline for any number of workers and units and any budget. The        *)
(* invariant says where each unit is: a unit that a worker has taken and   *)
(* that is not written is in exactly one place until something fails, and  *)
(* what is charged is an interval of the units.                            *)
(***************************************************************************)
EXTENDS Pipeline, TLAPS

\* The reader's phases: it submits while the channel is open.
Submitting == {"produce", "acquire", "parking", "waiting", "send", "failed"}

ReaderInv ==
    /\ open <=> reader \in Submitting
    /\ open <=> result = "none"
    /\ reader \in {"acquire", "parking", "waiting", "send"} => sent < N
    /\ result = "ok" => sent = N

WriterInv ==
    /\ written = "none" <=> ~WriterGone
    /\ written = "panic" <=> writer = "panicked"
    /\ writer = "release" => Len(chunks) > 0
    /\ Len(chunks) <= taken
    /\ \A i \in DOMAIN chunks : chunks[i] = i - 1

\* The units that the workers have taken and the writer has not written yet.
Taken == Len(chunks)..(taken - 1)

\* Each of them is in one place at most,
PlaceInv ==
    /\ \A w \in Busy : unit[w] \in Taken /\ unit[w] \notin pending
    /\ \A v, w \in Busy : unit[v] = unit[w] => v = w
    /\ \A i \in DOMAIN done : done[i].seq \in Taken /\ done[i].seq \notin pending
    /\ \A i, j \in DOMAIN done : done[i].seq = done[j].seq => i = j
    /\ \A w \in Busy : \A i \in DOMAIN done : unit[w] # done[i].seq
    /\ pending \subseteq Taken

Somewhere(s) ==
    \/ \E w \in Busy : unit[w] = s
    \/ \E i \in DOMAIN done : done[i].seq = s
    \/ s \in pending

\* and in one at least as long as nothing failed.
CoverInv ==
    /\ panics = 0 => \A w \in Workers : worker[w] # "panicked"
    /\ written = "panic" => panics # 0
    /\ ~WriterGone =>
        \A w \in Workers : worker[w] = "gone" => taken = sent /\ ~open
    /\ panics = 0 /\ writer # "abort" /\ written # "err" => \A s \in Taken : Somewhere(s)
    /\ panics = 0 /\ written = "ok" => Len(chunks) = sent /\ ~open

BudgetInv ==
    /\ ~aborted => used = Through[Beyond] - Through[First]
    /\ Through[Beyond] - Through[First] <= Hard \/ Beyond - First <= 1

PipeInv ==
    TypeOK /\ ReaderInv /\ WriterInv /\ PlaceInv /\ CoverInv /\ BudgetInv

----------------------------------------------------------------------------
(* Sequences, and the charges. *)

LEMMA TailFacts ==
    ASSUME NEW S, NEW q \in Seq(S), q # <<>>
    PROVE  /\ Tail(q) \in Seq(S) /\ Head(q) \in S /\ Head(q) = q[1] /\ 1 \in DOMAIN q
           /\ \A i \in DOMAIN Tail(q) : i + 1 \in DOMAIN q /\ Tail(q)[i] = q[i + 1]
           /\ \A i \in DOMAIN q : i \in Nat \ {0}
           /\ \A i \in DOMAIN q : i = 1 \/ (i - 1 \in DOMAIN Tail(q) /\ Tail(q)[i - 1] = q[i])
OBVIOUS

LEMMA AppendFacts ==
    ASSUME NEW S, NEW q \in Seq(S), NEW e \in S
    PROVE  /\ Append(q, e) \in Seq(S) /\ Len(Append(q, e)) = Len(q) + 1
           /\ DOMAIN Append(q, e) = DOMAIN q \cup {Len(q) + 1}
           /\ Len(q) + 1 \notin DOMAIN q
           /\ Append(q, e)[Len(q) + 1] = e
           /\ \A i \in DOMAIN q : Append(q, e)[i] = q[i]
OBVIOUS

LEMMA ThroughGrows ==
    /\ \A n \in 0..N : Through[n] \in Nat
    /\ \A m, n \in 0..N : m <= n => Through[m] <= Through[n]
    /\ \A m, n \in 0..N : Through[m] = Through[n] => m = n
<1>1. \A n \in 0..N : Through[n] \in Nat
  BY PipelineAssumption
<1>2. \A m, n \in 0..N : m < n => Through[m] < Through[n]
  BY PipelineAssumption
<1>3. \A m, n \in 0..N : m \in Int /\ n \in Int
  BY PipelineAssumption
<1> QED BY <1>1, <1>2, <1>3

LEMMA Range ==
    ASSUME TypeOK, ReaderInv, WriterInv
    PROVE  /\ Len(chunks) \in Nat /\ taken \in Nat /\ sent \in Nat /\ N \in Nat
           /\ First \in 0..N /\ Beyond \in 0..N /\ First <= Beyond
           /\ First <= Len(chunks) /\ Len(chunks) <= taken /\ taken <= sent /\ sent <= Beyond
           /\ Through[First] \in Nat /\ Through[Beyond] \in Nat
           /\ Through[First] <= Through[Beyond]
           /\ used \in Nat
<1>1. /\ Len(chunks) \in Nat /\ taken \in Nat /\ sent \in Nat /\ N \in Nat
      /\ Len(chunks) <= taken /\ taken <= sent /\ sent <= N /\ used \in Nat
  BY PipelineAssumption DEF TypeOK, WriterInv, WriterGone
<1>2. First \in Nat /\ First <= Len(chunks)
  BY <1>1 DEF First, Turn, WriterInv, WriterGone
<1>3. Beyond \in Nat /\ sent <= Beyond /\ Beyond <= N
  BY <1>1 DEF Beyond, ReaderInv
<1> QED BY <1>1, <1>2, <1>3, ThroughGrows

LEMMA ChargeIs == ASSUME NEW s \in Nat, s < N
                  PROVE  /\ Charge(s) \in Nat /\ Charge(s) > 0
                         /\ Through[s + 1] = Through[s] + Charge(s)
<1>1. s \in 0..N /\ s + 1 \in 0..N /\ s < s + 1
  BY PipelineAssumption
<1> QED BY <1>1, PipelineAssumption DEF Charge

----------------------------------------------------------------------------
(* The steps. *)

LEMMA PipeInit == Init => PipeInv
<1> SUFFICES ASSUME Init PROVE PipeInv
  OBVIOUS
<1>1. N \in Nat /\ 0 \in 0..N /\ Through[0] \in Nat
  BY PipelineAssumption
<1>2. Most(Hard \div 4, Floor) \in Floor..Hard
  BY PipelineAssumption DEF Most
<1>3. TypeOK
  <2>1. <<>> \in Seq([seq : Units, ok : BOOLEAN]) /\ <<>> \in Seq(Units)
    OBVIOUS
  <2>2. limit \in Floor..Hard /\ done \in Seq([seq : Units, ok : BOOLEAN]) /\ chunks \in Seq(Units)
    BY <1>2, <2>1 DEF Init
  <2>3. panics \in 0..MaxPanics /\ sent \in 0..N /\ taken \in 0..sent
    BY <1>1, PipelineAssumption DEF Init
  <2> QED BY <2>2, <2>3 DEF Init, TypeOK, Outcomes
<1>4. First = 0 /\ Beyond = 0
  BY DEF Init, First, Turn, Beyond
<1>5. BudgetInv
  BY <1>1, <1>4, PipelineAssumption DEF Init, BudgetInv
<1>6. Busy = {} /\ Taken = {}
  BY DEF Init, Busy, Taken
<1> QED BY <1>1, <1>3, <1>5, <1>6, PipelineAssumption
        DEF Init, PipeInv, ReaderInv, Submitting, WriterInv, PlaceInv, CoverInv, WriterGone

\* A step that moves only the reader, and leaves the channels and the writer alone.
LEMMA ReaderMoves ==
    ASSUME PipeInv, TypeOK', ReaderInv', BudgetInv',
           UNCHANGED <<taken, workerVars, done, writerVars>>,
           sent' >= sent, open' => open, ~open => sent' = sent, ~open => open' = open,
           aborted => aborted'
    PROVE  PipeInv'
<1>1. Busy' = Busy /\ Taken' = Taken
  BY DEF Busy, Taken, workerVars, writerVars
<1>2. WriterInv'
  BY DEF PipeInv, WriterInv, writerVars, WriterGone
<1>3. PlaceInv'
  BY <1>1 DEF PipeInv, PlaceInv, workerVars, writerVars
<1>4. \A s \in Taken : Somewhere(s) <=> Somewhere(s)'
  BY <1>1 DEF Somewhere, workerVars, writerVars
<1>5. CoverInv'
  BY <1>1, <1>4 DEF PipeInv, CoverInv, workerVars, writerVars, WriterGone
<1> QED BY <1>2, <1>3, <1>5 DEF PipeInv

LEMMA SubmitKeeps == ASSUME PipeInv, Submit PROVE PipeInv'
<1>1. TypeOK' /\ ReaderInv'
  <2>1. reader = "produce" /\ sent < N /\ reader' = "acquire"
        /\ UNCHANGED <<sent, taken, open, result, workerVars, done, writerVars, budgetVars,
                       governorVars>>
    BY DEF Submit
  <2>2. TypeOK'
    BY <2>1 DEF PipeInv, TypeOK, workerVars, writerVars, budgetVars, governorVars
  <2>3. ReaderInv'
    BY <2>1 DEF PipeInv, ReaderInv, Submitting
  <2> QED BY <2>2, <2>3
<1>2. BudgetInv'
  BY DEF PipeInv, Submit, BudgetInv, First, Beyond, Turn, writerVars, budgetVars
<1> QED BY <1>1, <1>2, ReaderMoves DEF Submit, PipeInv, TypeOK, budgetVars

LEMMA AcquireKeeps == ASSUME PipeInv, Acquire PROVE PipeInv'
<1>1. sent \in Nat /\ sent < N /\ reader = "acquire"
  BY DEF PipeInv, Acquire, ReaderInv, TypeOK
<1>2. Charge(sent) \in Nat /\ Charge(sent) > 0 /\ Through[sent + 1] = Through[sent] + Charge(sent)
  BY <1>1, ChargeIs
<1>3. TypeOK'
  <2>1. used' \in Nat /\ aborted' \in BOOLEAN
    BY <1>2 DEF PipeInv, Acquire, TypeOK
  <2>2. reader' \in {"failed", "send", "parking"}
    BY DEF Acquire
  <2> QED BY <2>1, <2>2
          DEF PipeInv, Acquire, TypeOK, workerVars, writerVars, governorVars
<1>4. ReaderInv'
  BY <1>1 DEF PipeInv, Acquire, ReaderInv, Submitting
<1>5. First' = First /\ Beyond = sent
  BY <1>1 DEF Acquire, First, Beyond, Turn, writerVars
<1>6. BudgetInv'
  <2>1. CASE reader' # "send"
    <3>1. UNCHANGED used /\ UNCHANGED aborted /\ Beyond' = Beyond
      BY <1>1, <2>1 DEF Acquire, Beyond
    <3> QED BY <1>5, <3>1 DEF PipeInv, BudgetInv
  <2>2. CASE reader' = "send"
    <3>1. /\ ~aborted /\ Admits(Charge(sent)) /\ used' = used + Charge(sent) /\ UNCHANGED aborted
          /\ Beyond' = sent + 1
      BY <1>1, <2>2 DEF Acquire, Beyond
    <3>2. used = Through[sent] - Through[First]
      BY <1>5, <3>1 DEF PipeInv, BudgetInv
    <3>3. /\ First \in 0..N /\ sent \in 0..N /\ First <= sent
          /\ Through[First] \in Nat /\ Through[sent] \in Nat
      BY <1>5, Range DEF PipeInv
    <3>4. used' = Through[Beyond'] - Through[First]
      BY <1>2, <3>1, <3>2, <3>3
    <3>5. CASE used = 0
      <4>1. Through[sent] = Through[First]
        BY <3>2, <3>3, <3>5
      <4>2. sent = First
        BY <3>3, <4>1, ThroughGrows
      <4> QED BY <1>1, <1>5, <3>1, <3>4, <4>2 DEF BudgetInv
    <3>6. CASE used # 0
      <4>1. used' <= limit /\ limit <= Hard /\ limit \in Int /\ Hard \in Int
        BY <3>1, <3>6, PipelineAssumption DEF Admits, PipeInv, TypeOK
      <4>2. Through[Beyond'] - Through[First] <= Hard
        BY <1>2, <3>1, <3>2, <3>3, <3>4, <4>1
      <4> QED BY <1>5, <3>1, <3>4, <4>2 DEF BudgetInv
    <3> QED BY <3>5, <3>6
  <2> QED BY <2>1, <2>2
<1> QED BY <1>3, <1>4, <1>6, ReaderMoves DEF Acquire, PipeInv, TypeOK

LEMMA ParkKeeps == ASSUME PipeInv, Park \/ WakeUnasked PROVE PipeInv'
<1>1. /\ reader \in {"parking", "waiting"} /\ reader' \in {"waiting", "acquire"}
      /\ UNCHANGED <<sent, taken, open, result, workerVars, done, writerVars, budgetVars,
                     governorVars>>
  BY DEF Park, WakeUnasked
<1>2. TypeOK'
  BY <1>1 DEF PipeInv, TypeOK, workerVars, writerVars, budgetVars, governorVars
<1>3. ReaderInv'
  BY <1>1 DEF PipeInv, ReaderInv, Submitting
<1>4. BudgetInv'
  BY <1>1 DEF PipeInv, BudgetInv, First, Beyond, Turn, writerVars, budgetVars
<1>5. sent \in Nat
  BY Range DEF PipeInv
<1> QED BY <1>1, <1>2, <1>3, <1>4, <1>5, ReaderMoves DEF budgetVars

LEMMA SendJobKeeps == ASSUME PipeInv, SendJob PROVE PipeInv'
<1>1. sent \in Nat /\ sent < N /\ N \in Nat /\ reader = "send" /\ open
  BY PipelineAssumption DEF PipeInv, SendJob, ReaderInv, TypeOK, Submitting
<1>2. Charge(sent) \in Nat /\ Through[sent + 1] = Through[sent] + Charge(sent)
  BY <1>1, ChargeIs
<1>3. First' = First /\ Beyond = sent + 1
  BY <1>1 DEF SendJob, First, Beyond, Turn, writerVars
<1>4. /\ First \in 0..N /\ sent \in 0..N /\ First <= sent /\ used \in Nat
      /\ Through[First] \in Nat /\ Through[sent] \in Nat /\ Through[First] <= Through[sent]
  <2>1. First \in 0..N /\ sent \in 0..N /\ First <= sent /\ used \in Nat
    BY Range DEF PipeInv
  <2> QED BY <2>1, ThroughGrows
<1>5. CASE sent' = sent + 1 /\ reader' = "produce" /\ UNCHANGED used
  <2>1. TypeOK' /\ ReaderInv'
    BY <1>1, <1>5 DEF PipeInv, SendJob, TypeOK, ReaderInv, Submitting, workerVars,
       writerVars, governorVars
  <2>2. Beyond' = Beyond
    BY <1>3, <1>5 DEF Beyond
  <2>3. BudgetInv'
    BY <1>3, <1>5, <2>2 DEF SendJob, PipeInv, BudgetInv
  <2> QED BY <1>1, <1>5, <2>1, <2>3, ReaderMoves DEF SendJob
<1>6. CASE used' = Most(used - Charge(sent), 0) /\ reader' = "failed" /\ UNCHANGED sent
  <2>1. used' \in Nat
    BY <1>2, <1>4, <1>6 DEF Most
  <2>2. TypeOK' /\ ReaderInv'
    BY <1>1, <1>6, <2>1 DEF PipeInv, SendJob, TypeOK, ReaderInv, Submitting, workerVars,
       writerVars, governorVars
  <2>3. Beyond' = sent
    BY <1>6 DEF Beyond
  <2>4. ~aborted => used = Through[sent + 1] - Through[First]
    BY <1>3 DEF PipeInv, BudgetInv
  <2>5. ~aborted' => used' = Through[sent] - Through[First]
    BY <1>2, <1>4, <1>6, <2>4 DEF Most, SendJob
  <2>6. Through[sent + 1] - Through[First] <= Hard \/ sent + 1 - First <= 1
    BY <1>1, <1>3, <1>4 DEF PipeInv, BudgetInv
  <2>7. Through[sent] - Through[First] <= Hard \/ sent - First <= 1
    BY <1>1, <1>2, <1>4, <2>6, PipelineAssumption
  <2>8. BudgetInv'
    BY <1>3, <2>3, <2>5, <2>7 DEF BudgetInv
  <2> QED BY <1>1, <1>6, <2>2, <2>8, ReaderMoves DEF SendJob
<1> QED BY <1>5, <1>6 DEF SendJob

LEMMA ProduceEndsKeeps == ASSUME PipeInv, ProduceEnds PROVE PipeInv'
<1>1. TypeOK' /\ ReaderInv'
  <2>1. TypeOK'
    <3>1. /\ reader' \in {"abort", "join"} /\ result' \in {"ok", "err"} /\ open' = FALSE
          /\ UNCHANGED <<sent, taken, workerVars, done, writerVars, budgetVars, governorVars>>
      BY DEF ProduceEnds
    <3>2. reader' \in {"produce", "acquire", "parking", "waiting", "send", "failed", "abort",
                       "join", "leave", "returned"}
          /\ result' \in Outcomes /\ open' \in BOOLEAN
      BY <3>1 DEF Outcomes
    <3> QED BY <3>1, <3>2 DEF PipeInv, TypeOK, workerVars, writerVars, budgetVars,
                        governorVars
  <2>2. ReaderInv'
    BY DEF PipeInv, ProduceEnds, ReaderInv, Submitting
  <2> QED BY <2>1, <2>2
<1>2. BudgetInv'
  BY DEF PipeInv, ProduceEnds, BudgetInv, First, Beyond, Turn, writerVars, budgetVars
<1>3. open
  BY DEF PipeInv, ProduceEnds, ReaderInv, Submitting
<1> QED BY <1>1, <1>2, <1>3, ReaderMoves DEF ProduceEnds, PipeInv, TypeOK, budgetVars

LEMMA AbortByReaderKeeps == ASSUME PipeInv, AbortByReader PROVE PipeInv'
<1>1. TypeOK' /\ ReaderInv'
  BY DEF PipeInv, AbortByReader, TypeOK, ReaderInv, Submitting, workerVars, writerVars,
     governorVars
<1>2. BudgetInv'
  BY DEF PipeInv, AbortByReader, BudgetInv, First, Beyond, Turn, writerVars
<1> QED BY <1>1, <1>2, ReaderMoves DEF AbortByReader, PipeInv, TypeOK

LEMMA ProducePanicsKeeps == ASSUME PipeInv, ProducePanics PROVE PipeInv'
<1>1. /\ reader \in {"produce", "failed"} /\ reader' = "leave" /\ result' = "panic"
      /\ open' = FALSE
      /\ panics' = panics + 1 /\ panics < MaxPanics
      /\ UNCHANGED <<sent, taken, worker, unit, good, done, writerVars, budgetVars,
                     governorVars>>
  BY DEF ProducePanics
<1>2. panics' \in 0..MaxPanics /\ panics' # 0
  BY <1>1, PipelineAssumption DEF PipeInv, TypeOK
<1>3. TypeOK'
  BY <1>1, <1>2 DEF PipeInv, TypeOK, Outcomes, writerVars, budgetVars, governorVars
<1>4. ReaderInv'
  BY <1>1 DEF ReaderInv, Submitting
<1>5. BudgetInv'
  BY <1>1 DEF PipeInv, BudgetInv, First, Beyond, Turn, writerVars, budgetVars
<1>6. Busy' = Busy /\ Taken' = Taken
  BY <1>1 DEF Busy, Taken, writerVars
<1>7. WriterInv'
  BY <1>1 DEF PipeInv, WriterInv, WriterGone, writerVars
<1>8. PlaceInv'
  BY <1>1, <1>6 DEF PipeInv, PlaceInv, writerVars
<1>9. CoverInv'
  BY <1>1, <1>2 DEF PipeInv, CoverInv, WriterGone, writerVars
<1> QED BY <1>3, <1>4, <1>5, <1>7, <1>8, <1>9 DEF PipeInv

LEMMA JoinKeeps == ASSUME PipeInv, Join \/ Leave PROVE PipeInv'
<1>1. TypeOK' /\ ReaderInv'
  <2>1. CASE Join
    BY <2>1 DEF PipeInv, Join, TypeOK, ReaderInv, Submitting, workerVars, writerVars,
       budgetVars
  <2>2. CASE Leave
    BY <2>2 DEF PipeInv, Leave, TypeOK, ReaderInv, Submitting, workerVars, writerVars,
                budgetVars, governorVars
  <2> QED BY <2>1, <2>2
<1>2. BudgetInv'
  BY DEF PipeInv, Join, Leave, BudgetInv, First, Beyond, Turn, writerVars, budgetVars
<1> QED BY <1>1, <1>2, ReaderMoves DEF Join, Leave, PipeInv, TypeOK, budgetVars

LEMMA GovernorKeeps == ASSUME PipeInv, Governor PROVE PipeInv'
<1>1. Raised(limit) \in Floor..Hard /\ Lowered(limit) \in Floor..Hard /\ Hard \in Floor..Hard
  BY PipelineAssumption DEF PipeInv, TypeOK, Raised, Lowered, Least, Most
<1>2. TypeOK'
  BY <1>1 DEF PipeInv, Governor, Look, Govern, Ring, Awake, TypeOK, readerVars, workerVars,
     writerVars, budgetVars
<1>3. ReaderInv'
  BY DEF PipeInv, Governor, Look, Govern, Ring, Awake, ReaderInv, Submitting, readerVars
<1>4. BudgetInv'
  BY DEF PipeInv, Governor, Look, Govern, Ring, Awake, BudgetInv, First, Beyond, Turn,
         readerVars, writerVars, budgetVars
<1>5. UNCHANGED <<sent, open, taken, workerVars, done, writerVars, aborted>>
  BY DEF Governor, Look, Govern, Ring, readerVars, budgetVars
<1>6. sent' >= sent
  BY <1>5 DEF PipeInv, TypeOK
<1> QED BY <1>2, <1>3, <1>4, <1>5, <1>6, ReaderMoves

\* A step that leaves the reader, the writer and the budget alone.
LEMMA WorkerMoves ==
    ASSUME PipeInv, TypeOK', PlaceInv', CoverInv',
           UNCHANGED <<readerVars, writerVars, budgetVars>>, taken' >= taken
    PROVE  PipeInv'
<1>1. ReaderInv' /\ BudgetInv'
  BY DEF PipeInv, ReaderInv, BudgetInv, First, Beyond, Turn, readerVars, writerVars, budgetVars
<1>2. Len(chunks) \in Nat /\ Len(chunks) <= taken /\ taken \in Nat /\ taken' \in Nat
  BY Range DEF PipeInv, TypeOK
<1>3. WriterInv'
  BY <1>2 DEF PipeInv, WriterInv, writerVars, budgetVars, WriterGone
<1> QED BY <1>1, <1>3 DEF PipeInv

LEMMA TakeKeeps == ASSUME PipeInv, NEW w \in Workers, Take(w) PROVE PipeInv'
<1>1. /\ worker[w] = "idle" /\ worker' = [worker EXCEPT ![w] = "running"]
      /\ unit' = [unit EXCEPT ![w] = taken] /\ taken' = taken + 1 /\ taken < sent
      /\ UNCHANGED <<readerVars, good, panics, done, writerVars, budgetVars, governorVars>>
  BY DEF Take
<1>2. /\ Len(chunks) \in Nat /\ taken \in Nat /\ sent \in Nat /\ Len(chunks) <= taken
      /\ sent \in 0..N /\ sent' = sent /\ taken' \in Nat
  BY <1>1, Range DEF PipeInv, TypeOK, readerVars
<1>3. worker \in [Workers -> {"idle", "running", "sending", "gone", "panicked"}]
      /\ unit \in [Workers -> Nat]
  BY DEF PipeInv, TypeOK
<1>4. TypeOK'
  BY <1>1, <1>2, <1>3 DEF PipeInv, TypeOK, readerVars, writerVars, budgetVars, governorVars
<1>5. Busy' = Busy \cup {w} /\ w \notin Busy /\ unit'[w] = taken
      /\ \A v \in Busy : unit'[v] = unit[v]
  BY <1>1, <1>3 DEF Busy
<1>6. Taken' = Taken \cup {taken} /\ taken \notin Taken
  BY <1>1, <1>2 DEF Taken, writerVars
<1>7. PlaceInv'
  BY <1>1, <1>5, <1>6 DEF PipeInv, PlaceInv, writerVars
<1>8. \A s \in Taken : Somewhere(s) => Somewhere(s)'
  BY <1>1, <1>5 DEF Somewhere, writerVars
<1>9. \A s : s = taken => Somewhere(s)'
  BY <1>5 DEF Somewhere
<1>10. \A v \in Workers : worker'[v] \in {"gone", "panicked"} => worker'[v] = worker[v]
  BY <1>1, <1>3
<1>11. \A v \in Workers : ~WriterGone => worker[v] # "gone"
  BY <1>1, <1>2 DEF PipeInv, CoverInv, WriterGone
<1>12. panics = 0 /\ written = "ok" => FALSE
  BY <1>1, <1>2 DEF PipeInv, CoverInv, WriterGone
<1>13. CoverInv'
  BY <1>1, <1>6, <1>8, <1>9, <1>10, <1>11, <1>12
     DEF PipeInv, CoverInv, readerVars, writerVars, budgetVars, WriterGone
<1> QED BY <1>1, <1>2, <1>4, <1>7, <1>13, WorkerMoves
LEMMA QuitKeeps == ASSUME PipeInv, NEW w \in Workers, Quit(w) PROVE PipeInv'
<1>1. /\ worker[w] = "idle" /\ worker' = [worker EXCEPT ![w] = "gone"]
      /\ taken = sent /\ ~open
      /\ UNCHANGED <<readerVars, taken, unit, good, panics, done, writerVars, budgetVars,
                     governorVars>>
  BY DEF Quit
<1>2. worker \in [Workers -> {"idle", "running", "sending", "gone", "panicked"}]
  BY DEF PipeInv, TypeOK
<1>3. TypeOK'
  BY <1>1, <1>2 DEF PipeInv, TypeOK, readerVars, writerVars, budgetVars, governorVars
<1>4. Busy' = Busy /\ Taken' = Taken
  BY <1>1, <1>2 DEF Busy, Taken, writerVars
<1>5. PlaceInv'
  BY <1>1, <1>4 DEF PipeInv, PlaceInv, writerVars
<1>6. \A s \in Taken : Somewhere(s) => Somewhere(s)'
  BY <1>1, <1>4 DEF Somewhere, writerVars
<1>7. \A v \in Workers : worker'[v] = "panicked" => worker[v] = "panicked"
  BY <1>1, <1>2
<1>8. CoverInv'
  BY <1>1, <1>4, <1>6, <1>7 DEF PipeInv, CoverInv, readerVars, writerVars, WriterGone
<1> QED BY <1>1, <1>3, <1>5, <1>8, WorkerMoves DEF PipeInv, TypeOK

LEMMA CompressKeeps == ASSUME PipeInv, NEW w \in Workers, Compress(w) PROVE PipeInv'
<1>1. /\ worker[w] = "running" /\ worker' = [worker EXCEPT ![w] = "sending"]
      /\ \E ok \in BOOLEAN : good' = [good EXCEPT ![w] = ok]
      /\ UNCHANGED <<readerVars, taken, unit, panics, done, writerVars, budgetVars,
                     governorVars>>
  BY DEF Compress
<1>2. worker \in [Workers -> {"idle", "running", "sending", "gone", "panicked"}]
  BY DEF PipeInv, TypeOK
<1>3. TypeOK'
  BY <1>1, <1>2 DEF PipeInv, TypeOK, readerVars, writerVars, budgetVars, governorVars
<1>4. Busy' = Busy /\ Taken' = Taken
  BY <1>1, <1>2 DEF Busy, Taken, writerVars
<1>5. PlaceInv'
  BY <1>1, <1>4 DEF PipeInv, PlaceInv, writerVars
<1>6. \A s \in Taken : Somewhere(s) => Somewhere(s)'
  BY <1>1, <1>4 DEF Somewhere, writerVars
<1>7. \A v \in Workers : worker'[v] \in {"gone", "panicked"} => worker[v] = worker'[v]
  BY <1>1, <1>2
<1>8. CoverInv'
  BY <1>1, <1>4, <1>6, <1>7 DEF PipeInv, CoverInv, readerVars, writerVars, WriterGone
<1> QED BY <1>1, <1>3, <1>5, <1>8, WorkerMoves DEF PipeInv, TypeOK

LEMMA SendDoneKeeps == ASSUME PipeInv, NEW w \in Workers, SendDone(w) PROVE PipeInv'
<1>1. /\ worker[w] = "sending"
      /\ UNCHANGED <<readerVars, taken, unit, good, panics, writerVars, budgetVars,
                     governorVars>>
  BY DEF SendDone, WriterGone
<1>2. worker \in [Workers -> {"idle", "running", "sending", "gone", "panicked"}]
      /\ unit \in [Workers -> Nat] /\ good \in [Workers -> BOOLEAN]
      /\ done \in Seq([seq : Units, ok : BOOLEAN])
  BY DEF PipeInv, TypeOK
<1>3. w \in Busy /\ unit[w] \in Taken /\ Taken' = Taken /\ taken \in Nat /\ taken <= N
      /\ Len(chunks) \in Nat /\ N \in Nat
  BY <1>1, Range DEF Busy, PipeInv, PlaceInv, Taken, writerVars
<1>4. unit[w] \in Units
  BY <1>3 DEF Taken, Units
<1>5. CASE /\ ~WriterGone
           /\ done' = Append(done, [seq |-> unit[w], ok |-> good[w]])
           /\ worker' = [worker EXCEPT ![w] = "idle"]
  <2> DEFINE e == [seq |-> unit[w], ok |-> good[w]]
  <2>1. e \in [seq : Units, ok : BOOLEAN] /\ e.seq = unit[w]
    BY <1>2, <1>4
  <2> HIDE DEF e
  <2>2. /\ done' \in Seq([seq : Units, ok : BOOLEAN])
        /\ DOMAIN done' = DOMAIN done \cup {Len(done) + 1}
        /\ Len(done) + 1 \notin DOMAIN done
        /\ done'[Len(done) + 1] = e
        /\ \A i \in DOMAIN done : done'[i] = done[i]
    BY <1>2, <1>5, <2>1, AppendFacts DEF e
  <2>3. TypeOK'
    BY <1>1, <1>2, <1>5, <2>2 DEF PipeInv, TypeOK, readerVars, writerVars, budgetVars,
       governorVars
  <2>4. Busy' = Busy \ {w}
    BY <1>2, <1>5 DEF Busy
  <2>5. PlaceInv'
    BY <1>1, <1>3, <2>1, <2>2, <2>4 DEF PipeInv, PlaceInv, writerVars
  <2>6. \A s \in Taken : Somewhere(s) => Somewhere(s)'
    BY <1>1, <1>3, <2>1, <2>2, <2>4 DEF Somewhere, writerVars
  <2>7. \A v \in Workers : worker'[v] \in {"gone", "panicked"} => worker[v] = worker'[v]
    BY <1>2, <1>5
  <2>8. CoverInv'
    BY <1>1, <1>3, <2>6, <2>7 DEF PipeInv, CoverInv, readerVars, writerVars, WriterGone
  <2> QED BY <1>1, <2>3, <2>5, <2>8, WorkerMoves DEF PipeInv, TypeOK
<1>6. CASE WriterGone /\ worker' = [worker EXCEPT ![w] = "gone"] /\ UNCHANGED done
  <2>1. TypeOK'
    BY <1>1, <1>2, <1>6 DEF PipeInv, TypeOK, readerVars, writerVars, budgetVars, governorVars
  <2>2. Busy' = Busy \ {w}
    BY <1>2, <1>6 DEF Busy
  <2>3. PlaceInv'
    BY <1>1, <1>3, <1>6, <2>2 DEF PipeInv, PlaceInv, writerVars
  <2>4. \A v \in Workers : worker'[v] = "panicked" => worker[v] = worker'[v]
    BY <1>2, <1>6
  <2>5. panics = 0 /\ written = "ok" => Len(chunks) = sent
    BY DEF PipeInv, CoverInv, WriterGone
  <2>6. written # "none" /\ written \in Outcomes
    BY <1>6 DEF PipeInv, WriterInv, TypeOK, WriterGone
  <2>7. panics = 0 => written = "err"
    BY <1>3, <2>5, <2>6, Range DEF Outcomes, Taken, PipeInv, CoverInv, WriterGone
  <2>8. CoverInv'
    BY <1>1, <1>6, <2>4, <2>7 DEF PipeInv, CoverInv, readerVars, writerVars, WriterGone
  <2> QED BY <1>1, <2>1, <2>3, <2>8, WorkerMoves DEF PipeInv, TypeOK
<1> QED BY <1>5, <1>6 DEF SendDone, WriterGone

LEMMA PanicKeeps == ASSUME PipeInv, NEW w \in Workers, Panic(w) PROVE PipeInv'
<1>1. /\ worker[w] = "running" /\ worker' = [worker EXCEPT ![w] = "panicked"]
      /\ panics < MaxPanics /\ panics' = panics + 1
      /\ UNCHANGED <<readerVars, taken, unit, good, done, writerVars, budgetVars,
                     governorVars>>
  BY DEF Panic
<1>2. worker \in [Workers -> {"idle", "running", "sending", "gone", "panicked"}]
      /\ panics \in 0..MaxPanics
  BY DEF PipeInv, TypeOK
<1>3. panics' \in 0..MaxPanics /\ panics' # 0
  BY <1>1, <1>2, PipelineAssumption
<1>4. TypeOK'
  BY <1>1, <1>2, <1>3 DEF PipeInv, TypeOK, readerVars, writerVars, budgetVars, governorVars
<1>5. Busy' = Busy \ {w} /\ Taken' = Taken
  BY <1>1, <1>2 DEF Busy, Taken, writerVars
<1>6. PlaceInv'
  BY <1>1, <1>5 DEF PipeInv, PlaceInv, writerVars
<1>7. \A v \in Workers : worker'[v] = "gone" => worker[v] = "gone"
  BY <1>1, <1>2
<1>8. CoverInv'
  <2>1. UNCHANGED <<writer, written, taken, sent, open, chunks>> /\ CoverInv
    BY <1>1 DEF PipeInv, readerVars, writerVars
  <2> QED BY <1>3, <1>7, <2>1 DEF CoverInv, WriterGone
<1>9. taken' >= taken
  BY <1>1, Range DEF PipeInv
<1> QED BY <1>1, <1>4, <1>6, <1>8, <1>9, WorkerMoves

LEMMA ReceiveKeeps == ASSUME PipeInv, Receive PROVE PipeInv'
<1>1. /\ writer = "receive" /\ done # <<>> /\ done' = Tail(done)
      /\ UNCHANGED <<readerVars, taken, workerVars, chunks, written, budgetVars, governorVars>>
  BY DEF Receive
<1>2. done \in Seq([seq : Units, ok : BOOLEAN]) /\ pending \subseteq Units
  BY DEF PipeInv, TypeOK
<1> DEFINE h == Head(done).seq
<1>3. /\ done' \in Seq([seq : Units, ok : BOOLEAN]) /\ h \in Units
      /\ 1 \in DOMAIN done /\ h = done[1].seq
      /\ \A i \in DOMAIN done' : i + 1 \in DOMAIN done /\ done'[i] = done[i + 1]
      /\ \A i \in DOMAIN done' : i + 1 # 1
      /\ \A i, j \in DOMAIN done' : i + 1 = j + 1 => i = j
      /\ \A i \in DOMAIN done :
            i = 1 \/ (i - 1 \in DOMAIN done' /\ done'[i - 1] = done[i])
  <2>1. /\ Tail(done) \in Seq([seq : Units, ok : BOOLEAN])
        /\ Head(done) \in [seq : Units, ok : BOOLEAN]
        /\ Head(done) = done[1] /\ 1 \in DOMAIN done
        /\ \A i \in DOMAIN Tail(done) : i + 1 \in DOMAIN done /\ Tail(done)[i] = done[i + 1]
        /\ \A i \in DOMAIN done :
              i = 1 \/ (i - 1 \in DOMAIN Tail(done) /\ Tail(done)[i - 1] = done[i])
    <3> DEFINE S == [seq : Units, ok : BOOLEAN]
    <3>1. done \in Seq(S)
      BY <1>2
    <3> HIDE DEF S
    <3>2. /\ Tail(done) \in Seq(S) /\ Head(done) \in S
          /\ Head(done) = done[1] /\ 1 \in DOMAIN done
          /\ \A i \in DOMAIN Tail(done) : i + 1 \in DOMAIN done /\ Tail(done)[i] = done[i + 1]
          /\ \A i \in DOMAIN done :
                i = 1 \/ (i - 1 \in DOMAIN Tail(done) /\ Tail(done)[i - 1] = done[i])
      BY <1>1, <3>1, TailFacts
    <3> QED BY <3>2 DEF S
  <2>2. \A i \in DOMAIN Tail(done) : i \in Nat \ {0}
    BY <2>1
  <2> QED BY <1>1, <2>1, <2>2
<1> HIDE DEF h
<1>4. Busy' = Busy /\ Taken' = Taken
  BY <1>1 DEF Busy, Taken, workerVars
<1>5. ReaderInv' /\ Len(chunks)' = Len(chunks)
  BY <1>1 DEF PipeInv, ReaderInv, readerVars
<1>6. /\ h \in Taken /\ h \notin pending
      /\ \A w \in Busy : unit[w] # h
      /\ \A i \in DOMAIN done' : done'[i].seq # h
  BY <1>3 DEF PipeInv, PlaceInv
<1>7. CASE pending' = pending \cup {h} /\ writer' = "store"
  <2>1. TypeOK'
    BY <1>1, <1>3, <1>7 DEF PipeInv, TypeOK, readerVars, workerVars, budgetVars, governorVars
  <2>2. WriterInv' /\ BudgetInv'
    BY <1>1, <1>7 DEF PipeInv, WriterInv, BudgetInv, First, Beyond, Turn, readerVars,
       budgetVars, WriterGone
  <2>3. PlaceInv'
    BY <1>1, <1>3, <1>4, <1>6, <1>7 DEF PipeInv, PlaceInv, workerVars
  <2>4. \A s \in Taken : Somewhere(s) => Somewhere(s)'
    <3>1. \A i \in DOMAIN done : done[i].seq = h \/ \E j \in DOMAIN done' : done'[j] = done[i]
      BY <1>3
    <3> QED BY <1>1, <1>4, <1>7, <3>1 DEF Somewhere, workerVars
  <2>5. CoverInv'
    BY <1>1, <1>4, <1>7, <2>4 DEF PipeInv, CoverInv, readerVars, workerVars, WriterGone
  <2> QED BY <1>5, <2>1, <2>2, <2>3, <2>5 DEF PipeInv
<1>8. CASE writer' = "abort" /\ UNCHANGED pending
  <2>1. TypeOK'
    BY <1>1, <1>3, <1>8 DEF PipeInv, TypeOK, readerVars, workerVars, budgetVars, governorVars
  <2>2. WriterInv' /\ BudgetInv'
    BY <1>1, <1>8 DEF PipeInv, WriterInv, BudgetInv, First, Beyond, Turn, readerVars,
       budgetVars, WriterGone
  <2>3. PlaceInv'
    BY <1>1, <1>3, <1>4, <1>8 DEF PipeInv, PlaceInv, workerVars
  <2>4. CoverInv'
    BY <1>1, <1>4, <1>8 DEF PipeInv, CoverInv, readerVars, workerVars, WriterGone
  <2> QED BY <1>5, <2>1, <2>2, <2>3, <2>4 DEF PipeInv
<1> QED BY <1>7, <1>8 DEF Receive, h

LEMMA StoreKeeps == ASSUME PipeInv, Store PROVE PipeInv'
<1>1. /\ writer = "store"
      /\ UNCHANGED <<readerVars, taken, workerVars, done, written, budgetVars, governorVars>>
  BY DEF Store
<1>2. Busy' = Busy /\ ReaderInv'
  BY <1>1 DEF Busy, workerVars, PipeInv, ReaderInv, readerVars
<1>3. chunks \in Seq(Units) /\ pending \subseteq Units /\ Len(chunks) \in Nat /\ taken \in Nat
  BY Range DEF PipeInv, TypeOK
<1>4. CASE /\ Turn \in pending /\ pending' = pending \ {Turn} /\ writer' = "release"
           /\ chunks' = Append(chunks, Turn)
  <2>1. /\ chunks' \in Seq(Units) /\ Len(chunks') = Len(chunks) + 1
        /\ DOMAIN chunks' = DOMAIN chunks \cup {Len(chunks) + 1}
        /\ chunks'[Len(chunks) + 1] = Turn
        /\ \A i \in DOMAIN chunks : chunks'[i] = chunks[i]
    <3>1. Turn \in Units
      BY <1>3, <1>4
    <3> QED BY <1>3, <1>4, <3>1, AppendFacts
  <2>2. Turn = Len(chunks) /\ Turn \in Taken /\ Turn < taken
    BY <1>3, <1>4 DEF Turn, PipeInv, PlaceInv, Taken
  <2>3. TypeOK'
    BY <1>1, <1>3, <1>4, <2>1 DEF PipeInv, TypeOK, readerVars, workerVars, budgetVars,
       governorVars
  <2>4. \A i \in DOMAIN chunks' : chunks'[i] = i - 1
    BY <1>3, <2>1, <2>2 DEF PipeInv, WriterInv, WriterGone
  <2>5. WriterInv'
    BY <1>1, <1>3, <1>4, <2>1, <2>2, <2>4 DEF PipeInv, WriterInv, budgetVars, WriterGone
  <2>6. First' = First /\ Beyond' = Beyond
    BY <1>1, <1>3, <1>4, <2>1 DEF First, Turn, Beyond, readerVars
  <2>7. BudgetInv'
    BY <1>1, <2>6 DEF PipeInv, BudgetInv, budgetVars
  <2>8. Taken' = Taken \ {Turn}
    BY <1>1, <1>3, <2>1, <2>2 DEF Taken
  <2>9. PlaceInv'
    BY <1>1, <1>2, <1>4, <2>8 DEF PipeInv, PlaceInv, workerVars
  <2>10. \A s \in Taken : s # Turn => (Somewhere(s) => Somewhere(s)')
    BY <1>1, <1>2, <1>4 DEF Somewhere, workerVars
  <2>11. written # "ok"
    BY <1>1 DEF PipeInv, WriterInv, WriterGone
  <2>12. CoverInv'
    BY <1>1, <1>4, <2>8, <2>10, <2>11 DEF PipeInv, CoverInv, readerVars, workerVars, WriterGone
  <2> QED BY <1>2, <2>3, <2>5, <2>7, <2>9, <2>12 DEF PipeInv
<1>5. CASE pending' = pending \ {Turn} /\ writer' = "abort" /\ UNCHANGED chunks
  <2>1. TypeOK'
    BY <1>1, <1>3, <1>5 DEF PipeInv, TypeOK, readerVars, workerVars, budgetVars, governorVars
  <2>2. WriterInv' /\ BudgetInv'
    BY <1>1, <1>5 DEF PipeInv, WriterInv, BudgetInv, First, Beyond, Turn, readerVars,
       budgetVars, WriterGone
  <2>3. Taken' = Taken
    BY <1>1, <1>5 DEF Taken
  <2>4. PlaceInv'
    BY <1>1, <1>2, <1>5, <2>3 DEF PipeInv, PlaceInv, workerVars
  <2>5. CoverInv'
    BY <1>1, <1>5 DEF PipeInv, CoverInv, readerVars, workerVars, WriterGone
  <2> QED BY <1>2, <2>1, <2>2, <2>4, <2>5 DEF PipeInv
<1>6. CASE writer' = "receive" /\ UNCHANGED <<pending, chunks>>
  <2>1. TypeOK'
    BY <1>1, <1>3, <1>6 DEF PipeInv, TypeOK, readerVars, workerVars, budgetVars, governorVars
  <2>2. WriterInv' /\ BudgetInv'
    BY <1>1, <1>6 DEF PipeInv, WriterInv, BudgetInv, First, Beyond, Turn, readerVars,
       budgetVars, WriterGone
  <2>3. Taken' = Taken
    BY <1>1, <1>6 DEF Taken
  <2>4. PlaceInv'
    BY <1>1, <1>2, <1>6, <2>3 DEF PipeInv, PlaceInv, workerVars
  <2>5. \A s \in Taken : Somewhere(s) => Somewhere(s)'
    BY <1>1, <1>2, <1>6 DEF Somewhere, workerVars
  <2>6. CoverInv'
    BY <1>1, <1>6, <2>3, <2>5 DEF PipeInv, CoverInv, readerVars, workerVars, WriterGone
  <2> QED BY <1>2, <2>1, <2>2, <2>4, <2>6 DEF PipeInv
<1> QED BY <1>4, <1>5, <1>6 DEF Store, Ready

\* A step of the writer that leaves what it has received and written alone.
LEMMA WriterMoves ==
    ASSUME PipeInv, TypeOK', ReaderInv', WriterInv', CoverInv', BudgetInv',
           UNCHANGED <<taken, workerVars, done, pending, chunks>>
    PROVE  PipeInv'
<1>1. Busy' = Busy /\ Taken' = Taken
  BY DEF Busy, Taken, workerVars
<1> QED BY <1>1 DEF PipeInv, PlaceInv, workerVars

LEMMA ReleaseKeeps == ASSUME PipeInv, Release PROVE PipeInv'
<1>1. /\ writer = "release" /\ writer' = "store" /\ reader' = Awake
      /\ used' = Most(used - Charge(Turn - 1), 0)
      /\ UNCHANGED <<sent, taken, open, result, workerVars, done, pending, chunks, written,
                     aborted, governorVars>>
  BY DEF Release, Notified, Refunded
<1>2. /\ First \in 0..N /\ Beyond \in 0..N /\ Turn \in Nat /\ Turn <= Beyond /\ Turn > 0
      /\ First = Turn - 1 /\ used \in Nat /\ Turn \in 0..N /\ N \in Nat
  <2>1. Len(chunks) > 0
    BY <1>1 DEF PipeInv, WriterInv, WriterGone
  <2> QED BY <1>1, <2>1, Range DEF First, Turn, PipeInv
<1>3. First \in Nat /\ First < N /\ First + 1 = Turn
  BY <1>2
<1>4. Charge(Turn - 1) \in Nat /\ Through[Turn] = Through[First] + Charge(Turn - 1)
  BY <1>2, <1>3, ChargeIs
<1>5. First' = Turn /\ Beyond' = Beyond
  BY <1>1 DEF First, Turn, Beyond, Awake
<1>6. /\ Through[First] \in Nat /\ Through[Turn] \in Nat /\ Through[Beyond] \in Nat
      /\ Through[Turn] <= Through[Beyond]
  BY <1>2, ThroughGrows
<1>7. used' \in Nat
  BY <1>1, <1>2, <1>4 DEF Most
<1>8. TypeOK' /\ ReaderInv'
  BY <1>1, <1>7 DEF PipeInv, TypeOK, ReaderInv, Submitting, Awake, workerVars, governorVars
<1>9. WriterInv'
  BY <1>1 DEF PipeInv, WriterInv, WriterGone
<1>10. ~aborted' => used' = Through[Turn] - Through[First] - Charge(Turn - 1)
                              + (Through[Beyond] - Through[Turn])
  BY <1>1, <1>2, <1>4, <1>6 DEF Most, PipeInv, BudgetInv
<1>11. BudgetInv'
  <2>1. ~aborted' => used' = Through[Beyond] - Through[Turn]
    BY <1>4, <1>6, <1>10
  <2>2. Through[Beyond] - Through[Turn] <= Hard \/ Beyond - Turn <= 1
    BY <1>2, <1>3, <1>4, <1>6, PipelineAssumption DEF PipeInv, BudgetInv
  <2> QED BY <1>5, <2>1, <2>2 DEF BudgetInv
<1>12. \A s \in Taken : Somewhere(s) => Somewhere(s)'
  BY <1>1 DEF Somewhere, Busy, workerVars
<1>13. CoverInv'
  <2>1. Taken' = Taken
    BY <1>1 DEF Taken
  <2> QED BY <1>1, <1>12, <2>1 DEF PipeInv, CoverInv, workerVars, WriterGone
<1> QED BY <1>1, <1>8, <1>9, <1>11, <1>13, WriterMoves

LEMMA EndKeeps == ASSUME PipeInv, End PROVE PipeInv'
<1>1. /\ writer = "receive" /\ done = <<>>
      /\ \A w \in Workers : Halted(w)
      /\ UNCHANGED <<readerVars, taken, workerVars, done, pending, chunks, budgetVars,
                     governorVars>>
  BY DEF End
<1>2. ReaderInv'
  BY <1>1 DEF PipeInv, ReaderInv, readerVars
<1>3. CASE pending = {} /\ writer' = "returned" /\ written' = "ok"
  <2>1. TypeOK'
    BY <1>1, <1>3 DEF PipeInv, TypeOK, Outcomes, readerVars, workerVars, budgetVars,
       governorVars
  <2>2. WriterInv' /\ BudgetInv'
    BY <1>1, <1>3 DEF PipeInv, WriterInv, BudgetInv, First, Beyond, Turn, readerVars,
       budgetVars, WriterGone
  <2>3. Busy = {} /\ DOMAIN done = {}
    BY <1>1 DEF Busy, Halted
  <2>4. ASSUME panics = 0 PROVE Len(chunks) = sent /\ ~open
    <3>1. PICK w \in Workers : TRUE
      BY PipelineAssumption
    <3>2. worker[w] = "gone"
      BY <1>1, <2>4, <3>1 DEF Halted, PipeInv, CoverInv, WriterGone
    <3>3. taken = sent /\ ~open
      BY <1>1, <3>2 DEF PipeInv, CoverInv, WriterGone
    <3>4. written = "none"
      BY <1>1 DEF PipeInv, WriterInv, WriterGone
    <3>5. \A s \in Taken : Somewhere(s)
      BY <1>1, <2>4, <3>4 DEF PipeInv, CoverInv, WriterGone
    <3>6. Taken = {}
      BY <1>3, <2>3, <3>5 DEF Somewhere
    <3>7. Len(chunks) \in Nat /\ taken \in Nat /\ Len(chunks) <= taken
      BY Range DEF PipeInv
    <3>8. ~(Len(chunks) < taken)
      <4>1. Len(chunks) < taken => Len(chunks) \in Taken
        BY <3>7 DEF Taken
      <4> QED BY <3>6, <4>1
    <3> QED BY <3>3, <3>7, <3>8
  <2>5. \A s \in Taken : Somewhere(s) => Somewhere(s)'
    BY <1>1 DEF Somewhere, Busy, workerVars
  <2>6. CoverInv'
    <3>1. Taken' = Taken
      BY <1>1 DEF Taken
    <3>2. written = "none"
      BY <1>1 DEF PipeInv, WriterInv, WriterGone
    <3> QED BY <1>1, <1>3, <2>4, <2>5, <3>1, <3>2 DEF PipeInv, CoverInv, readerVars,
               workerVars, WriterGone
  <2> QED BY <1>1, <1>2, <2>1, <2>2, <2>6, WriterMoves
<1>4. CASE writer' = "abort" /\ UNCHANGED written
  <2>1. TypeOK'
    BY <1>1, <1>4 DEF PipeInv, TypeOK, readerVars, workerVars, budgetVars, governorVars
  <2>2. WriterInv' /\ BudgetInv'
    BY <1>1, <1>4 DEF PipeInv, WriterInv, BudgetInv, First, Beyond, Turn, readerVars,
       budgetVars, WriterGone
  <2>3. CoverInv'
    BY <1>1, <1>4 DEF PipeInv, CoverInv, readerVars, workerVars, WriterGone
  <2> QED BY <1>1, <1>2, <2>1, <2>2, <2>3, WriterMoves
<1> QED BY <1>3, <1>4 DEF End

LEMMA SeekKeeps == ASSUME PipeInv, Seek PROVE PipeInv'
<1>1. /\ writer = "seek"
      /\ UNCHANGED <<readerVars, taken, workerVars, done, pending, chunks, budgetVars,
                     governorVars>>
      /\ \/ writer' = "receive" /\ written' = written
         \/ writer' = "returned" /\ written' = "err"
  BY DEF Seek
<1>2. TypeOK' /\ ReaderInv'
  <2>1. TypeOK'
    BY <1>1 DEF PipeInv, TypeOK, Outcomes, readerVars, workerVars, budgetVars, governorVars
  <2>2. ReaderInv'
    BY <1>1 DEF PipeInv, ReaderInv, readerVars
  <2> QED BY <2>1, <2>2
<1>3. WriterInv'
  BY <1>1 DEF PipeInv, WriterInv, WriterGone
<1>4. BudgetInv'
  BY <1>1 DEF PipeInv, BudgetInv, First, Beyond, Turn, readerVars, budgetVars
<1>5. Taken' = Taken /\ written = "none"
  BY <1>1 DEF Taken, PipeInv, WriterInv, WriterGone
<1>6. \A s \in Taken : Somewhere(s) => Somewhere(s)'
  BY <1>1 DEF Somewhere, Busy, workerVars
<1>7. CoverInv'
  BY <1>1, <1>5, <1>6 DEF PipeInv, CoverInv, WriterGone, readerVars, workerVars
<1> QED BY <1>1, <1>2, <1>3, <1>4, <1>7, WriterMoves

LEMMA WriterPanicsKeeps == ASSUME PipeInv, WriterPanics PROVE PipeInv'
<1>1. /\ writer = "store" /\ writer' = "panicked" /\ written' = "panic"
      /\ panics' = panics + 1 /\ panics < MaxPanics
      /\ UNCHANGED <<readerVars, taken, worker, unit, good, done, pending, chunks, budgetVars,
                     governorVars>>
  BY DEF WriterPanics
<1>2. panics' \in 0..MaxPanics /\ panics' # 0
  BY <1>1, PipelineAssumption DEF PipeInv, TypeOK
<1>3. TypeOK'
  BY <1>1, <1>2 DEF PipeInv, TypeOK, Outcomes, readerVars, budgetVars, governorVars
<1>4. ReaderInv'
  BY <1>1 DEF PipeInv, ReaderInv, readerVars
<1>5. BudgetInv'
  BY <1>1 DEF PipeInv, BudgetInv, First, Beyond, Turn, readerVars, budgetVars
<1>6. Busy' = Busy /\ Taken' = Taken
  BY <1>1 DEF Busy, Taken
<1>7. WriterInv'
  BY <1>1 DEF PipeInv, WriterInv, WriterGone
<1>8. PlaceInv'
  BY <1>1, <1>6 DEF PipeInv, PlaceInv
<1>9. CoverInv'
  BY <1>1, <1>2 DEF PipeInv, CoverInv, WriterGone
<1> QED BY <1>3, <1>4, <1>5, <1>7, <1>8, <1>9 DEF PipeInv

LEMMA AbortByWriterKeeps == ASSUME PipeInv, AbortByWriter PROVE PipeInv'
<1>1. /\ writer = "abort" /\ writer' = "returned" /\ written' = "err"
      /\ used' = 0 /\ aborted' = TRUE /\ reader' = Awake
      /\ UNCHANGED <<sent, taken, open, result, workerVars, done, pending, chunks,
                     governorVars>>
  BY DEF AbortByWriter, AbortSaid
<1>2. TypeOK' /\ ReaderInv'
  BY <1>1 DEF PipeInv, TypeOK, Outcomes, ReaderInv, Submitting, Awake, workerVars, governorVars
<1>3. WriterInv' /\ BudgetInv'
  BY <1>1 DEF PipeInv, WriterInv, BudgetInv, First, Beyond, Turn, Awake, WriterGone
<1>4. CoverInv'
  BY <1>1 DEF PipeInv, CoverInv, workerVars, WriterGone
<1> QED BY <1>1, <1>2, <1>3, <1>4, WriterMoves

LEMMA PipeStep == PipeInv /\ [Next]_vars => PipeInv'
<1> SUFFICES ASSUME PipeInv, [Next]_vars PROVE PipeInv'
  OBVIOUS
<1>1. CASE UNCHANGED vars
  <2>1. TypeOK' /\ ReaderInv' /\ BudgetInv'
    BY <1>1 DEF vars, PipeInv, TypeOK, ReaderInv, BudgetInv, First, Beyond, Turn
  <2> QED BY <1>1, <2>1, ReaderMoves DEF vars, workerVars, writerVars, PipeInv, TypeOK
<1>2. CASE Reader \/ WakeUnasked \/ ProducePanics
  BY <1>2, SubmitKeeps, AcquireKeeps, ParkKeeps, SendJobKeeps, ProduceEndsKeeps,
     AbortByReaderKeeps, JoinKeeps, ProducePanicsKeeps DEF Reader
<1>3. CASE \E w \in Workers : Worker(w) \/ Panic(w)
  BY <1>3, TakeKeeps, QuitKeeps, CompressKeeps, SendDoneKeeps, PanicKeeps DEF Worker
<1>4. CASE Writer \/ WriterPanics
  BY <1>4, SeekKeeps, ReceiveKeeps, StoreKeeps, ReleaseKeeps, EndKeeps, AbortByWriterKeeps,
     WriterPanicsKeeps DEF Writer
<1>5. CASE Governor
  BY <1>5, GovernorKeeps
<1> QED BY <1>1, <1>2, <1>3, <1>4, <1>5 DEF Next, Returned

\* The invariant holds of every reachable state (pipeline.rs 433-501).
THEOREM PipeInvHolds == Spec => []PipeInv
BY PipeInit, PipeStep, PTL DEF Spec

----------------------------------------------------------------------------
(* The properties. *)

\* The limit stays between floor and ceiling, and nothing is counted below zero
\* (pipeline.rs 320-393).
THEOREM PipelineTypeCorrect == Spec => []TypeOK
<1>1. PipeInv => TypeOK
  BY DEF PipeInv
<1> QED BY <1>1, PipeInvHolds, PTL

\* For any number of workers and units, each unit has the index that submit() promised,
\* and a result without an error lacks none (pipeline.rs 554-590, 1135-1207).
THEOREM IndexesAreTrueHolds == Spec => []IndexesAreTrue
<1>1. PipeInv => IndexesAreTrue
  BY DEF PipeInv, ReaderInv, WriterInv, CoverInv, IndexesAreTrue, WriterGone
<1> QED BY <1>1, PipeInvHolds, PTL

LEMMA InFlightIsInterval == ASSUME PipeInv PROVE InFlight \subseteq First..(Beyond - 1)
<1>1. /\ Len(chunks) \in Nat /\ taken \in Nat /\ sent \in Nat
      /\ First \in Nat /\ Beyond \in Nat
      /\ First <= Len(chunks) /\ Len(chunks) <= taken /\ taken <= sent /\ sent <= Beyond
  BY Range DEF PipeInv
<1>2. Taken \subseteq First..(Beyond - 1) /\ taken..(sent - 1) \subseteq First..(Beyond - 1)
  BY <1>1 DEF Taken
<1>3. /\ \A w \in Busy : unit[w] \in Taken
      /\ \A i \in DOMAIN done : done[i].seq \in Taken
      /\ pending \subseteq Taken
  BY DEF PipeInv, PlaceInv
<1>4. writer = "release" => Turn - 1 \in First..(Beyond - 1)
  BY <1>1 DEF First, Turn, PipeInv, WriterInv, WriterGone
<1>5. reader = "send" => sent \in First..(Beyond - 1)
  BY <1>1 DEF Beyond
<1> QED BY <1>2, <1>3, <1>4, <1>5 DEF InFlight

\* The budget accounts for exactly the units that are somewhere in the pipeline, until
\* it is aborted (pipeline.rs 341-367, 566, 584, 1184).
THEOREM BudgetExactHolds == Spec => []BudgetExact
<1>1. ASSUME PipeInv, ~aborted PROVE used = Through[Beyond] - Through[First]
  BY <1>1 DEF PipeInv, BudgetInv
<1>2. ASSUME PipeInv, panics = 0, writer # "abort", written # "err",
             NEW n \in First..(Beyond - 1)
      PROVE  n \in InFlight
  <2>1. \A s \in Taken : Somewhere(s)
    BY <1>2 DEF PipeInv, CoverInv, WriterGone
  <2>2. \A s : Somewhere(s) => s \in InFlight
    BY DEF Somewhere, InFlight
  <2>3. /\ Len(chunks) \in Nat /\ taken \in Nat /\ sent \in Nat
        /\ First \in Nat /\ Beyond \in Nat /\ n \in Int
    BY <1>2, Range DEF PipeInv
  <2>4. CASE n \in Taken
    BY <2>1, <2>2, <2>4
  <2>5. CASE n < Len(chunks)
    BY <2>3, <2>5 DEF First, Turn, InFlight
  <2>6. CASE n \in taken..(sent - 1)
    BY <2>6 DEF InFlight
  <2>7. CASE n >= sent
    BY <2>3, <2>7 DEF Beyond, InFlight
  <2> QED BY <2>3, <2>4, <2>5, <2>6, <2>7 DEF Taken
<1>3. PipeInv => BudgetExact
  BY <1>1, <1>2, InFlightIsInterval DEF BudgetExact
<1> QED BY <1>3, PipeInvHolds, PTL

\* Whatever the governor does, and after an abort as well, the units in memory stay below
\* the resolved budget, or there is one at most (pipeline.rs 338-354, 372-393).
THEOREM MemoryBoundedHolds == Spec => []MemoryBounded
<1>1. PipeInv => MemoryBounded
  BY InFlightIsInterval DEF PipeInv, BudgetInv, MemoryBounded
<1> QED BY <1>1, PipeInvHolds, PTL
=============================================================================
