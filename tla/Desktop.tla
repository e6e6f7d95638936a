------------------------------ MODULE Desktop -------------------------------
(***************************************************************************)
(* The desktop application: operations that run in threads of their own    *)
(* and report (nova-gui/src/main.rs), the snapshots behind those reports   *)
(* (archive.rs), and the window that shows them (ui/src/main.ts).          *)
(*                                                                         *)
(* An operation has a main thread and two helpers: of a pack the first is  *)
(* the writer, of an extraction or a test both are workers. A pack's       *)
(* workers report nothing and pass their units to the writer; how it puts  *)
(* them in order is Pipeline's. A reading is in the hand of its thread     *)
(* between the unlock and the callback. The window handles an event as it  *)
(* is emitted: events keep their order, and what may come between an       *)
(* operation's last step and the window's hearing of it may as well come   *)
(* before that step.                                                       *)
(***************************************************************************)
EXTENDS Progress, Sequences, FiniteSets

CONSTANTS Ops,        \* the operations that may be started
          KindsOf,    \* which each may be: create, extract, test, compact, remove
          Files,      \* how many files, each a unit of its own
          Size,       \* of each when it was scanned
          Growths,    \* by how much one may have grown when it is read
          Nothing     \* no reading

ASSUME DesktopAssumption ==
    /\ Ops \subseteq Nat /\ Files \in Nat /\ Size \in Nat /\ Growths \subseteq Nat
    /\ Reports \in Nat \ {0} /\ ScanStep \in Nat
    /\ KindsOf \in [Ops -> SUBSET {"create", "extract", "test", "compact", "remove"}]
    /\ Nothing \notin [phase : Phases, done : Nat, total : Nat]

VARIABLES op,      \* what each operation is doing
          window   \* state of main.ts

vars == <<op, window>>

Helpers == {"h1", "h2"}
Threads == {"main"} \cup Helpers

\* In op[o]: at, where the main thread is; hand, what each thread has to deliver; taken and
\* ended, of the helpers; finished, the bytes whose work is really over: a pack's once they
\* are compressed or known; said, the phase that was delivered last. Of a pack: what the
\* reader has read, in files and bytes, deduplicated and submitted; the units compressed, and
\* their bytes; rx, the units on their way to the writer, each with the bytes that were
\* compressed by then; and counted, the writer's bytes_done.
NewOp ==
    [kind |-> "none", at |-> "idle", snap |-> NewSnap,
     hand |-> [t \in Threads |-> Nothing], read |-> 0, bytes |-> 0, deduped |-> 0,
     submitted |-> <<>>, units |-> {}, compressed |-> 0, rx |-> <<>>, counted |-> 0,
     taken |-> 0, ended |-> 0, finished |-> 0, said |-> "none"]

Init ==
    /\ op = [o \in Ops |-> NewOp]
    /\ window = [busy |-> FALSE, prog |-> Nothing, pct |-> 0, width |-> 0, alone |-> TRUE]

Running(o) == op[o].at \notin {"idle", "over"}

--------------------------------------------------------------------------------
(* main.ts                                                                     *)

\* setBusy(true): everything about the previous operation is forgotten.
Fresh(w, alone) ==
    [w EXCEPT !.busy = TRUE, !.prog = Nothing, !.pct = 0, !.width = 0, !.alone = alone]

\* A click. refreshButtons, which every click on a row calls, enables the buttons again
\* while an operation runs, and the menu of a row does not ask.
Click(o, kind) ==
    /\ op[o].at = "idle"
    /\ \A p \in Ops : p < o => op[p].at # "idle"
    /\ op' = [op EXCEPT ![o] = [NewOp EXCEPT !.kind = kind, !.at = "start"]]
    /\ window' = Fresh(window, \A p \in Ops : ~Running(p))

\* The latest reading as it is.
PaintedAsRead(pct, raw, phase) == Smaller(IF phase = "done" THEN 100 ELSE 99, raw)

\* "The bar may never go backwards, whatever the numbers do."
Painted(pct, raw, phase) == Smaller(IF phase = "done" THEN 100 ELSE 99, Larger(pct, raw))

\* renderProgress, on its timer.
Tick ==
    /\ window.busy /\ window.prog # Nothing /\ window.prog.total > 0
    /\ LET pct == Painted(window.pct, (100 * window.prog.done) \div window.prog.total,
                          window.prog.phase)
       IN  window' = [window EXCEPT !.pct = pct, !.width = pct]
    /\ UNCHANGED op

\* The listener of nova://done.
OnDone(w, ok) == [w EXCEPT !.busy = FALSE, !.width = IF ok THEN 100 ELSE @]

--------------------------------------------------------------------------------
(* Calls of the reporter by the threads of an operation.                       *)

Empty(o, t) == op[o].hand[t] = Nothing

Holding(hand, t, snap) == IF snap.says THEN [hand EXCEPT ![t] = Reading(snap)] ELSE hand

\* A call by t that leads to snap, and whatever else it changes of the operation.
Call(o, t, snap, rest) ==
    /\ op' = [op EXCEPT ![o] = [rest EXCEPT !.snap = snap, !.hand = Holding(@, t, snap)]]
    /\ UNCHANGED window

\* The callback: emit_progress.
Deliver(o, t) ==
    /\ ~Empty(o, t)
    /\ op' = [op EXCEPT ![o].hand[t] = Nothing, ![o].said = op[o].hand[t].phase]
    /\ window' = [window EXCEPT !.prog = op[o].hand[t]]

At(o, where) == op[o].at = where /\ Empty(o, "main")
Goes(o, where) == [op[o] EXCEPT !.at = where]
Packs(o) == op[o].kind = "create"
Measured(o) == op[o].kind \in {"create", "extract", "test"}

Scan(o) ==
    /\ At(o, "start") /\ Measured(o)
    /\ Call(o, "main", Phase(op[o].snap, "scan"),
            Goes(o, IF Packs(o) THEN "walk" ELSE "totals"))

Walk(o) ==
    /\ At(o, "walk")
    /\ IF op[o].snap.filesTotal < Files
       THEN Call(o, "main", Scanned(op[o].snap, op[o].snap.filesTotal + 1), op[o])
       ELSE op' = [op EXCEPT ![o].at = "totals"] /\ UNCHANGED window

SayTotals(o) ==
    /\ At(o, "totals")
    /\ Call(o, "main", Totals(op[o].snap, Files, Files * Size), Goes(o, "begin"))

Begin(o) ==
    /\ At(o, "begin")
    /\ Call(o, "main", Phase(op[o].snap, "work"), Goes(o, "work"))

\* add_file: the file is known, or its unit goes to the pipeline,
AddFile(o) ==
    /\ At(o, "work") /\ Packs(o) /\ op[o].read < Files
    /\ \E more \in Growths, known \in BOOLEAN :
        LET n == Size + more
        IN  op' = [op EXCEPT ![o] =
                      [Goes(o, "tell") EXCEPT !.read = @ + 1, !.bytes = @ + n,
                          !.deduped = IF known THEN @ + n ELSE @,
                          !.finished = IF known THEN @ + n ELSE @,
                          !.submitted = IF known THEN @ ELSE Append(@, n)]]
    /\ UNCHANGED window

\* and reporter.read says so when that is over.
TellRead(o) ==
    /\ At(o, "tell")
    /\ Call(o, "main", Read(op[o].snap, op[o].read, op[o].bytes, op[o].deduped),
            Goes(o, "work"))

Drain(o) ==
    /\ At(o, "work") /\ Packs(o) /\ op[o].read = Files
    /\ Call(o, "main", Phase(op[o].snap, "drain"), Goes(o, "join"))

\* pack_with's scope, whose threads the pack has until they are joined.
InScope(o) ==
    /\ Packs(o) /\ op[o].at \in {"work", "tell", "join"}
    /\ op[o].at = "work" /\ op[o].read = 0 => Empty(o, "main")

\* A worker has compressed some unit and sends it.
CompressUnit(o) ==
    /\ InScope(o)
    /\ \E i \in (1..Len(op[o].submitted)) \ op[o].units :
        LET n == op[o].submitted[i]
        IN  op' = [op EXCEPT ![o] =
                      [op[o] EXCEPT !.units = @ \cup {i}, !.compressed = @ + n,
                          !.finished = @ + n,
                          !.rx = Append(@, [unpacked |-> n, all |-> op[o].compressed + n])]]
    /\ UNCHANGED window

\* writer_loop counts a unit when it receives it, in whatever order they come and whether or
\* not its turn to be written has come.
ReceiveUnit(o) ==
    /\ InScope(o) /\ Empty(o, "h1") /\ op[o].rx # <<>>
    /\ LET all == op[o].counted + Head(op[o].rx).unpacked
       IN  Call(o, "h1", Stored(op[o].snap, all),
                    [op[o] EXCEPT !.counted = all, !.rx = Tail(@)])

\* A worker takes a file, or a unit to test,
TakeWork(o, t) ==
    /\ op[o].kind \in {"extract", "test"} /\ op[o].at = "work" /\ Empty(o, t)
    /\ op[o].taken < Files /\ op[o].taken - op[o].ended < Cardinality(Helpers)
    /\ op' = [op EXCEPT ![o].taken = @ + 1]
    /\ UNCHANGED window

\* and is through with it. What a test passes on are its totals so far, not its last unit.
WorkDone(o, t) ==
    /\ op[o].at = "work" /\ Empty(o, t) /\ op[o].ended < op[o].taken
    /\ LET n == op[o].ended + 1
       IN  Call(o, t,
                IF op[o].kind = "test" THEN ExtractedMore(op[o].snap, n, n * Size)
                ELSE ExtractedMore(op[o].snap, 1, Size),
                [op[o] EXCEPT !.ended = n, !.finished = @ + Size])

AllDelivered(o) == \A t \in Threads : Empty(o, t)

\* The scope has joined its threads.
Joined(o) ==
    /\ AllDelivered(o)
    /\ IF Packs(o) THEN /\ op[o].at = "join"
                        /\ op[o].units = 1..Len(op[o].submitted) /\ op[o].rx = <<>>
       ELSE op[o].at = "work" /\ op[o].ended = Files
    /\ op' = [op EXCEPT ![o].at = IF Packs(o) THEN "commit" ELSE "finish"]
    /\ UNCHANGED window

Commit(o) ==
    /\ At(o, "commit")
    /\ Call(o, "main", Phase(op[o].snap, "commit"), Goes(o, "finish"))

FinishOp(o) ==
    /\ At(o, "finish")
    /\ Call(o, "main", Finish(op[o].snap), Goes(o, "done"))

\* compact and remove cannot say how far they are.
Indeterminate(o) ==
    /\ At(o, "start") /\ ~Measured(o)
    /\ op' = [op EXCEPT ![o].at = "done",
                        ![o].hand["main"] = [phase |-> "work", done |-> 0, total |-> 0]]
    /\ UNCHANGED window

--------------------------------------------------------------------------------
(* The end: finish(), or the guard where the thread panics.                    *)

\* The last step of an operation, when its threads have delivered what they had, but for
\* one that panicked with a reading in its hand.
Leaves(o, where, panicked, w) ==
    /\ \A t \in Threads \ panicked : Empty(o, t)
    /\ op' = [op EXCEPT ![o] = [NewOp EXCEPT !.at = where]]
    /\ window' = w

Succeeds(o) == op[o].at = "done" /\ Leaves(o, "over", {}, OnDone(window, TRUE))

Ended(o) == op[o].at \in {"idle", "done", "stuck", "over"}

\* An error, at any time; the threads are joined first.
Fails(o) == ~Ended(o) /\ Leaves(o, "over", {}, OnDone(window, FALSE))

\* A panic is over without a word.
NoGuard(w) == w

\* DoneGuard::drop
Guard(w) == OnDone(w, FALSE)

\* A panic that gets out of the core: of a pack's own thread outside pack_with, or of one of
\* its workers, after which the scope joins the others and panics in its turn; of any thread
\* of another operation.
Panics(o) ==
    /\ ~Ended(o)
    /\ \E t \in IF InScope(o) THEN {"h2"} ELSE Threads :
           Leaves(o, "over", {t}, Guard(window))

\* One that does not: when `produce` panics, or the writer, in its callback perhaps, nobody
\* tells the governor to stop and the scope waits for it for ever. Nor does the scope end
\* where the reader sleeps for the charge of a unit whose worker panicked, or beside a
\* writer whose seek failed (Pipeline).
Hangs(o) == InScope(o) /\ \E t \in {"main", "h1"} : Leaves(o, "stuck", {t}, window)

Main(o) ==
    \/ Scan(o) \/ Walk(o) \/ SayTotals(o) \/ Begin(o) \/ AddFile(o) \/ TellRead(o) \/ Drain(o)
    \/ Joined(o) \/ Commit(o) \/ FinishOp(o) \/ Indeterminate(o)
    \/ Succeeds(o)
Help(o) ==
    \/ CompressUnit(o) \/ ReceiveUnit(o)
    \/ \E t \in Helpers : TakeWork(o, t) \/ WorkDone(o, t)

Next ==
    \/ \E o \in Ops : (\E kind \in KindsOf[o] : Click(o, kind)) \/ Main(o) \/ Help(o)
    \/ \E o \in Ops, t \in Threads : Deliver(o, t)
    \/ \E o \in Ops : Fails(o) \/ Panics(o) \/ Hangs(o)
    \/ Tick

\* The threads of an operation run until it is over, and their callbacks return.
Fairness ==
    \A o \in Ops :
        /\ WF_vars(Main(o)) /\ WF_vars(Help(o))
        /\ \A t \in Threads : WF_vars(Deliver(o, t))

Spec == Init /\ [][Next]_vars /\ Fairness

--------------------------------------------------------------------------------
(* Properties.                                                                 *)

InHand(o) == { op[o].hand[t] : t \in Threads } \ {Nothing}

\* "It never runs ahead of the work ... and equals bytes_total exactly once, in the single
\* reading with Phase::Done", for a pack, whose counters two threads feed and whose files
\* grow, and for an extraction: where there is something to measure, a reading is full if
\* and only if it is that one, no reading counts bytes of a unit that has yet to be
\* compressed or of a file that has yet to be written, and a success is the last thing that
\* was read. (A pack's reading may count units that are not in the archive yet, and a test's
\* runs ahead.)
ReadingsAreHonest ==
    \A o \in Ops :
        /\ \A r \in InHand(o) :
               /\ r.total > 0 => (r.done = r.total <=> r.phase = "done")
               /\ op[o].kind \in {"create", "extract"} /\ r.phase # "done" =>
                      r.done <= op[o].finished
        /\ Measured(o) /\ op[o].at = "done" /\ AllDelivered(o) => op[o].said = "done"

\* While one operation runs by itself its bar never goes back, though readings are delivered
\* out of their order, and is full only when the core has said so.
BarGoesForward ==
    [][window.busy /\ window'.busy /\ window.alone /\ window'.alone =>
          /\ window'.width >= window.width
          /\ window'.width = 100 => window'.prog.phase = "done"]_vars

\* The window hears of the end of an operation that fails or panics, unless it is a pack
\* that hangs: pack_with does not return, and the guard is never dropped.
BusyEnds == window.busy ~> ~window.busy \/ \E o \in Ops : op[o].at = "stuck"
=============================================================================
