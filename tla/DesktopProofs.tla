---------------------------- MODULE DesktopProofs ----------------------------
(***************************************************************************)
(* The readings of Desktop's operations, for any number of operations and  *)
(* files, any sizes, growths and reporting steps.                          *)
(***************************************************************************)
EXTENDS Desktop, TLAPS

Readings == [phase : Phases, done : Nat, total : Nat]

Snaps ==
    [phase : Phases, filesDone : Nat, filesTotal : Nat, bytesDone : Nat, bytesTotal : Nat,
     bytesRead : Nat, stored : Nat, deduped : Nat, sentDone : Nat, sentFiles : Nat,
     sentScan : Nat, stepBytes : Nat, stepFiles : Nat, says : BOOLEAN]

Places ==
    {"idle", "start", "walk", "totals", "begin", "work", "tell", "join", "commit", "finish",
     "done", "stuck", "over"}
Kinds == {"create", "extract", "test", "compact", "remove"}

Sendings == [unpacked : Nat, all : Nat]

OpRecords ==
    [kind : Kinds \cup {"none"}, at : Places, snap : Snaps,
     hand : [Threads -> Readings \cup {Nothing}], read : Nat, bytes : Nat, deduped : Nat,
     submitted : Seq(Nat), units : SUBSET Nat, compressed : Nat, rx : Seq(Sendings),
     counted : Nat, taken : Nat, ended : Nat, finished : Nat, said : Phases \cup {"none"}]

\* Until the end the snapshot is a byte short of its total, and has no byte too many.
SnapInv(s, kind, finished) ==
    s.phase # "done" =>
        /\ s.bytesDone <= Ceiling(s.bytesTotal)
        /\ kind \in {"create", "extract"} =>
               s.stored + s.deduped <= finished /\ s.bytesDone <= finished

\* What ReadingsAreHonest asks of a reading.
ReadingInv(r, kind, finished) ==
    /\ r.total > 0 => (r.done = r.total <=> r.phase = "done")
    /\ kind \in {"create", "extract"} /\ r.phase # "done" => r.done <= finished

HandInv(hand, kind, finished) ==
    \A t \in Threads : hand[t] # Nothing => ReadingInv(hand[t], kind, finished)

\* What is on its way to the writer, and what it has counted, add up to what was compressed.
Channel(rx, counted, compressed) ==
    /\ rx = <<>> => counted = compressed
    /\ rx # <<>> => rx[1].all = counted + rx[1].unpacked /\ rx[Len(rx)].all = compressed
    /\ \A i \in 1..Len(rx) :
           /\ rx[i].all <= compressed
           /\ i # 1 => rx[i].all = rx[i - 1].all + rx[i].unpacked

\* Of a pack's bytes those are done with that are compressed or known, and the snapshot says
\* what the writer has counted.
PackInv(stored, x) ==
    x.kind = "create" =>
        /\ x.finished = x.deduped + x.compressed /\ x.taken = 0
        /\ stored = x.counted /\ x.counted <= x.compressed
        /\ Channel(x.rx, x.counted, x.compressed)

\* Only a pack's files are read one by one.
PlaceInv(x) == x.at = "tell" => x.kind = "create"

\* Before the totals are known nothing has been counted, and what is deduplicated is counted
\* before it is said.
CountInv(x) ==
    /\ x.snap.phase = "done" => x.at = "done"
    /\ x.snap.deduped <= x.deduped
    /\ x.at \in {"start", "walk", "totals"} =>
           x.snap.bytesDone = 0 /\ x.snap.stored = 0 /\ x.deduped = 0

\* The helpers have delivered what they had when the scope has joined them, and the last
\* reading of a success is the main thread's.
EndInv(x) ==
    /\ x.at \in {"commit", "finish"} => \A t \in Helpers : x.hand[t] = Nothing
    /\ x.at = "done" /\ x.kind \in {"create", "extract", "test"} =>
           /\ \A t \in Helpers : x.hand[t] = Nothing
           /\ IF x.hand["main"] = Nothing THEN x.said = "done"
              ELSE x.hand["main"].phase = "done"
    /\ \A t \in Threads : x.hand[t] # Nothing /\ x.hand[t].phase = "done" =>
           x.at = "done" /\ \A u \in Threads \ {t} : x.hand[u] = Nothing

OpInv(x) ==
    /\ x \in OpRecords
    /\ SnapInv(x.snap, x.kind, x.finished) /\ HandInv(x.hand, x.kind, x.finished)
    /\ CountInv(x) /\ PackInv(x.snap.stored, x) /\ PlaceInv(x) /\ EndInv(x)

DesktopInv == op = [o \in Ops |-> op[o]] /\ \A o \in Ops : OpInv(op[o])

\* x and y differ in where they are, and in what they have read or taken at most.
Same(x, y) ==
    /\ x.hand = y.hand /\ x.kind = y.kind /\ x.finished = y.finished /\ x.said = y.said
    /\ x.deduped = y.deduped /\ x.compressed = y.compressed /\ x.taken = y.taken
    /\ x.rx = y.rx /\ x.counted = y.counted

--------------------------------------------------------------------------------
(* The snapshot.                                                               *)

\* However a call has changed the snapshot before it emits: what it counts is at most what
\* was stored and deduplicated, and a byte short of the total.
LEMMA EmitBounds == ASSUME NEW old \in Snaps, NEW s \in Snaps, NEW force \in BOOLEAN,
                           s.bytesDone <= Ceiling(s.bytesTotal)
                    PROVE  LET r == Emit(old, s, force)
                           IN  /\ r \in Snaps
                               /\ r.phase = s.phase /\ r.stored = s.stored /\ r.deduped = s.deduped
                               /\ r.bytesDone <= Ceiling(r.bytesTotal)
                               /\ r.bytesDone <= Larger(s.stored + s.deduped, s.bytesDone)
                               /\ force => r.says
<1> DEFINE total == Larger(s.bytesTotal, s.bytesRead)
           a == Assembled(s, total, old.filesDone)
           r == Emit(old, s, force)
<1>1. total \in Nat /\ total >= s.bytesTotal
  BY DEF Larger, Snaps
<1>2. /\ a \in Snaps /\ a.phase = s.phase /\ a.stored = s.stored /\ a.deduped = s.deduped
      /\ a.bytesTotal = total /\ a.bytesDone <= Ceiling(total)
      /\ a.bytesDone <= Larger(s.stored + s.deduped, s.bytesDone)
  <2>1. Larger(a.filesDone, 0) \in Nat /\ Larger(s.filesDone, old.filesDone) \in Nat
    BY DEF Larger, Snaps, Assembled
  <2>2. Ceiling(total) \in Nat /\ Ceiling(s.bytesTotal) <= Ceiling(total)
    BY <1>1 DEF Ceiling, Larger, Snaps
  <2> DEFINE d == Larger(Smaller(s.stored + s.deduped, Ceiling(total)), s.bytesDone)
  <2>3. d \in Nat /\ d <= Ceiling(total) /\ d <= Larger(s.stored + s.deduped, s.bytesDone)
    <3>1. Ceiling(s.bytesTotal) \in Int
      BY DEF Ceiling, Larger, Snaps
    <3> QED BY <2>2, <3>1 DEF Larger, Smaller, Snaps
  <2>4. a = [s EXCEPT !.bytesTotal = total, !.bytesDone = d,
                      !.filesDone = Larger(s.filesDone, old.filesDone)]
    BY DEF Assembled, Snaps
  <2> HIDE DEF d, a, total
  <2> QED BY <1>1, <2>1, <2>3, <2>4 DEF Snaps
<1>3. r = Told(a, force)
  BY DEF Emit
<1> HIDE DEF a, total
<1>4. /\ r \in Snaps /\ r.phase = a.phase /\ r.stored = a.stored /\ r.deduped = a.deduped
      /\ r.bytesDone = a.bytesDone /\ r.bytesTotal = a.bytesTotal /\ (force => r.says)
  <2>1. ASSUME NEW says \in BOOLEAN, r = Sent(a, says), force => says
        PROVE  /\ r \in Snaps /\ r.phase = a.phase /\ r.stored = a.stored
               /\ r.deduped = a.deduped /\ r.bytesDone = a.bytesDone
               /\ r.bytesTotal = a.bytesTotal /\ (force => r.says)
    <3>1. a.bytesDone \in Nat /\ a.filesDone \in Nat /\ a \in Snaps
      BY <1>2 DEF Snaps
    <3>2. CASE says
      <4>1. r = [a EXCEPT !.says = TRUE, !.sentDone = a.bytesDone, !.sentFiles = a.filesDone]
        BY <2>1, <3>2 DEF Sent
      <4> HIDE DEF r
      <4> QED BY <3>1, <4>1 DEF Snaps
    <3>3. CASE ~says
      <4>1. r = [a EXCEPT !.says = FALSE] /\ ~force
        BY <2>1, <3>3 DEF Sent
      <4> HIDE DEF r
      <4> QED BY <3>1, <4>1 DEF Snaps
    <3> QED BY <3>2, <3>3
  <2> HIDE DEF r
  <2> QED BY <1>3, <2>1 DEF Told, MovedOn
<1> HIDE DEF r
<1>5. /\ r.bytesDone <= Ceiling(r.bytesTotal)
      /\ r.bytesDone <= Larger(s.stored + s.deduped, s.bytesDone)
  BY <1>2, <1>4
<1> QED BY <1>2, <1>4, <1>5 DEF r

\* A call that says no more than Emit does keeps the snapshot as it should be.
LEMMA EmitKeeps == ASSUME NEW old \in Snaps, NEW s \in Snaps, NEW force \in BOOLEAN,
                          s.bytesDone <= Ceiling(s.bytesTotal), NEW kind, NEW finished \in Nat,
                          kind \in {"create", "extract"} =>
                              s.stored + s.deduped <= finished /\ s.bytesDone <= finished
                   PROVE  SnapInv(Emit(old, s, force), kind, finished)
<1>1. Larger(s.stored + s.deduped, s.bytesDone) \in Nat
      /\ (kind \in {"create", "extract"} => Larger(s.stored + s.deduped, s.bytesDone) <= finished)
  BY DEF Larger, Snaps
<1> DEFINE r == Emit(old, s, force)
<1>2. /\ r \in Snaps /\ r.stored = s.stored /\ r.deduped = s.deduped
      /\ r.bytesDone <= Ceiling(r.bytesTotal)
      /\ r.bytesDone <= Larger(s.stored + s.deduped, s.bytesDone)
  BY EmitBounds
<1> HIDE DEF r
<1>3. r.bytesDone \in Nat
  BY <1>2 DEF Snaps
<1>4. SnapInv(r, kind, finished)
  BY <1>1, <1>2, <1>3 DEF SnapInv
<1> QED BY <1>4 DEF r

LEMMA NewOpIsTyped == /\ NewSnap \in Snaps /\ NewOp \in OpRecords
                      /\ NewOp.snap = NewSnap /\ NewOp.hand = [t \in Threads |-> Nothing]
                      /\ NewOp.at = "idle" /\ NewOp.kind = "none" /\ NewOp.deduped = 0
<1>1. NewSnap \in Snaps
  BY DesktopAssumption, 1000 \in Nat DEF NewSnap, Snaps, NoStep, Phases
<1>2. NewOp \in OpRecords
  BY <1>1 DEF NewOp, OpRecords, Places
<1> QED BY <1>1, <1>2 DEF NewOp

\* An operation that has done nothing.
LEMMA NewOpIsFine == ASSUME NEW at \in Places \ {"done", "tell"},
                            NEW kind \in Kinds \cup {"none"}
                     PROVE  OpInv([NewOp EXCEPT !.kind = kind, !.at = at])
<1> DEFINE x == [NewOp EXCEPT !.kind = kind, !.at = at]
<1>0. /\ x \in OpRecords /\ x.snap = NewSnap /\ x.at = at /\ x.kind = kind
      /\ x.hand = [t \in Threads |-> Nothing] /\ x.deduped = 0 /\ x.finished = 0
      /\ x.compressed = 0 /\ x.taken = 0 /\ x.counted = 0 /\ x.rx = <<>>
  <2>1. /\ NewOp \in OpRecords /\ NewOp.snap = NewSnap /\ NewOp.deduped = 0
        /\ NewOp.hand = [t \in Threads |-> Nothing] /\ NewOp.finished = 0
        /\ NewOp.compressed = 0 /\ NewOp.taken = 0 /\ NewOp.counted = 0 /\ NewOp.rx = <<>>
    BY NewOpIsTyped DEF NewOp
  <2> QED BY <2>1 DEF OpRecords
<1> HIDE DEF x
<1>1. /\ NewSnap.phase = "scan" /\ NewSnap.bytesDone = 0 /\ NewSnap.bytesTotal = 0
      /\ NewSnap.stored = 0 /\ NewSnap.deduped = 0
  BY DEF NewSnap
<1>2. SnapInv(NewSnap, x.kind, 0)
  BY <1>1 DEF SnapInv, Ceiling, Larger
<1>3. HandInv(x.hand, x.kind, x.finished)
  BY <1>0 DEF HandInv
<1>4. CountInv(x) /\ EndInv(x)
  BY <1>0, <1>1 DEF CountInv, EndInv, Threads, Helpers
<1>5. PackInv(x.snap.stored, x) /\ PlaceInv(x)
  BY <1>0, <1>1 DEF PackInv, PlaceInv, Channel
<1>6. OpInv(x)
  BY <1>0, <1>2, <1>3, <1>4, <1>5 DEF OpInv
<1> QED BY <1>6 DEF x

--------------------------------------------------------------------------------
(* A call.                                                                     *)

\* What a snapshot says may be delivered.
LEMMA ReadingIsFine == ASSUME NEW s \in Snaps, NEW kind, NEW finished \in Nat,
                              SnapInv(s, kind, finished),
                              s.phase = "done" => s.bytesDone = s.bytesTotal
                       PROVE  /\ Reading(s) \in Readings /\ Reading(s) # Nothing
                              /\ Reading(s).phase = s.phase
                              /\ ReadingInv(Reading(s), kind, finished)
<1>1. Reading(s) \in Readings /\ Reading(s) # Nothing
  BY DesktopAssumption DEF Reading, Readings, Snaps
<1>2. s.bytesDone \in Nat /\ s.bytesTotal \in Nat
  BY DEF Snaps
<1>3. Reading(s).phase = s.phase /\ Reading(s).done = s.bytesDone /\ Reading(s).total = s.bytesTotal
  BY DEF Reading
<1>4. s.phase # "done" /\ s.bytesTotal > 0 => s.bytesDone < s.bytesTotal
  BY <1>2 DEF SnapInv, Ceiling, Larger
<1> QED BY <1>1, <1>2, <1>3, <1>4 DEF ReadingInv, SnapInv

\* A call leads from good operations to good ones, if it is one the operation may make:
\* rest is what it changes of the operation besides the snapshot and the hand.
LEMMA CallKeeps == ASSUME DesktopInv, NEW o \in Ops, NEW t \in Threads, NEW s \in Snaps,
                          NEW rest \in OpRecords, Call(o, t, s, rest),
                          rest.hand = op[o].hand, rest.kind = op[o].kind,
                          rest.finished >= op[o].finished, rest.said = op[o].said,
                          SnapInv(s, rest.kind, rest.finished), PackInv(s.stored, rest),
                          PlaceInv(rest),
                          s.phase = "done" => s.bytesDone = s.bytesTotal /\ rest.at = "done",
                          s.deduped <= rest.deduped,
                          rest.at \in {"start", "walk", "totals"} =>
                              s.bytesDone = 0 /\ s.stored = 0 /\ rest.deduped = 0,
                          rest.at \in {"commit", "finish", "done"} =>
                              t = "main" /\ op[o].at \in {"commit", "finish"},
                          op[o].at # "done", rest.at = "done" => s.phase = "done" /\ s.says
                   PROVE  DesktopInv'
<1> DEFINE hand == Holding(rest.hand, t, s)
           x == [rest EXCEPT !.snap = s, !.hand = hand]
<1>1. OpInv(op[o]) /\ op[o] \in OpRecords
  BY DEF DesktopInv, OpInv
<1>2. /\ Reading(s) \in Readings /\ Reading(s) # Nothing /\ Reading(s).phase = s.phase
      /\ ReadingInv(Reading(s), rest.kind, rest.finished)
  <2>1. rest.finished \in Nat
    BY DEF OpRecords
  <2> QED BY <2>1, ReadingIsFine
<1>3. /\ hand \in [Threads -> Readings \cup {Nothing}]
      /\ \A u \in Threads : hand[u] = rest.hand[u] \/ (u = t /\ hand[u] = Reading(s))
      /\ s.says => hand[t] = Reading(s)
  BY <1>2 DEF Holding, OpRecords
<1> HIDE DEF hand
<1>4. /\ x \in OpRecords /\ x.snap = s /\ x.hand = hand /\ x.kind = rest.kind /\ x.at = rest.at
      /\ x.deduped = rest.deduped /\ x.finished = rest.finished /\ x.said = rest.said
  BY <1>3 DEF OpRecords
<1>10. PackInv(x.snap.stored, x) /\ PlaceInv(x)
  <2>1. /\ x.compressed = rest.compressed /\ x.taken = rest.taken /\ x.rx = rest.rx
        /\ x.counted = rest.counted
    BY DEF OpRecords
  <2> HIDE DEF x
  <2> QED BY <1>4, <2>1 DEF PackInv, PlaceInv
<1> HIDE DEF x
<1>5. HandInv(hand, rest.kind, rest.finished)
  <2>1. HandInv(rest.hand, rest.kind, op[o].finished)
    BY <1>1 DEF OpInv
  <2> SUFFICES ASSUME NEW u \in Threads, hand[u] = rest.hand[u], hand[u] # Nothing
               PROVE  ReadingInv(hand[u], rest.kind, rest.finished)
    BY <1>2, <1>3 DEF HandInv
  <2>2. ReadingInv(hand[u], rest.kind, op[o].finished)
    BY <2>1 DEF HandInv
  <2>3. hand[u].done \in Nat /\ op[o].finished \in Nat /\ rest.finished \in Nat
    BY <1>1, <1>3 DEF OpRecords, Readings
  <2> QED BY <2>2, <2>3 DEF ReadingInv
<1>6. CountInv(x)
  BY <1>4 DEF CountInv
<1>7. EndInv(x)
  <2>1. ASSUME rest.at \in {"commit", "finish", "done"}, NEW u \in Helpers
        PROVE  hand[u] = Nothing
    <3>1. op[o].hand[u] = Nothing /\ u \in Threads /\ u # t
      BY <1>1, <2>1 DEF OpInv, EndInv, Helpers, Threads
    <3> QED BY <1>3, <3>1
  <2>2. ASSUME rest.at = "done" PROVE hand["main"] # Nothing /\ hand["main"].phase = "done"
    BY <1>2, <1>3, <2>2
  <2>3. ASSUME NEW u \in Threads, hand[u] # Nothing, hand[u].phase = "done"
        PROVE  rest.at = "done" /\ \A v \in Threads \ {u} : hand[v] = Nothing
    <3>1. u = t /\ hand[u] = Reading(s)
      BY <1>1, <1>3, <2>3 DEF OpInv, EndInv
    <3>2. rest.at = "done" /\ t = "main"
      BY <1>2, <2>3, <3>1
    <3> QED BY <2>1, <3>1, <3>2 DEF Threads
  <2> QED BY <1>4, <2>1, <2>2, <2>3 DEF EndInv
<1>8. OpInv(x)
  BY <1>4, <1>10, <1>5, <1>6, <1>7 DEF OpInv
<1>9. op' = [op EXCEPT ![o] = x]
  BY DEF Call, x, hand
<1> QED BY <1>8, <1>9 DEF DesktopInv

--------------------------------------------------------------------------------
(* The calls there are.                                                        *)

LEMMA Known == ASSUME DesktopInv, NEW o \in Ops
               PROVE  /\ op[o] \in OpRecords /\ op[o].snap \in Snaps /\ OpInv(op[o])
                      /\ op[o].kind \in Kinds \cup {"none"} /\ op[o].at \in Places
                      /\ op[o].finished \in Nat /\ op[o].deduped \in Nat
                      /\ op[o].at # "done" => op[o].snap.phase # "done"
BY DEF DesktopInv, OpInv, CountInv, OpRecords

\* Before the end nobody has the last reading.
LEMMA NotLast == ASSUME DesktopInv, NEW o \in Ops, op[o].at # "done"
                 PROVE  \A t \in Threads : op[o].hand[t] # Nothing => op[o].hand[t].phase # "done"
BY Known DEF OpInv, EndInv

\* Until the end the snapshot is a byte short.
LEMMA Short == ASSUME DesktopInv, NEW o \in Ops, op[o].at # "done"
               PROVE  LET s == op[o].snap
                      IN  /\ s.bytesDone <= Ceiling(s.bytesTotal) /\ s.deduped <= op[o].deduped
                          /\ PackInv(s.stored, op[o])
                          /\ op[o].kind \in {"create", "extract"} =>
                                 /\ s.stored + s.deduped <= op[o].finished
                                 /\ s.bytesDone <= op[o].finished
BY Known DEF OpInv, SnapInv, CountInv

LEMMA SamePack == ASSUME NEW x, NEW y, NEW stored, Same(x, y), PackInv(stored, y)
                  PROVE  PackInv(stored, x)
BY DEF Same, PackInv

LEMMA GoesIsSame == ASSUME DesktopInv, NEW o \in Ops, NEW at \in Places
                    PROVE  /\ Goes(o, at) \in OpRecords /\ Goes(o, at).at = at
                           /\ Same(Goes(o, at), op[o])
<1> DEFINE y == op[o]
           x == Goes(o, at)
<1>1. y \in OpRecords /\ x = [y EXCEPT !.at = at]
  BY Known DEF Goes
<1> HIDE DEF x, y
<1>2. x \in OpRecords /\ x.at = at /\ Same(x, y)
  BY <1>1 DEF OpRecords, Same
<1> QED BY <1>2 DEF x, y

\* A call that emits what it has changed of the snapshot.
LEMMA EmitCallKeeps ==
    ASSUME DesktopInv, NEW o \in Ops, NEW t \in Threads, NEW s \in Snaps, NEW force \in BOOLEAN,
           NEW rest \in OpRecords, Call(o, t, Emit(op[o].snap, s, force), rest),
           op[o].at # "done", rest.hand = op[o].hand, rest.kind = op[o].kind,
           rest.finished >= op[o].finished, rest.said = op[o].said,
           s.bytesDone <= Ceiling(s.bytesTotal), s.deduped <= rest.deduped, s.phase # "done",
           PackInv(s.stored, rest), PlaceInv(rest),
           rest.kind \in {"create", "extract"} =>
               s.stored + s.deduped <= rest.finished /\ s.bytesDone <= rest.finished,
           rest.at \in {"start", "walk", "totals"} =>
               s.bytesDone = 0 /\ s.stored = 0 /\ rest.deduped = 0,
           rest.at \in {"commit", "finish"} => t = "main" /\ op[o].at \in {"commit", "finish"},
           rest.at # "done"
    PROVE  DesktopInv'
<1> DEFINE r == Emit(op[o].snap, s, force)
<1>1. op[o].snap \in Snaps /\ rest.finished \in Nat
  BY Known DEF OpRecords
<1>2. /\ r \in Snaps /\ r.phase = s.phase /\ r.stored = s.stored /\ r.deduped = s.deduped
      /\ r.bytesDone <= Larger(s.stored + s.deduped, s.bytesDone)
  BY <1>1, EmitBounds
<1>3. SnapInv(r, rest.kind, rest.finished)
  BY <1>1, EmitKeeps
<1> HIDE DEF r
<1>4. rest.at \in {"start", "walk", "totals"} => r.bytesDone = 0
  <2>1. rest.deduped \in Nat
    BY DEF OpRecords
  <2> QED BY <1>2, <2>1 DEF Larger, Snaps
<1> QED BY <1>2, <1>3, <1>4, CallKeeps DEF r

\* A new phase, and the place in the operation that goes with it.
LEMMA PhaseKeeps ==
    ASSUME DesktopInv, NEW o \in Ops, NEW phase \in Phases \ {"done"}, NEW at \in Places,
           Call(o, "main", Phase(op[o].snap, phase), Goes(o, at)),
           op[o].at # "done", at # "done",
           at \in {"start", "walk", "totals"} => op[o].at = "start",
           at \in {"commit", "finish"} => op[o].at \in {"commit", "finish"}, at # "tell"
    PROVE  DesktopInv'
<1> DEFINE s == [op[o].snap EXCEPT !.phase = phase]
           rest == Goes(o, at)
<1>1. /\ s \in Snaps /\ s.phase = phase /\ s.bytesDone = op[o].snap.bytesDone
      /\ s.bytesTotal = op[o].snap.bytesTotal /\ s.stored = op[o].snap.stored
      /\ s.deduped = op[o].snap.deduped
  <2> DEFINE q == op[o].snap
  <2>1. q \in Snaps /\ s = [q EXCEPT !.phase = phase]
    BY Known
  <2> HIDE DEF q, s
  <2>2. /\ s \in Snaps /\ s.phase = phase /\ s.bytesDone = q.bytesDone
        /\ s.bytesTotal = q.bytesTotal /\ s.stored = q.stored /\ s.deduped = q.deduped
    BY <2>1 DEF Snaps
  <2> QED BY <2>2 DEF q
<1>2. rest \in OpRecords /\ rest.at = at /\ Same(rest, op[o])
  BY GoesIsSame
<1>3. Call(o, "main", Emit(op[o].snap, s, TRUE), rest)
  BY DEF Phase
<1> HIDE DEF s, rest
<1>4. at \in {"start", "walk", "totals"} => s.bytesDone = 0 /\ s.stored = 0 /\ rest.deduped = 0
  BY <1>1, <1>2, Known DEF OpInv, CountInv, Same
<1>5. /\ "main" \in Threads /\ rest.finished >= op[o].finished /\ s.deduped <= rest.deduped
      /\ s.bytesDone <= Ceiling(s.bytesTotal) /\ s.phase # "done" /\ rest.at # "done"
      /\ rest.at \in {"commit", "finish"} => op[o].at \in {"commit", "finish"}
  BY <1>1, <1>2, Known, Short DEF Threads, Same
<1>6. rest.kind \in {"create", "extract"} =>
          s.stored + s.deduped <= rest.finished /\ s.bytesDone <= rest.finished
  BY <1>1, <1>2, Short DEF Same
<1>7. PackInv(s.stored, rest) /\ PlaceInv(rest) /\ TRUE \in BOOLEAN
  BY <1>1, <1>2, Short, SamePack DEF PlaceInv
<1>8. rest.hand = op[o].hand /\ rest.kind = op[o].kind /\ rest.said = op[o].said
  BY <1>2 DEF Same
<1> QED BY <1>1, <1>2, <1>3, <1>4, <1>5, <1>6, <1>7, <1>8, EmitCallKeeps

LEMMA PhasesKeep == ASSUME DesktopInv, NEW o \in Ops, Scan(o) \/ Begin(o) \/ Drain(o) \/ Commit(o)
                    PROVE  DesktopInv'
<1>1. CASE Scan(o)
  BY <1>1, PhaseKeeps DEF Scan, At, Phases, Places
<1>2. CASE Begin(o)
  BY <1>2, PhaseKeeps DEF Begin, At, Phases, Places
<1>3. CASE Drain(o)
  BY <1>3, PhaseKeeps DEF Drain, At, Phases, Places
<1>4. CASE Commit(o)
  BY <1>4, PhaseKeeps DEF Commit, At, Phases, Places
<1> QED BY <1>1, <1>2, <1>3, <1>4

LEMMA WalkKeeps == ASSUME DesktopInv, NEW o \in Ops, Walk(o),
                          op[o].snap.filesTotal < Files
                   PROVE  DesktopInv'
<1> DEFINE n == op[o].snap.filesTotal + 1
           scanned == IF n >= op[o].snap.sentScan + ScanStep THEN n ELSE op[o].snap.sentScan
           s == [op[o].snap EXCEPT !.filesTotal = n, !.sentScan = scanned]
           force == n >= op[o].snap.sentScan + ScanStep
<1>1. n \in Nat /\ scanned \in Nat
  BY Known DEF Snaps
<1>2. Call(o, "main", Emit(op[o].snap, s, force), op[o])
  BY DEF Walk, Scanned
<1> HIDE DEF n, scanned
<1>3. /\ s \in Snaps /\ s.phase = op[o].snap.phase /\ s.bytesDone = op[o].snap.bytesDone
      /\ s.bytesTotal = op[o].snap.bytesTotal /\ s.stored = op[o].snap.stored
      /\ s.deduped = op[o].snap.deduped
  <2> DEFINE q == op[o].snap
  <2>1. q \in Snaps /\ s = [q EXCEPT !.filesTotal = n, !.sentScan = scanned]
    BY Known
  <2> HIDE DEF q, s
  <2>2. /\ s \in Snaps /\ s.phase = q.phase /\ s.bytesDone = q.bytesDone
        /\ s.bytesTotal = q.bytesTotal /\ s.stored = q.stored /\ s.deduped = q.deduped
    BY <1>1, <2>1 DEF Snaps
  <2> QED BY <2>2 DEF q
<1> HIDE DEF s
<1>4. op[o].at = "walk" /\ force \in BOOLEAN /\ "main" \in Threads
  BY DEF Walk, At, Threads
<1> HIDE DEF force
<1>5. op[o].snap.bytesDone = 0 /\ op[o].snap.stored = 0 /\ op[o].deduped = 0
  BY <1>4, Known DEF OpInv, CountInv
<1>6. op[o].finished >= op[o].finished /\ op[o].snap.phase # "done"
  BY <1>4, Known
<1>7. /\ s.bytesDone <= Ceiling(s.bytesTotal) /\ s.deduped <= op[o].deduped
      /\ PackInv(s.stored, op[o]) /\ PlaceInv(op[o])
      /\ op[o].kind \in {"create", "extract"} =>
             s.stored + s.deduped <= op[o].finished /\ s.bytesDone <= op[o].finished
  BY <1>3, <1>4, Short DEF PlaceInv
<1> QED BY <1>2, <1>3, <1>4, <1>5, <1>6, <1>7, Known, EmitCallKeeps

LEMMA TotalsKeep == ASSUME DesktopInv, NEW o \in Ops, SayTotals(o) PROVE DesktopInv'
<1> DEFINE s == [op[o].snap EXCEPT !.filesTotal = Files, !.bytesTotal = Files * Size,
                      !.stepBytes = Larger((Files * Size) \div Reports, 1),
                      !.stepFiles = Larger(Files \div Reports, 1), !.sentFiles = 0]
           rest == Goes(o, "begin")
<1>1. Files * Size \in Nat
  BY DesktopAssumption
<1>2. Larger((Files * Size) \div Reports, 1) \in Nat /\ Larger(Files \div Reports, 1) \in Nat
  BY <1>1, DesktopAssumption DEF Larger
<1>3. /\ s \in Snaps /\ s.phase = op[o].snap.phase /\ s.bytesDone = op[o].snap.bytesDone
      /\ s.bytesTotal = Files * Size /\ s.stored = op[o].snap.stored
      /\ s.deduped = op[o].snap.deduped
  <2> DEFINE q == op[o].snap
             step == Larger((Files * Size) \div Reports, 1)
             less == Larger(Files \div Reports, 1)
             bytes == Files * Size
  <2>1. /\ q \in Snaps /\ Files \in Nat
        /\ s = [q EXCEPT !.filesTotal = Files, !.bytesTotal = bytes, !.stepBytes = step,
                         !.stepFiles = less, !.sentFiles = 0]
    BY Known, DesktopAssumption
  <2> HIDE DEF q, s, step, less, bytes
  <2>2. step \in Nat /\ less \in Nat /\ bytes \in Nat
    BY <1>1, <1>2 DEF step, less, bytes
  <2>3. /\ s \in Snaps /\ s.phase = q.phase /\ s.bytesDone = q.bytesDone
        /\ s.bytesTotal = bytes /\ s.stored = q.stored /\ s.deduped = q.deduped
    BY <2>1, <2>2 DEF Snaps
  <2> QED BY <2>3 DEF q, bytes
<1>4. rest \in OpRecords /\ rest.at = "begin" /\ Same(rest, op[o])
  BY GoesIsSame DEF Places
<1>5. Call(o, "main", Emit(op[o].snap, s, TRUE), rest) /\ op[o].at = "totals"
  BY DEF SayTotals, Totals, At
<1> HIDE DEF s, rest
<1>6. op[o].snap.bytesDone = 0 /\ op[o].snap.stored = 0 /\ op[o].deduped = 0
  BY <1>5, Known DEF OpInv, CountInv
<1>7. s.bytesDone <= Ceiling(s.bytesTotal)
  BY <1>1, <1>3, <1>6 DEF Ceiling, Larger
<1>8. "main" \in Threads /\ rest.finished >= op[o].finished /\ op[o].snap.phase # "done"
      /\ rest.hand = op[o].hand /\ rest.kind = op[o].kind /\ rest.said = op[o].said
  BY <1>4, <1>5, Known DEF Threads, Same
<1>9. PackInv(s.stored, rest) /\ PlaceInv(rest)
  BY <1>3, <1>4, <1>5, Short, SamePack DEF PlaceInv
<1>10. s.deduped <= rest.deduped /\ s.phase # "done"
  BY <1>3, <1>4, <1>5, <1>8, Short DEF Same
<1>11. rest.kind \in {"create", "extract"} =>
           s.stored + s.deduped <= rest.finished /\ s.bytesDone <= rest.finished
  BY <1>3, <1>4, <1>5, Short DEF Same
<1>12. TRUE \in BOOLEAN
  OBVIOUS
<1> QED BY <1>3, <1>4, <1>5, <1>7, <1>8, <1>9, <1>10, <1>11, <1>12, EmitCallKeeps

\* A count and the bytes that are finished grow by the same number.
LEMMA Sums == \A a, b, c, m \in Nat :
                  /\ a + m \in Nat /\ a + m >= a
                  /\ a + b <= c => (a + m) + b <= c + m /\ a + (b + m) <= c + m
                  /\ a <= c => a <= c + m
OBVIOUS

\* What has been read is said, with what has been deduplicated by then.
LEMMA TellReadKeeps == ASSUME DesktopInv, NEW o \in Ops, TellRead(o) PROVE DesktopInv'
<1> DEFINE files == op[o].read
           bytes == op[o].bytes
           deduped == op[o].deduped
           s == [op[o].snap EXCEPT !.filesDone = files, !.bytesRead = bytes,
                                   !.deduped = deduped]
           rest == Goes(o, "work")
<1>1. op[o].at = "tell" /\ "main" \in Threads /\ FALSE \in BOOLEAN
  BY DEF TellRead, At, Threads
<1>2. Call(o, "main", Emit(op[o].snap, s, FALSE), rest)
  BY DEF TellRead, Read
<1>3. /\ files \in Nat /\ bytes \in Nat /\ deduped \in Nat
      /\ op[o].finished \in Nat /\ op[o].compressed \in Nat /\ op[o].counted \in Nat
  BY Known DEF OpRecords
<1>4. /\ s \in Snaps /\ s.phase = op[o].snap.phase /\ s.bytesDone = op[o].snap.bytesDone
      /\ s.bytesTotal = op[o].snap.bytesTotal /\ s.stored = op[o].snap.stored
      /\ s.deduped = op[o].deduped
  <2> DEFINE q == op[o].snap
  <2>1. q \in Snaps /\ s = [q EXCEPT !.filesDone = files, !.bytesRead = bytes,
                                    !.deduped = deduped]
    BY Known
  <2> HIDE DEF q, s, files, bytes, deduped
  <2>2. /\ s \in Snaps /\ s.phase = q.phase /\ s.bytesDone = q.bytesDone
        /\ s.bytesTotal = q.bytesTotal /\ s.stored = q.stored /\ s.deduped = deduped
    BY <1>3, <2>1 DEF Snaps
  <2> QED BY <2>2 DEF q, deduped
<1>5. rest \in OpRecords /\ rest.at = "work" /\ Same(rest, op[o])
  BY GoesIsSame DEF Places
<1> HIDE DEF s, rest
<1>6. /\ rest.hand = op[o].hand /\ rest.kind = op[o].kind /\ rest.said = op[o].said
      /\ rest.finished = op[o].finished /\ rest.deduped = op[o].deduped
  BY <1>5 DEF Same
<1>7. PackInv(s.stored, rest) /\ PackInv(op[o].snap.stored, op[o]) /\ PlaceInv(rest)
  BY <1>1, <1>4, <1>5, Short, SamePack DEF PlaceInv
<1>8. rest.kind \in {"create", "extract"} =>
          s.stored + s.deduped <= rest.finished /\ s.bytesDone <= rest.finished
  <2>1. CASE op[o].kind = "create"
    <3>1. /\ op[o].finished = op[o].deduped + op[o].compressed
          /\ op[o].snap.stored = op[o].counted /\ op[o].counted <= op[o].compressed
      BY <1>7, <2>1 DEF PackInv
    <3>2. op[o].snap.stored + op[o].deduped <= op[o].finished
      BY <1>3, <3>1
    <3> QED BY <1>1, <1>4, <1>6, <2>1, <3>2, Short
  <2>2. CASE op[o].kind # "create"
    <3>1. op[o].kind # "extract"
      BY <1>1, <2>2, Known DEF OpInv, PlaceInv
    <3> QED BY <1>6, <2>2, <3>1
  <2> QED BY <2>1, <2>2
<1>9. /\ op[o].snap.phase # "done" /\ s.bytesDone <= Ceiling(s.bytesTotal)
      /\ s.deduped <= rest.deduped /\ rest.finished >= op[o].finished
  BY <1>1, <1>3, <1>4, <1>6, Known, Short
<1> QED BY <1>1, <1>2, <1>4, <1>5, <1>6, <1>7, <1>8, <1>9, EmitCallKeeps

\* The writer has received what the oldest unit of the channel makes.
LEMMA ChannelGives ==
    ASSUME NEW rx \in Seq(Sendings), rx # <<>>, NEW counted \in Nat, NEW compressed \in Nat,
           Channel(rx, counted, compressed)
    PROVE  LET all == counted + Head(rx).unpacked
           IN  all \in Nat /\ all <= compressed /\ Channel(Tail(rx), all, compressed)
<1> DEFINE all == counted + Head(rx).unpacked
           rest == Tail(rx)
<1>1. /\ Len(rx) \in Nat \ {0} /\ Head(rx) = rx[1] /\ rest \in Seq(Sendings)
      /\ Len(rest) = Len(rx) - 1 /\ \A i \in 1..Len(rest) : rest[i] = rx[i + 1]
      /\ rest = <<>> <=> Len(rx) = 1
  <2>1. Len(rx) \in Nat \ {0} /\ Head(rx) = rx[1]
    OBVIOUS
  <2>2. rest \in Seq(Sendings) /\ Len(rest) = Len(rx) - 1
    OBVIOUS
  <2>3. \A i \in 1..Len(rest) : rest[i] = rx[i + 1]
    OBVIOUS
  <2>4. rest = <<>> <=> Len(rx) = 1
    <3>1. \A q \in Seq(Sendings) : q = <<>> <=> Len(q) = 0
      OBVIOUS
    <3>2. rest = <<>> <=> Len(rest) = 0
      BY <2>2, <3>1
    <3> HIDE DEF rest
    <3> QED BY <2>1, <2>2, <3>2
  <2> QED BY <2>1, <2>2, <2>3, <2>4
<1>2. \A i \in 1..Len(rx) : rx[i].all \in Nat /\ rx[i].unpacked \in Nat
  <2> SUFFICES ASSUME NEW i \in 1..Len(rx) PROVE rx[i].all \in Nat /\ rx[i].unpacked \in Nat
    OBVIOUS
  <2>1. rx[i] \in Sendings
    OBVIOUS
  <2> QED BY <2>1 DEF Sendings
<1>3. all = rx[1].all /\ all \in Nat /\ all <= compressed
  BY <1>1, <1>2 DEF Channel
<1> HIDE DEF all, rest
<1>4. rest = <<>> => all = compressed
  BY <1>1, <1>3 DEF Channel
<1>5. rest # <<>> => rest[1].all = all + rest[1].unpacked /\ rest[Len(rest)].all = compressed
  <2> SUFFICES ASSUME rest # <<>>
               PROVE  rest[1].all = all + rest[1].unpacked /\ rest[Len(rest)].all = compressed
    OBVIOUS
  <2>1. 2 \in 1..Len(rx) /\ Len(rx) > 1
    BY <1>1
  <2>2. rest[1] = rx[2] /\ rest[Len(rest)] = rx[Len(rx)]
    BY <1>1, <2>1
  <2>3. rx[2].all = rx[1].all + rx[2].unpacked /\ rx[Len(rx)].all = compressed
    BY <2>1 DEF Channel
  <2> QED BY <1>3, <2>2, <2>3
<1>6. ASSUME NEW i \in 1..Len(rest)
      PROVE  /\ rest[i].all <= compressed
             /\ i # 1 => rest[i].all = rest[i - 1].all + rest[i].unpacked
  <2>1. i + 1 \in 1..Len(rx) /\ rest[i] = rx[i + 1] /\ i + 1 # 1
    BY <1>1
  <2>2. i # 1 => rest[i - 1] = rx[i]
    BY <1>1
  <2>3. rx[i + 1].all <= compressed /\ rx[i + 1].all = rx[(i + 1) - 1].all + rx[i + 1].unpacked
    BY <2>1 DEF Channel
  <2>4. (i + 1) - 1 = i
    OBVIOUS
  <2> QED BY <2>1, <2>2, <2>3, <2>4
<1>7. Channel(rest, all, compressed)
  BY <1>4, <1>5, <1>6 DEF Channel
<1> QED BY <1>3, <1>7 DEF all, rest

\* A worker has put what it compressed behind the others.
LEMMA ChannelTakes ==
    ASSUME NEW rx \in Seq(Sendings), NEW counted \in Nat, NEW compressed \in Nat, NEW n \in Nat,
           Channel(rx, counted, compressed)
    PROVE  LET more == Append(rx, [unpacked |-> n, all |-> compressed + n])
           IN  more \in Seq(Sendings) /\ Channel(more, counted, compressed + n)
<1> DEFINE unit == [unpacked |-> n, all |-> compressed + n]
           more == Append(rx, unit)
<1>1. unit \in Sendings /\ unit.unpacked = n /\ unit.all = compressed + n
  BY DEF Sendings
<1> HIDE DEF unit
<1>2. /\ Len(rx) \in Nat /\ more \in Seq(Sendings) /\ more # <<>> /\ Len(more) = Len(rx) + 1
      /\ more[Len(more)] = unit /\ \A i \in 1..Len(rx) : more[i] = rx[i]
  BY <1>1
<1> HIDE DEF more
<1>3. /\ \A i \in 1..Len(rx) : rx[i].all \in Nat
      /\ rx = <<>> <=> Len(rx) = 0
  <2>1. rx = <<>> <=> Len(rx) = 0
    OBVIOUS
  <2>2. ASSUME NEW i \in 1..Len(rx) PROVE rx[i].all \in Nat
    <3>1. rx[i] \in Sendings
      OBVIOUS
    <3> QED BY <3>1 DEF Sendings
  <2> QED BY <2>1, <2>2
<1>4. more[1].all = counted + more[1].unpacked
  <2>1. CASE rx = <<>>
    <3>1. more[1] = unit /\ counted = compressed
      BY <1>2, <1>3, <2>1 DEF Channel
    <3> QED BY <1>1, <3>1
  <2>2. CASE rx # <<>>
    <3>1. more[1] = rx[1]
      BY <1>2, <1>3, <2>2
    <3> QED BY <2>2, <3>1 DEF Channel
  <2> QED BY <2>1, <2>2
<1>5. ASSUME NEW i \in 1..Len(more)
      PROVE  /\ more[i].all <= compressed + n
             /\ i # 1 => more[i].all = more[i - 1].all + more[i].unpacked
  <2>1. CASE i = Len(more)
    <3>1. more[i] = unit /\ (i # 1 => rx # <<>> /\ more[i - 1] = rx[Len(rx)])
      BY <1>2, <1>3, <2>1
    <3>2. rx # <<>> => rx[Len(rx)].all = compressed
      BY DEF Channel
    <3> QED BY <1>1, <3>1, <3>2
  <2>2. CASE i # Len(more)
    <3>1. i \in 1..Len(rx) /\ more[i] = rx[i] /\ (i # 1 => more[i - 1] = rx[i - 1])
      BY <1>2, <2>2
    <3>2. /\ rx[i].all <= compressed
          /\ i # 1 => rx[i].all = rx[i - 1].all + rx[i].unpacked
      BY <3>1 DEF Channel
    <3>3. rx[i].all <= compressed + n
      BY <1>3, <3>1, <3>2
    <3> QED BY <3>1, <3>2, <3>3
  <2> QED BY <2>1, <2>2
<1>6. Channel(more, counted, compressed + n)
  BY <1>1, <1>2, <1>4, <1>5 DEF Channel
<1> QED BY <1>2, <1>6 DEF more, unit

\* The writer counts a unit that has been compressed.
LEMMA ReceiveUnitKeeps == ASSUME DesktopInv, NEW o \in Ops, ReceiveUnit(o) PROVE DesktopInv'
<1> DEFINE all == op[o].counted + Head(op[o].rx).unpacked
           left == Tail(op[o].rx)
           s == [op[o].snap EXCEPT !.stored = all]
           rest == [op[o] EXCEPT !.counted = all, !.rx = left]
<1>1. /\ op[o].at \in {"work", "tell", "join"} /\ op[o].kind = "create" /\ "h1" \in Threads
      /\ op[o].rx # <<>> /\ TRUE \in BOOLEAN
      /\ Call(o, "h1", Emit(op[o].snap, s, TRUE), rest)
  BY DEF ReceiveUnit, InScope, Stored, Packs, Threads, Helpers
<1>2. /\ op[o].counted \in Nat /\ op[o].rx \in Seq(Sendings) /\ op[o].finished \in Nat
      /\ op[o].deduped \in Nat /\ op[o].compressed \in Nat
      /\ op[o].snap.deduped \in Nat /\ op[o].snap.bytesDone \in Nat
  BY Known DEF OpRecords, Snaps
<1>3. /\ op[o].finished = op[o].deduped + op[o].compressed /\ op[o].taken = 0
      /\ Channel(op[o].rx, op[o].counted, op[o].compressed)
  BY <1>1, Short DEF PackInv
<1>4. /\ all \in Nat /\ all <= op[o].compressed /\ Channel(left, all, op[o].compressed)
      /\ left \in Seq(Sendings)
  BY <1>1, <1>2, <1>3, ChannelGives
<1> HIDE DEF all, left
<1>5. /\ s \in Snaps /\ s.phase = op[o].snap.phase /\ s.bytesDone = op[o].snap.bytesDone
      /\ s.bytesTotal = op[o].snap.bytesTotal /\ s.stored = all
      /\ s.deduped = op[o].snap.deduped
  <2> DEFINE q == op[o].snap
  <2>1. q \in Snaps /\ s = [q EXCEPT !.stored = all]
    BY Known
  <2> HIDE DEF q, s
  <2>2. /\ s \in Snaps /\ s.phase = q.phase /\ s.bytesDone = q.bytesDone
        /\ s.bytesTotal = q.bytesTotal /\ s.stored = all /\ s.deduped = q.deduped
    BY <1>4, <2>1 DEF Snaps
  <2> QED BY <2>2 DEF q
<1>6. /\ rest \in OpRecords /\ rest.at = op[o].at /\ rest.hand = op[o].hand
      /\ rest.kind = op[o].kind /\ rest.finished = op[o].finished /\ rest.said = op[o].said
      /\ rest.deduped = op[o].deduped /\ rest.compressed = op[o].compressed
      /\ rest.taken = op[o].taken /\ rest.counted = all /\ rest.rx = left
  <2> DEFINE y == op[o]
  <2>1. y \in OpRecords /\ rest = [y EXCEPT !.counted = all, !.rx = left]
    BY Known
  <2> HIDE DEF y, rest
  <2>2. /\ rest \in OpRecords /\ rest.at = y.at /\ rest.hand = y.hand
        /\ rest.kind = y.kind /\ rest.finished = y.finished /\ rest.said = y.said
        /\ rest.deduped = y.deduped /\ rest.compressed = y.compressed
        /\ rest.taken = y.taken /\ rest.counted = all /\ rest.rx = left
    BY <1>4, <2>1 DEF OpRecords
  <2> QED BY <2>2 DEF y
<1> HIDE DEF s, rest
<1>7. PackInv(s.stored, rest) /\ PlaceInv(rest)
  BY <1>1, <1>3, <1>4, <1>5, <1>6 DEF PackInv, PlaceInv
<1>8. op[o].snap.deduped <= op[o].deduped /\ op[o].snap.bytesDone <= op[o].finished
  BY <1>1, Short
<1>9. all + op[o].snap.deduped <= op[o].finished
  BY <1>2, <1>3, <1>4, <1>8
<1>10. /\ s.stored + s.deduped <= rest.finished /\ s.bytesDone <= rest.finished
       /\ rest.finished >= op[o].finished /\ s.deduped <= rest.deduped
  BY <1>2, <1>5, <1>6, <1>8, <1>9
<1>11. op[o].snap.phase # "done" /\ s.bytesDone <= Ceiling(s.bytesTotal)
  BY <1>1, <1>5, Known, Short
<1> QED BY <1>1, <1>5, <1>6, <1>7, <1>10, <1>11, EmitCallKeeps

LEMMA WorkDoneKeeps == ASSUME DesktopInv, NEW o \in Ops, NEW t \in Helpers, WorkDone(o, t)
                       PROVE  DesktopInv'
<1> DEFINE n == op[o].ended + 1
           finished == op[o].finished + Size
           rest == [op[o] EXCEPT !.ended = n, !.finished = finished]
<1>1. PICK files \in Nat, bytes \in Nat :
          /\ Call(o, t, ExtractedMore(op[o].snap, files, bytes), rest)
          /\ op[o].kind # "test" => bytes = Size
  <2>1. n \in Nat /\ n * Size \in Nat /\ Size \in Nat
    <3>1. n \in Nat
      BY Known DEF OpRecords
    <3> HIDE DEF n
    <3> QED BY <3>1, DesktopAssumption
  <2>2. CASE op[o].kind = "test"
    BY <2>1, <2>2 DEF WorkDone
  <2>3. CASE op[o].kind # "test"
    BY <2>1, <2>3 DEF WorkDone
  <2> QED BY <2>2, <2>3
<1> DEFINE stored == op[o].snap.stored + bytes
           done == op[o].snap.filesDone + files
           s == [op[o].snap EXCEPT !.stored = stored, !.filesDone = done]
<1>2. Call(o, t, Emit(op[o].snap, s, FALSE), rest) /\ op[o].at = "work"
      /\ t \in Threads /\ FALSE \in BOOLEAN
  BY <1>1 DEF ExtractedMore, WorkDone, Threads
<1>3. op[o].ended \in Nat /\ op[o].finished \in Nat /\ op[o].snap.stored \in Nat
      /\ op[o].snap.filesDone \in Nat /\ op[o].snap.bytesDone \in Nat /\ op[o].snap.deduped \in Nat
  BY Known DEF OpRecords, Snaps
<1>4. n \in Nat /\ finished \in Nat /\ stored \in Nat /\ done \in Nat
  BY <1>3, DesktopAssumption
<1>5. finished >= op[o].finished /\ finished = op[o].finished + Size
      /\ stored = op[o].snap.stored + bytes
  BY <1>3, DesktopAssumption
<1> HIDE DEF n, finished, stored, done
<1>6. /\ s \in Snaps /\ s.phase = op[o].snap.phase /\ s.bytesDone = op[o].snap.bytesDone
      /\ s.bytesTotal = op[o].snap.bytesTotal /\ s.stored = stored
      /\ s.deduped = op[o].snap.deduped
  <2> DEFINE q == op[o].snap
  <2>1. q \in Snaps /\ s = [q EXCEPT !.stored = stored, !.filesDone = done]
    BY Known
  <2> HIDE DEF q, s
  <2>2. /\ s \in Snaps /\ s.phase = q.phase /\ s.bytesDone = q.bytesDone
        /\ s.bytesTotal = q.bytesTotal /\ s.stored = stored /\ s.deduped = q.deduped
    BY <1>4, <2>1 DEF Snaps
  <2> QED BY <2>2 DEF q
<1>7. /\ rest \in OpRecords /\ rest.at = "work" /\ rest.hand = op[o].hand /\ rest.kind = op[o].kind
      /\ rest.finished = finished /\ rest.said = op[o].said
      /\ rest.deduped = op[o].deduped
  <2> DEFINE y == op[o]
  <2>1. y \in OpRecords /\ rest = [y EXCEPT !.ended = n, !.finished = finished]
        /\ y.at = "work"
    BY <1>2, Known
  <2> HIDE DEF y, rest
  <2>2. /\ rest \in OpRecords /\ rest.at = "work" /\ rest.hand = y.hand /\ rest.kind = y.kind
        /\ rest.finished = finished /\ rest.said = y.said /\ rest.deduped = y.deduped
    BY <1>4, <2>1 DEF OpRecords
  <2> QED BY <2>2 DEF y
<1> HIDE DEF s, rest
<1>8. rest.kind \in {"create", "extract"} =>
          s.stored + s.deduped <= rest.finished /\ s.bytesDone <= rest.finished
  <2>1. op[o].kind \in {"create", "extract"} =>
            /\ op[o].snap.stored + op[o].snap.deduped <= op[o].finished
            /\ op[o].snap.bytesDone <= op[o].finished /\ bytes = Size
    BY <1>1, <1>2, Short
  <2>2. op[o].kind \in {"create", "extract"} =>
            stored + op[o].snap.deduped <= finished /\ op[o].snap.bytesDone <= finished
    BY <1>3, <1>5, <2>1, Sums
  <2> QED BY <1>6, <1>7, <2>2
<1>9. rest.finished >= op[o].finished /\ s.deduped <= rest.deduped
      /\ s.bytesDone <= Ceiling(s.bytesTotal) /\ op[o].snap.phase # "done"
  BY <1>2, <1>6, <1>7, <1>5, Known, Short
<1>10. PackInv(s.stored, rest) /\ PlaceInv(rest)
  <2>1. op[o].kind # "create"
    <3>1. op[o].ended < op[o].taken
      BY DEF WorkDone
    <3> QED BY <1>2, <1>3, <3>1, Short DEF PackInv
  <2> QED BY <1>7, <2>1 DEF PackInv, PlaceInv
<1> QED BY <1>2, <1>6, <1>7, <1>8, <1>9, <1>10, EmitCallKeeps

LEMMA FinishFacts ==
    ASSUME NEW q \in Snaps
    PROVE  /\ Finish(q) \in Snaps /\ Finish(q).phase = "done" /\ Finish(q).says
           /\ Finish(q).bytesDone = Finish(q).bytesTotal /\ Finish(q).deduped = q.deduped
           /\ Finish(q).stored = q.stored
<1>1. Larger(q.bytesRead, q.bytesTotal) \in Nat
  BY DEF Snaps, Larger
<1> QED BY <1>1 DEF Finish, Snaps, Phases

\* The one reading that is full.
LEMMA FinishKeeps == ASSUME DesktopInv, NEW o \in Ops, FinishOp(o) PROVE DesktopInv'
<1> DEFINE s == Finish(op[o].snap)
           rest == Goes(o, "done")
<1>2. /\ s \in Snaps /\ s.phase = "done" /\ s.bytesDone = s.bytesTotal
      /\ s.deduped = op[o].snap.deduped /\ s.stored = op[o].snap.stored /\ s.says
  BY Known, FinishFacts
<1>3. rest \in OpRecords /\ rest.at = "done" /\ Same(rest, op[o])
  BY GoesIsSame DEF Places
<1>4. Call(o, "main", s, rest) /\ op[o].at = "finish" /\ "main" \in Threads
  BY DEF FinishOp, At, Threads
<1> HIDE DEF s, rest
<1>5. SnapInv(s, rest.kind, rest.finished)
  BY <1>2 DEF SnapInv
<1>6. /\ rest.finished >= op[o].finished /\ s.deduped <= rest.deduped
      /\ rest.hand = op[o].hand /\ rest.kind = op[o].kind /\ rest.said = op[o].said
  BY <1>2, <1>3, <1>4, Known, Short DEF Same
<1>7. PackInv(s.stored, rest) /\ PlaceInv(rest)
  BY <1>2, <1>3, <1>4, Short, SamePack DEF PlaceInv
<1> QED BY <1>2, <1>3, <1>4, <1>5, <1>6, <1>7, CallKeeps

--------------------------------------------------------------------------------
(* The steps that say nothing to the reporter.                                 *)

\* An operation becomes x, and the others stay as they are.
LEMMA OneKeeps == ASSUME DesktopInv, NEW o \in Ops, NEW x, OpInv(x), op' = [op EXCEPT ![o] = x]
                  PROVE  DesktopInv'
BY DEF DesktopInv

\* An operation does something that it does not report, with the hands it has.
LEMMA QuietKeeps ==
    ASSUME DesktopInv, NEW o \in Ops, NEW x \in OpRecords, op' = [op EXCEPT ![o] = x],
           x.snap = op[o].snap, x.hand = op[o].hand, x.kind = op[o].kind,
           x.finished >= op[o].finished, x.deduped >= op[o].deduped,
           PackInv(x.snap.stored, x), PlaceInv(x), op[o].at # "done", x.at # "done",
           x.at \in {"start", "walk", "totals"} =>
               op[o].at \in {"start", "walk", "totals"} /\ x.deduped = op[o].deduped,
           x.at \in {"commit", "finish"} => AllDelivered(o)
    PROVE  DesktopInv'
<1>1. /\ op[o].finished \in Nat /\ x.finished \in Nat /\ op[o].deduped \in Nat /\ x.deduped \in Nat
      /\ op[o].snap \in Snaps
  BY Known DEF OpRecords
<1>2. SnapInv(x.snap, x.kind, x.finished)
  <2>1. /\ x.snap.stored \in Nat /\ x.snap.deduped \in Nat /\ x.snap.bytesDone \in Nat
    BY <1>1 DEF Snaps
  <2> QED BY <1>1, <2>1, Known DEF OpInv, SnapInv
<1>3. HandInv(x.hand, x.kind, x.finished)
  <2> SUFFICES ASSUME NEW t \in Threads, x.hand[t] # Nothing
               PROVE  ReadingInv(x.hand[t], x.kind, x.finished)
    BY DEF HandInv
  <2>1. ReadingInv(x.hand[t], x.kind, op[o].finished)
    BY Known DEF OpInv, HandInv
  <2>2. x.hand[t].done \in Nat
    BY DEF OpRecords, Readings
  <2> QED BY <1>1, <2>1, <2>2 DEF ReadingInv
<1>4. CountInv(x)
  <2>1. x.snap.deduped \in Nat
    BY <1>1 DEF Snaps
  <2> QED BY <1>1, <2>1, Known DEF OpInv, CountInv
<1>5. EndInv(x)
  BY NotLast DEF EndInv, AllDelivered, Empty, Threads, Helpers
<1> QED BY <1>2, <1>3, <1>4, <1>5, OneKeeps DEF OpInv

\* An operation goes to another place.
LEMMA PlaceKeeps == ASSUME DesktopInv, NEW o \in Ops, NEW at \in Places, op[o].at # "done",
                           op' = [op EXCEPT ![o].at = at], at # "done", at # "tell",
                           at \in {"start", "walk", "totals"} =>
                               op[o].at \in {"start", "walk", "totals"},
                           at \in {"commit", "finish"} => AllDelivered(o)
                    PROVE  DesktopInv'
<1> DEFINE x == [op[o] EXCEPT !.at = at]
<1>1. x \in OpRecords /\ x.at = at /\ x.snap = op[o].snap /\ Same(x, op[o])
  <2> DEFINE y == op[o]
  <2>1. y \in OpRecords /\ x = [y EXCEPT !.at = at]
    BY Known
  <2> HIDE DEF y, x
  <2>2. x \in OpRecords /\ x.at = at /\ x.snap = y.snap /\ Same(x, y)
    BY <2>1 DEF OpRecords, Same
  <2> QED BY <2>2 DEF y
<1>2. op' = [op EXCEPT ![o] = x]
  OBVIOUS
<1> HIDE DEF x
<1>3. PackInv(x.snap.stored, x) /\ PlaceInv(x)
  BY <1>1, SamePack, Short DEF PlaceInv
<1>4. /\ x.hand = op[o].hand /\ x.kind = op[o].kind /\ x.finished >= op[o].finished
      /\ x.deduped >= op[o].deduped /\ x.deduped = op[o].deduped
  BY <1>1, Known DEF Same
<1> QED BY <1>1, <1>2, <1>3, <1>4, QuietKeeps

\* A file is read: what is known already is deduplicated, the rest is to be compressed.
LEMMA AddFileKeeps == ASSUME DesktopInv, NEW o \in Ops, AddFile(o) PROVE DesktopInv'
<1>1. PICK more \in Growths, known \in BOOLEAN :
        LET n == Size + more
        IN  op' = [op EXCEPT ![o] =
                      [Goes(o, "tell") EXCEPT !.read = @ + 1, !.bytes = @ + n,
                          !.deduped = IF known THEN @ + n ELSE @,
                          !.finished = IF known THEN @ + n ELSE @,
                          !.submitted = IF known THEN @ ELSE Append(@, n)]]
  BY DEF AddFile
<1> DEFINE n == Size + more
           files == op[o].read + 1
           bytes == op[o].bytes + n
           again == IF known THEN n ELSE 0
           deduped == op[o].deduped + again
           finished == op[o].finished + again
           units == IF known THEN op[o].submitted ELSE Append(op[o].submitted, n)
           x == [op[o] EXCEPT !.at = "tell", !.read = files, !.bytes = bytes, !.deduped = deduped,
                              !.finished = finished, !.submitted = units]
<1>2. n \in Nat
  BY DesktopAssumption
<1> HIDE DEF n
<1>3. /\ op[o].read \in Nat /\ op[o].bytes \in Nat /\ op[o].submitted \in Seq(Nat)
      /\ op[o].deduped \in Nat /\ op[o].finished \in Nat /\ op[o].compressed \in Nat
  BY Known DEF OpRecords
<1>4. /\ files \in Nat /\ bytes \in Nat /\ units \in Seq(Nat) /\ again \in Nat
  BY <1>2, <1>3
<1>5. op' = [op EXCEPT ![o] = x] /\ op[o].at = "work" /\ op[o].kind = "create"
  <2>1. /\ deduped = (IF known THEN op[o].deduped + n ELSE op[o].deduped)
        /\ finished = (IF known THEN op[o].finished + n ELSE op[o].finished)
    BY <1>2, <1>3
  <2> DEFINE y == op[o]
             z == [Goes(o, "tell") EXCEPT !.read = @ + 1, !.bytes = @ + n,
                          !.deduped = IF known THEN @ + n ELSE @,
                          !.finished = IF known THEN @ + n ELSE @,
                          !.submitted = IF known THEN @ ELSE Append(@, n)]
  <2>2. z = x
    <3>1. y \in OpRecords /\ Goes(o, "tell") = [y EXCEPT !.at = "tell"]
      BY Known DEF Goes
    <3>2. /\ files = y.read + 1 /\ bytes = y.bytes + n
          /\ deduped = (IF known THEN y.deduped + n ELSE y.deduped)
          /\ finished = (IF known THEN y.finished + n ELSE y.finished)
          /\ units = (IF known THEN y.submitted ELSE Append(y.submitted, n))
          /\ x = [y EXCEPT !.at = "tell", !.read = files, !.bytes = bytes, !.deduped = deduped,
                              !.finished = finished, !.submitted = units]
      BY <2>1
    <3> HIDE DEF y, files, bytes, deduped, finished, units, x
    <3> QED BY <3>1, <3>2 DEF OpRecords
  <2>3. op' = [op EXCEPT ![o] = z]
    BY <1>1 DEF n
  <2> QED BY <2>2, <2>3 DEF AddFile, At, Packs
<1> HIDE DEF files, bytes, units, again
<1>6. /\ deduped \in Nat /\ finished \in Nat /\ finished >= op[o].finished
      /\ deduped >= op[o].deduped
  <2>1. \A a, b \in Nat : a + b \in Nat /\ a + b >= a
    OBVIOUS
  <2> QED BY <1>3, <1>4, <2>1
<1>7. finished = deduped + op[o].compressed
  <2>1. op[o].finished = op[o].deduped + op[o].compressed
    BY <1>5, Short DEF PackInv
  <2> QED BY <1>3, <1>4, <2>1
<1> HIDE DEF deduped, finished
<1>8. /\ x \in OpRecords /\ x.at = "tell" /\ x.snap = op[o].snap /\ x.hand = op[o].hand
      /\ x.kind = op[o].kind /\ x.finished = finished /\ x.deduped = deduped
      /\ x.compressed = op[o].compressed /\ x.taken = op[o].taken
      /\ x.counted = op[o].counted /\ x.rx = op[o].rx
  <2> DEFINE y == op[o]
  <2>1. y \in OpRecords /\ x = [y EXCEPT !.at = "tell", !.read = files, !.bytes = bytes,
                              !.deduped = deduped, !.finished = finished, !.submitted = units]
    BY Known
  <2> HIDE DEF y, x
  <2>2. /\ x \in OpRecords /\ x.at = "tell" /\ x.snap = y.snap /\ x.hand = y.hand
        /\ x.kind = y.kind /\ x.finished = finished /\ x.deduped = deduped
        /\ x.compressed = y.compressed /\ x.taken = y.taken
        /\ x.counted = y.counted /\ x.rx = y.rx
    BY <1>4, <1>6, <2>1 DEF OpRecords, Places
  <2> QED BY <2>2 DEF y
<1> HIDE DEF x
<1>9. PackInv(x.snap.stored, x) /\ PlaceInv(x)
  <2>1. PackInv(op[o].snap.stored, op[o])
    BY <1>5, Short
  <2> QED BY <1>5, <1>7, <1>8, <2>1 DEF PackInv, PlaceInv
<1> QED BY <1>5, <1>6, <1>8, <1>9, QuietKeeps

\* A unit is compressed, and on its way to the writer.
LEMMA CompressUnitKeeps == ASSUME DesktopInv, NEW o \in Ops, CompressUnit(o) PROVE DesktopInv'
<1>1. PICK i \in (1..Len(op[o].submitted)) \ op[o].units :
        LET n == op[o].submitted[i]
        IN  op' = [op EXCEPT ![o] =
                      [op[o] EXCEPT !.units = @ \cup {i}, !.compressed = @ + n,
                          !.finished = @ + n,
                          !.rx = Append(@, [unpacked |-> n, all |-> op[o].compressed + n])]]
  BY DEF CompressUnit
<1> DEFINE n == op[o].submitted[i]
           units == op[o].units \cup {i}
           compressed == op[o].compressed + n
           finished == op[o].finished + n
           rx == Append(op[o].rx, [unpacked |-> n, all |-> compressed])
           x == [op[o] EXCEPT !.units = units, !.compressed = compressed, !.finished = finished,
                              !.rx = rx]
<1>2. /\ op[o].submitted \in Seq(Nat) /\ op[o].compressed \in Nat /\ op[o].finished \in Nat
      /\ op[o].deduped \in Nat /\ op[o].rx \in Seq(Sendings) /\ op[o].counted \in Nat
      /\ op[o].units \in SUBSET Nat
  BY Known DEF OpRecords
<1>3. op[o].at \in {"work", "tell", "join"} /\ op[o].kind = "create"
  BY DEF CompressUnit, InScope, Packs
<1>4. n \in Nat /\ units \in SUBSET Nat
  <2> DEFINE q == op[o].submitted
  <2>1. q \in Seq(Nat) /\ i \in 1..Len(q)
    BY <1>2
  <2> HIDE DEF q
  <2>2. q[i] \in Nat /\ i \in Nat
    BY <2>1
  <2> QED BY <1>2, <2>2 DEF q
<1>5. op' = [op EXCEPT ![o] = x]
  <2> DEFINE y == op[o]
             z == [op[o] EXCEPT !.units = @ \cup {i}, !.compressed = @ + n, !.finished = @ + n,
                          !.rx = Append(@, [unpacked |-> n, all |-> op[o].compressed + n])]
  <2>1. z = x
    <3>1. /\ y \in OpRecords /\ units = y.units \cup {i} /\ compressed = y.compressed + n
          /\ finished = y.finished + n
          /\ rx = Append(y.rx, [unpacked |-> n, all |-> y.compressed + n])
          /\ x = [y EXCEPT !.units = units, !.compressed = compressed, !.finished = finished,
                              !.rx = rx]
          /\ z = [y EXCEPT !.units = @ \cup {i}, !.compressed = @ + n, !.finished = @ + n,
                          !.rx = Append(@, [unpacked |-> n, all |-> y.compressed + n])]
      BY Known
    <3> HIDE DEF y, n, units, compressed, finished, rx, x, z
    <3> QED BY <3>1 DEF OpRecords
  <2>2. op' = [op EXCEPT ![o] = z]
    BY <1>1
  <2> QED BY <2>1, <2>2
<1> HIDE DEF n, units
<1>6. /\ op[o].finished = op[o].deduped + op[o].compressed /\ op[o].taken = 0
      /\ op[o].snap.stored = op[o].counted /\ op[o].counted <= op[o].compressed
      /\ Channel(op[o].rx, op[o].counted, op[o].compressed)
  BY <1>3, Short DEF PackInv
<1>7. rx \in Seq(Sendings) /\ Channel(rx, op[o].counted, compressed)
  BY <1>2, <1>4, <1>6, ChannelTakes
<1> HIDE DEF rx
<1>8. /\ compressed \in Nat /\ finished \in Nat /\ finished >= op[o].finished
      /\ finished = op[o].deduped + compressed /\ op[o].counted <= compressed
  <2>1. ASSUME NEW c \in Nat, NEW f \in Nat, NEW d \in Nat, NEW k \in Nat, NEW m \in Nat,
               f = d + c, k <= c
        PROVE  /\ c + m \in Nat /\ f + m \in Nat /\ f + m >= f
               /\ f + m = d + (c + m) /\ k <= c + m
    BY <2>1
  <2> DEFINE c == op[o].compressed
             f == op[o].finished
             d == op[o].deduped
             k == op[o].counted
  <2>2. c \in Nat /\ f \in Nat /\ d \in Nat /\ k \in Nat /\ f = d + c /\ k <= c
    BY <1>2, <1>6
  <2>3. compressed = c + n /\ finished = f + n
    OBVIOUS
  <2> HIDE DEF c, f, d, k, compressed, finished
  <2>4. /\ compressed \in Nat /\ finished \in Nat /\ finished >= f
        /\ finished = d + compressed /\ k <= compressed
    BY <1>4, <2>1, <2>2, <2>3
  <2> QED BY <2>4 DEF c, f, d, k
<1> HIDE DEF compressed, finished
<1>9. /\ x \in OpRecords /\ x.at = op[o].at /\ x.snap = op[o].snap /\ x.hand = op[o].hand
      /\ x.kind = op[o].kind /\ x.finished = finished /\ x.deduped = op[o].deduped
      /\ x.compressed = compressed /\ x.taken = op[o].taken
      /\ x.counted = op[o].counted /\ x.rx = rx
  <2> DEFINE y == op[o]
  <2>1. y \in OpRecords /\ x = [y EXCEPT !.units = units, !.compressed = compressed,
                                        !.finished = finished, !.rx = rx]
    BY Known
  <2> HIDE DEF y, x
  <2>2. /\ x \in OpRecords /\ x.at = y.at /\ x.snap = y.snap /\ x.hand = y.hand
        /\ x.kind = y.kind /\ x.finished = finished /\ x.deduped = y.deduped
        /\ x.compressed = compressed /\ x.taken = y.taken
        /\ x.counted = y.counted /\ x.rx = rx
    BY <1>4, <1>7, <1>8, <2>1 DEF OpRecords
  <2> QED BY <2>2 DEF y
<1> HIDE DEF x
<1>10. PackInv(x.snap.stored, x) /\ PlaceInv(x)
  BY <1>3, <1>6, <1>7, <1>8, <1>9 DEF PackInv, PlaceInv
<1>11. x.deduped >= op[o].deduped
  BY <1>2, <1>9
<1> QED BY <1>3, <1>5, <1>8, <1>9, <1>10, <1>11, QuietKeeps

LEMMA MovesKeep == ASSUME DesktopInv, NEW o \in Ops,
                          (Walk(o) /\ ~(op[o].snap.filesTotal < Files)) \/ Joined(o)
                   PROVE  DesktopInv'
<1>1. CASE Walk(o) /\ ~(op[o].snap.filesTotal < Files)
  BY <1>1, PlaceKeeps DEF Walk, At, Places
<1>2. CASE Joined(o)
  <2>1. PICK at \in {"commit", "finish"} : op' = [op EXCEPT ![o].at = at]
    BY <1>2 DEF Joined
  <2>2. op[o].at # "done" /\ AllDelivered(o)
    BY <1>2 DEF Joined
  <2> QED BY <2>1, <2>2, PlaceKeeps DEF Places
<1> QED BY <1>1, <1>2

\* No pack's helper takes a file.
LEMMA TakeWorkKeeps == ASSUME DesktopInv, NEW o \in Ops, NEW t \in Helpers, TakeWork(o, t)
                       PROVE  DesktopInv'
<1> DEFINE n == op[o].taken + 1
           x == [op[o] EXCEPT !.taken = n]
<1>1. n \in Nat
  BY Known DEF OpRecords
<1>2. op' = [op EXCEPT ![o] = x] /\ op[o].at = "work" /\ op[o].kind # "create"
  BY DEF TakeWork
<1> HIDE DEF n
<1>3. /\ x \in OpRecords /\ x.at = op[o].at /\ x.snap = op[o].snap /\ x.hand = op[o].hand
      /\ x.kind = op[o].kind /\ x.finished = op[o].finished /\ x.deduped = op[o].deduped
  <2> DEFINE y == op[o]
  <2>1. y \in OpRecords /\ x = [y EXCEPT !.taken = n]
    BY Known
  <2> HIDE DEF y, x
  <2>2. /\ x \in OpRecords /\ x.at = y.at /\ x.snap = y.snap /\ x.hand = y.hand
        /\ x.kind = y.kind /\ x.finished = y.finished /\ x.deduped = y.deduped
    BY <1>1, <2>1 DEF OpRecords
  <2> QED BY <2>2 DEF y
<1> HIDE DEF x
<1>4. PackInv(x.snap.stored, x) /\ PlaceInv(x)
  BY <1>2, <1>3 DEF PackInv, PlaceInv
<1>5. x.finished >= op[o].finished /\ x.deduped >= op[o].deduped
  BY <1>3, Known
<1> QED BY <1>2, <1>3, <1>4, <1>5, QuietKeeps

\* compact and remove: a reading without a total, and the end.
LEMMA IndeterminateKeeps == ASSUME DesktopInv, NEW o \in Ops, Indeterminate(o) PROVE DesktopInv'
<1> DEFINE r == [phase |-> "work", done |-> 0, total |-> 0]
           hand == [op[o].hand EXCEPT !["main"] = r]
           x == [op[o] EXCEPT !.at = "done", !.hand = hand]
<1>1. op' = [op EXCEPT ![o] = x] /\ op[o].at = "start"
      /\ op[o].kind \notin {"create", "extract", "test"}
  BY DEF Indeterminate, At, Measured
<1>2. r \in Readings /\ r.total = 0 /\ r.phase = "work"
  BY DEF Readings, Phases
<1> HIDE DEF r
<1>3. hand \in [Threads -> Readings \cup {Nothing}]
  BY <1>2, Known DEF OpRecords, Threads
<1>4. \A t \in Threads : hand[t] = IF t = "main" THEN r ELSE op[o].hand[t]
  BY Known DEF OpRecords, Threads
<1> HIDE DEF hand
<1>5. /\ x \in OpRecords /\ x.at = "done" /\ x.snap = op[o].snap /\ x.hand = hand
      /\ x.kind = op[o].kind /\ x.finished = op[o].finished /\ x.deduped = op[o].deduped
  <2> DEFINE y == op[o]
  <2>1. y \in OpRecords /\ x = [y EXCEPT !.at = "done", !.hand = hand]
    BY Known
  <2> HIDE DEF y, x
  <2>2. /\ x \in OpRecords /\ x.at = "done" /\ x.snap = y.snap /\ x.hand = hand
        /\ x.kind = y.kind /\ x.finished = y.finished /\ x.deduped = y.deduped
    BY <1>3, <2>1 DEF OpRecords, Places
  <2> QED BY <2>2 DEF y
<1> HIDE DEF x
<1>6. SnapInv(x.snap, x.kind, x.finished) /\ CountInv(x) /\ PackInv(x.snap.stored, x)
      /\ PlaceInv(x)
  BY <1>1, <1>5, Known DEF OpInv, CountInv, PackInv, PlaceInv
<1>7. HandInv(x.hand, x.kind, x.finished)
  <2>1. ReadingInv(r, x.kind, x.finished)
    BY <1>1, <1>2, <1>5 DEF ReadingInv
  <2> QED BY <1>5, <1>4, <2>1, Known DEF OpInv, HandInv
<1>8. EndInv(x)
  <2>1. ASSUME NEW t \in Threads, hand[t] # Nothing PROVE hand[t].phase # "done"
    BY <1>1, <1>2, <1>4, <2>1, NotLast
  <2> QED BY <1>1, <1>5, <2>1 DEF EndInv
<1> QED BY <1>1, <1>5, <1>6, <1>7, <1>8, OneKeeps DEF OpInv

\* A reading reaches the window.
LEMMA DeliverKeeps == ASSUME DesktopInv, NEW o \in Ops, NEW t \in Threads, Deliver(o, t)
                      PROVE  DesktopInv'
<1> DEFINE hand == [op[o].hand EXCEPT ![t] = Nothing]
           r == op[o].hand[t]
           x == [op[o] EXCEPT !.hand = hand, !.said = r.phase]
<1>1. op' = [op EXCEPT ![o] = x] /\ r # Nothing
  BY DEF Deliver, Empty
<1>2. /\ hand \in [Threads -> Readings \cup {Nothing}] /\ r \in Readings \cup {Nothing}
      /\ hand[t] = Nothing /\ \A u \in Threads : u # t => hand[u] = op[o].hand[u]
      /\ r.phase \in Phases
  BY <1>1, Known DEF OpRecords, Readings
<1> HIDE DEF hand
<1>3. /\ x \in OpRecords /\ x.at = op[o].at /\ x.snap = op[o].snap /\ x.hand = hand
      /\ x.kind = op[o].kind /\ x.finished = op[o].finished /\ x.deduped = op[o].deduped
      /\ x.said = r.phase /\ Same([x EXCEPT !.hand = op[o].hand, !.said = op[o].said], op[o])
  <2> DEFINE y == op[o]
             phase == r.phase
  <2>1. y \in OpRecords /\ x = [y EXCEPT !.hand = hand, !.said = phase] /\ phase \in Phases
    BY <1>2, Known
  <2> HIDE DEF y, x, r, phase
  <2>2. /\ x \in OpRecords /\ x.at = y.at /\ x.snap = y.snap /\ x.hand = hand
        /\ x.kind = y.kind /\ x.finished = y.finished /\ x.deduped = y.deduped
        /\ x.said = phase /\ Same([x EXCEPT !.hand = y.hand, !.said = y.said], y)
    BY <1>2, <2>1 DEF OpRecords, Same
  <2> QED BY <2>2 DEF y, phase
<1> HIDE DEF x
<1>4. SnapInv(x.snap, x.kind, x.finished) /\ CountInv(x) /\ PackInv(x.snap.stored, x)
      /\ PlaceInv(x)
  <2> DEFINE z == [x EXCEPT !.hand = op[o].hand, !.said = op[o].said]
  <2>1. /\ z.compressed = x.compressed /\ z.taken = x.taken /\ z.rx = x.rx
        /\ z.counted = x.counted
    BY <1>3 DEF OpRecords
  <2> QED BY <1>3, <2>1, Known DEF OpInv, CountInv, PackInv, PlaceInv, Same
<1>5. HandInv(x.hand, x.kind, x.finished)
  BY <1>2, <1>3, Known DEF OpInv, HandInv
<1>6. EndInv(x)
  <2>1. (\/ x.at \in {"commit", "finish"}
         \/ x.at = "done" /\ x.kind \in {"create", "extract", "test"}) =>
            \A u \in Helpers : x.hand[u] = Nothing
    <3>1. ASSUME NEW u \in Helpers, op[o].hand[u] = Nothing PROVE x.hand[u] = Nothing
      BY <1>2, <1>3, <3>1 DEF Threads
    <3> QED BY <1>3, <3>1, Known DEF OpInv, EndInv
  <2>2. ASSUME x.at = "done", x.kind \in {"create", "extract", "test"}
        PROVE  x.hand["main"] = Nothing /\ x.said = "done"
    <3>1. op[o].at = "done" /\ op[o].kind \in {"create", "extract", "test"} /\ EndInv(op[o])
      BY <1>3, <2>2, Known DEF OpInv
    <3>2. t = "main"
      BY <1>1, <3>1 DEF EndInv, Threads
    <3>3. op[o].hand["main"].phase = "done"
      BY <1>1, <3>1, <3>2 DEF EndInv
    <3> QED BY <1>2, <1>3, <3>2, <3>3
  <2>3. ASSUME NEW u \in Threads, x.hand[u] # Nothing, x.hand[u].phase = "done"
        PROVE  x.at = "done" /\ \A v \in Threads \ {u} : x.hand[v] = Nothing
    <3>1. u # t /\ x.hand[u] = op[o].hand[u]
      BY <1>2, <1>3, <2>3
    <3> QED BY <1>2, <1>3, <2>3, <3>1, Known DEF OpInv, EndInv
  <2> QED BY <2>1, <2>2, <2>3 DEF EndInv
<1> QED BY <1>1, <1>3, <1>4, <1>5, <1>6, OneKeeps DEF OpInv

LEMMA BeginsKeep == ASSUME DesktopInv, NEW o \in Ops, NEW kind \in KindsOf[o], Click(o, kind)
                    PROVE  DesktopInv'
<1>1. kind \in Kinds
  BY DesktopAssumption DEF Kinds
<1>2. OpInv([NewOp EXCEPT !.kind = kind, !.at = "start"])
  BY <1>1, NewOpIsFine DEF Places
<1> QED BY <1>2, OneKeeps DEF Click

LEMMA LeavesKeeps == ASSUME DesktopInv, NEW o \in Ops, NEW where \in {"over", "stuck"},
                            NEW panicked, NEW w, Leaves(o, where, panicked, w)
                     PROVE  DesktopInv'
<1>1. OpInv([NewOp EXCEPT !.kind = "none", !.at = where])
  BY NewOpIsFine DEF Places
<1>2. [NewOp EXCEPT !.kind = "none", !.at = where] = [NewOp EXCEPT !.at = where]
  BY NewOpIsTyped DEF OpRecords
<1> QED BY <1>1, <1>2, OneKeeps DEF Leaves

\* However it comes to its end.
LEMMA EndsKeep == ASSUME DesktopInv, NEW o \in Ops,
                         Succeeds(o) \/ Fails(o) \/ Panics(o) \/ Hangs(o)
                  PROVE  DesktopInv'
<1>1. CASE Succeeds(o)
  BY <1>1, LeavesKeeps DEF Succeeds
<1>2. CASE Fails(o)
  BY <1>2, LeavesKeeps DEF Fails
<1>3. CASE Panics(o)
  BY <1>3, LeavesKeeps DEF Panics
<1>4. CASE Hangs(o)
  BY <1>4, LeavesKeeps DEF Hangs
<1> QED BY <1>1, <1>2, <1>3, <1>4

--------------------------------------------------------------------------------
(* The theorems.                                                               *)

LEMMA DesktopInit == Init => DesktopInv
<1>1. OpInv(NewOp)
  <2>1. NewOp = [NewOp EXCEPT !.kind = "none", !.at = "idle"]
    BY NewOpIsTyped DEF OpRecords
  <2>2. OpInv([NewOp EXCEPT !.kind = "none", !.at = "idle"])
    BY NewOpIsFine DEF Places
  <2> QED BY <2>1, <2>2
<1> QED BY <1>1 DEF Init, DesktopInv

\* The invariant holds of every state that is reached (Reporter, archive.rs 199-388).
THEOREM DesktopInvHolds == Spec => []DesktopInv
<1>1. ASSUME DesktopInv, [Next]_vars PROVE DesktopInv'
  <2>1. ASSUME NEW o \in Ops, Main(o) PROVE DesktopInv'
    <3>1. CASE Walk(o)
      BY <1>1, <3>1, WalkKeeps, MovesKeep
    <3>2. CASE Scan(o) \/ Begin(o) \/ Drain(o) \/ Commit(o)
      BY <1>1, <3>2, PhasesKeep
    <3> QED BY <1>1, <2>1, <3>1, <3>2, TotalsKeep, AddFileKeeps, TellReadKeeps, MovesKeep,
               FinishKeeps, IndeterminateKeeps, EndsKeep DEF Main
  <2>2. ASSUME NEW o \in Ops, Help(o) PROVE DesktopInv'
    BY <1>1, <2>2, CompressUnitKeeps, ReceiveUnitKeeps, TakeWorkKeeps, WorkDoneKeeps DEF Help
  <2>3. ASSUME NEW o \in Ops, NEW t \in Threads, Deliver(o, t) PROVE DesktopInv'
    BY <1>1, <2>3, DeliverKeeps
  <2>4. ASSUME NEW o \in Ops, \/ \E kind \in KindsOf[o] : Click(o, kind)
                             \/ Fails(o) \/ Panics(o) \/ Hangs(o)
        PROVE  DesktopInv'
    BY <1>1, <2>4, BeginsKeep, EndsKeep
  <2>5. CASE UNCHANGED op
    BY <1>1, <2>5 DEF DesktopInv
  <2> QED BY <1>1, <2>1, <2>2, <2>3, <2>4, <2>5 DEF Next, Tick, vars
<1> QED BY DesktopInit, <1>1, PTL DEF Spec

\* Where there is something to measure a reading is full exactly when it is the last one of
\* a success; that of a pack counts no byte that is neither known nor compressed yet, that of
\* an extraction no byte of a file that is not through; and a success has said so (Reporter,
\* archive.rs 298-387; add_paths_with, 714-741; writer_loop, pipeline.rs 1152-1195).
THEOREM ReadingsAreHonestHolds == Spec => []ReadingsAreHonest
<1>1. DesktopInv => ReadingsAreHonest
  <2> SUFFICES ASSUME DesktopInv, NEW o \in Ops
               PROVE  /\ \A r \in InHand(o) :
                             /\ r.total > 0 => (r.done = r.total <=> r.phase = "done")
                             /\ op[o].kind \in {"create", "extract"} /\ r.phase # "done" =>
                                    r.done <= op[o].finished
                      /\ Measured(o) /\ op[o].at = "done" /\ AllDelivered(o) =>
                             op[o].said = "done"
    BY DEF ReadingsAreHonest
  <2>1. \A t \in Threads : op[o].hand[t] # Nothing =>
            ReadingInv(op[o].hand[t], op[o].kind, op[o].finished)
    BY Known DEF OpInv, HandInv
  <2>2. \A r \in InHand(o) : ReadingInv(r, op[o].kind, op[o].finished)
    BY <2>1 DEF InHand
  <2>3. Measured(o) /\ op[o].at = "done" /\ AllDelivered(o) => op[o].said = "done"
    BY Known DEF OpInv, EndInv, Measured, AllDelivered, Empty, Threads
  <2> QED BY <2>2, <2>3 DEF ReadingInv
<1> QED BY DesktopInvHolds, <1>1, PTL

--------------------------------------------------------------------------------
(* The window.                                                                 *)

\* While an operation runs by itself, the bar shows what was painted last, and is full only
\* with the reading after which there is none.
BarInv ==
    /\ window \in [busy : BOOLEAN, prog : Readings \cup {Nothing}, pct : Nat, width : Nat,
                   alone : BOOLEAN]
    /\ \A o \in Ops : ~Running(o) => AllDelivered(o)
    /\ window.busy /\ window.alone =>
           /\ \E o \in Ops : Running(o)
           /\ \A o, p \in Ops : Running(o) /\ Running(p) => o = p
           /\ window.width = window.pct /\ window.pct <= 100
           /\ window.pct = 100 => window.prog # Nothing /\ window.prog.phase = "done"
           /\ window.prog # Nothing /\ window.prog.phase = "done" =>
                  \A o \in Ops : Running(o) => op[o].at = "done" /\ AllDelivered(o)

BarStep ==
    window.busy /\ window'.busy /\ window.alone /\ window'.alone =>
        window'.width >= window.width /\ (window'.width = 100 => window'.prog.phase = "done")

LEMMA BarIsPainted == ASSUME DesktopInv, BarInv, window.busy, window.alone
                      PROVE  /\ window.width \in Nat /\ window.width = window.pct
                             /\ window.width <= 100
                             /\ window.width = 100 =>
                                    window.prog # Nothing /\ window.prog.phase = "done"
BY DEF BarInv

\* A step of an operation that is not at its end, which the window does not see.
Unseen(o) ==
    /\ Running(o) /\ op[o].at # "done" /\ UNCHANGED window
    /\ \A p \in Ops : p # o => op'[p] = op[p]
    /\ op'[o].at \notin {"idle", "over"}

LEMMA UnseenKeeps == ASSUME DesktopInv, BarInv, NEW o \in Ops, Unseen(o)
                     PROVE  BarInv' /\ BarStep
<1>1. \A p \in Ops : Running(p)' <=> Running(p)
  BY DEF Unseen, Running
<1>2. \A p \in Ops : ~Running(p)' => AllDelivered(p)'
  BY <1>1 DEF BarInv, AllDelivered, Empty, Unseen
<1>3. window.busy /\ window.alone => ~(window.prog # Nothing /\ window.prog.phase = "done")
  BY DEF BarInv, Unseen
<1>4. BarInv'
  BY <1>1, <1>2, <1>3 DEF BarInv, Unseen
<1>5. BarStep
  BY <1>3, BarIsPainted DEF BarStep, Unseen
<1> QED BY <1>4, <1>5

LEMMA CallIsUnseen == ASSUME DesktopInv, NEW o \in Ops, NEW t, NEW s, NEW rest,
                             "at" \in DOMAIN rest, rest.at \notin {"idle", "over"},
                             Call(o, t, s, rest), Running(o), op[o].at # "done"
                      PROVE  Unseen(o)
<1> DEFINE x == [rest EXCEPT !.snap = s, !.hand = Holding(@, t, s)]
<1>1. x.at = rest.at
  OBVIOUS
<1>2. op' = [op EXCEPT ![o] = x] /\ UNCHANGED window
  BY DEF Call
<1> HIDE DEF x
<1> QED BY <1>1, <1>2 DEF Unseen, DesktopInv

LEMMA GoesIsUnseen == ASSUME DesktopInv, NEW o \in Ops, NEW at \in Places \ {"idle", "over"}, NEW s,
                             Call(o, "main", s, Goes(o, at)), Running(o), op[o].at # "done"
                      PROVE  Unseen(o)
<1>1. Goes(o, at).at = at /\ "at" \in DOMAIN Goes(o, at)
  BY Known DEF Goes, OpRecords
<1> QED BY <1>1, CallIsUnseen

LEMMA WorkIsUnseen == ASSUME DesktopInv, NEW o \in Ops,
                             \/ Scan(o) \/ Walk(o) \/ SayTotals(o) \/ Begin(o) \/ AddFile(o)
                             \/ TellRead(o) \/ Drain(o) \/ Joined(o) \/ Commit(o)
                             \/ FinishOp(o) \/ Indeterminate(o) \/ Help(o) \/ Hangs(o)
                      PROVE  Unseen(o)
<1>1. op[o] \in OpRecords /\ op = [p \in Ops |-> op[p]]
  BY Known DEF DesktopInv
<1>2. CASE \/ Scan(o) \/ SayTotals(o) \/ Begin(o) \/ TellRead(o) \/ Drain(o) \/ Commit(o)
           \/ FinishOp(o)
  <2>1. PICK at \in Places \ {"idle", "over"} : \E s : Call(o, "main", s, Goes(o, at))
    BY <1>2 DEF Scan, SayTotals, Begin, TellRead, Drain, Commit, FinishOp, Places
  <2>2. Running(o) /\ op[o].at # "done"
    BY <1>2 DEF Scan, SayTotals, Begin, TellRead, Drain, Commit, FinishOp, At, Running
  <2> QED BY <2>1, <2>2, GoesIsUnseen
<1>3. CASE Walk(o)
  <2>1. Running(o) /\ op[o].at = "walk"
    BY <1>3 DEF Walk, At, Running
  <2>2. CASE op[o].snap.filesTotal < Files
    <3>1. PICK s : Call(o, "main", s, op[o])
      BY <1>3, <2>2 DEF Walk
    <3>2. "at" \in DOMAIN op[o]
      BY <1>1 DEF OpRecords
    <3> QED BY <2>1, <3>1, <3>2, CallIsUnseen DEF Running
  <2>3. CASE ~(op[o].snap.filesTotal < Files)
    BY <1>1, <1>3, <2>1, <2>3 DEF Walk, Running, OpRecords, Unseen
  <2> QED BY <2>2, <2>3
<1>4. CASE AddFile(o)
  <2>1. PICK n, known : op' = [op EXCEPT ![o] =
                      [Goes(o, "tell") EXCEPT !.read = @ + 1, !.bytes = @ + n,
                          !.deduped = IF known THEN @ + n ELSE @,
                          !.finished = IF known THEN @ + n ELSE @,
                          !.submitted = IF known THEN @ ELSE Append(@, n)]]
    BY <1>4 DEF AddFile
  <2> DEFINE x == [Goes(o, "tell") EXCEPT !.read = @ + 1, !.bytes = @ + n,
                          !.deduped = IF known THEN @ + n ELSE @,
                          !.finished = IF known THEN @ + n ELSE @,
                          !.submitted = IF known THEN @ ELSE Append(@, n)]
  <2>2. x.at = "tell"
    BY <1>1 DEF Goes, OpRecords
  <2> HIDE DEF x
  <2>3. op'[o].at = "tell" /\ \A p \in Ops : p # o => op'[p] = op[p]
    BY <1>1, <2>1, <2>2 DEF x
  <2> QED BY <1>4, <2>3 DEF AddFile, At, Running, Unseen
<1>5. CASE Joined(o)
  <2>1. PICK at \in {"commit", "finish"} : op' = [op EXCEPT ![o].at = at] /\ UNCHANGED window
    BY <1>5 DEF Joined
  <2>2. Running(o) /\ op[o].at # "done"
    BY <1>5 DEF Joined, Running
  <2> QED BY <1>1, <2>1, <2>2 DEF OpRecords, Unseen
<1>6. CASE Indeterminate(o)
  BY <1>1, <1>6 DEF Indeterminate, At, Running, OpRecords, Unseen
<1>7. CASE ReceiveUnit(o)
  <2>1. PICK s, all, left : Call(o, "h1", s, [op[o] EXCEPT !.counted = all, !.rx = left])
    BY <1>7 DEF ReceiveUnit
  <2> DEFINE rest == [op[o] EXCEPT !.counted = all, !.rx = left]
  <2>2. rest.at = op[o].at /\ "at" \in DOMAIN rest
    BY <1>1 DEF OpRecords
  <2>3. Call(o, "h1", s, rest)
    BY <2>1
  <2> HIDE DEF rest
  <2>4. op[o].at \in {"work", "tell", "join"} /\ Running(o)
    BY <1>7 DEF ReceiveUnit, InScope, Running
  <2> QED BY <2>2, <2>3, <2>4, CallIsUnseen
<1>8. ASSUME NEW t \in Helpers, TakeWork(o, t) PROVE Unseen(o)
  BY <1>1, <1>8 DEF TakeWork, Running, OpRecords, Unseen
<1>9. ASSUME NEW t \in Helpers, WorkDone(o, t) PROVE Unseen(o)
  <2>1. PICK s, ended, finished :
            Call(o, t, s, [op[o] EXCEPT !.ended = ended, !.finished = finished])
    BY <1>9 DEF WorkDone
  <2> DEFINE rest == [op[o] EXCEPT !.ended = ended, !.finished = finished]
  <2>2. rest.at = op[o].at /\ "at" \in DOMAIN rest
    BY <1>1 DEF OpRecords
  <2>3. Call(o, t, s, rest)
    BY <2>1
  <2> HIDE DEF rest
  <2>4. op[o].at = "work" /\ Running(o)
    BY <1>9 DEF WorkDone, Running
  <2> QED BY <2>2, <2>3, <2>4, CallIsUnseen
<1>10. CASE CompressUnit(o)
  <2>1. PICK units, compressed, finished, rx :
            op' = [op EXCEPT ![o] = [op[o] EXCEPT !.units = units, !.compressed = compressed,
                                                  !.finished = finished, !.rx = rx]]
    BY <1>10 DEF CompressUnit
  <2>2. op'[o].at = op[o].at /\ \A p \in Ops : p # o => op'[p] = op[p]
    BY <1>1, <2>1 DEF OpRecords
  <2> QED BY <1>10, <2>2 DEF CompressUnit, InScope, Running, Unseen
<1>11. CASE Hangs(o)
  <2>1. op' = [op EXCEPT ![o] = [NewOp EXCEPT !.at = "stuck"]] /\ UNCHANGED window
    BY <1>11 DEF Hangs, Leaves
  <2>2. op'[o].at = "stuck" /\ \A p \in Ops : p # o => op'[p] = op[p]
    BY <1>1, <2>1, NewOpIsTyped DEF OpRecords
  <2> QED BY <1>11, <2>1, <2>2 DEF Hangs, InScope, Running, Unseen
<1> QED BY <1>2, <1>3, <1>4, <1>5, <1>6, <1>7, <1>8, <1>9, <1>10, <1>11 DEF Help

\* An operation that begins while another runs is not alone.
LEMMA ClickBar == ASSUME DesktopInv, BarInv, NEW o \in Ops, NEW kind \in KindsOf[o], Click(o, kind)
                  PROVE  BarInv' /\ BarStep
<1> DEFINE alone == \A p \in Ops : ~Running(p)
           x == [NewOp EXCEPT !.kind = kind, !.at = "start"]
<1>1. /\ window' = [window EXCEPT !.busy = TRUE, !.prog = Nothing, !.pct = 0, !.width = 0,
                                  !.alone = alone]
      /\ op' = [op EXCEPT ![o] = x] /\ op[o].at = "idle"
  BY DEF Click, Fresh
<1>2. x.at = "start"
  BY DEF NewOp
<1>3. op'[o].at = "start" /\ \A p \in Ops : p # o => op'[p] = op[p]
  BY <1>1, <1>2 DEF DesktopInv
<1> HIDE DEF x
<1>4. ~Running(o) /\ Running(o)' /\ \A p \in Ops : p # o => (Running(p)' <=> Running(p))
  BY <1>1, <1>3 DEF Running
<1>5. alone \in BOOLEAN /\ (alone <=> \A p \in Ops : ~Running(p))
  OBVIOUS
<1> HIDE DEF alone
<1>6. /\ window' \in [busy : BOOLEAN, prog : Readings \cup {Nothing}, pct : Nat, width : Nat,
                      alone : BOOLEAN]
      /\ window'.alone = alone /\ window'.prog = Nothing /\ window'.pct = 0 /\ window'.width = 0
  BY <1>1, <1>5 DEF BarInv
<1>7. \A p \in Ops : ~Running(p)' => AllDelivered(p)'
  BY <1>3, <1>4 DEF BarInv, AllDelivered, Empty
<1>8. alone => \A p, q \in Ops : Running(p)' /\ Running(q)' => p = q
  BY <1>4, <1>5
<1>9. BarInv'
  BY <1>4, <1>6, <1>7, <1>8 DEF BarInv
<1>10. BarStep
  <2>1. window.busy /\ window.alone => \E p \in Ops : Running(p)
    BY DEF BarInv
  <2> QED BY <1>5, <1>6, <2>1 DEF BarStep
<1> QED BY <1>9, <1>10

\* What is painted is no less than before, and short of full but for the last reading.
LEMMA TickBar == ASSUME DesktopInv, BarInv, Tick PROVE BarInv' /\ BarStep
<1> DEFINE raw == (100 * window.prog.done) \div window.prog.total
           pct == Painted(window.pct, raw, window.prog.phase)
<1>1. /\ window \in [busy : BOOLEAN, prog : Readings \cup {Nothing}, pct : Nat, width : Nat,
                     alone : BOOLEAN]
      /\ window.prog \in Readings /\ window.prog.total > 0
  BY DEF BarInv, Tick
<1>2. raw \in Int
  <2>1. window.prog.done \in Nat /\ window.prog.total \in Nat \ {0}
    BY <1>1 DEF Readings
  <2>2. 100 * window.prog.done \in Nat
    BY <2>1
  <2> QED BY <2>1, <2>2
<1> HIDE DEF raw
<1>3. window.pct \in Nat
  BY <1>1
<1>4. /\ pct \in Int /\ pct <= 100
      /\ window.pct <= 100 /\ (window.pct = 100 => window.prog.phase = "done") => pct >= window.pct
      /\ pct = 100 => window.prog.phase = "done"
  BY <1>2, <1>3 DEF Painted, Smaller, Larger
<1>5. pct \in Nat
  BY <1>2, <1>3 DEF Painted, Smaller, Larger
<1>6. /\ window' = [window EXCEPT !.pct = pct, !.width = pct] /\ UNCHANGED op
  BY DEF Tick, raw
<1> HIDE DEF pct
<1>7. /\ window' \in [busy : BOOLEAN, prog : Readings \cup {Nothing}, pct : Nat, width : Nat,
                      alone : BOOLEAN]
      /\ window'.busy = window.busy /\ window'.prog = window.prog /\ window'.alone = window.alone
      /\ window'.pct = pct /\ window'.width = pct /\ window.prog # Nothing
  BY <1>1, <1>5, <1>6, DesktopAssumption DEF Readings
<1>8. BarInv'
  BY <1>4, <1>6, <1>7 DEF BarInv, Running, AllDelivered, Empty
<1>9. BarStep
  BY <1>4, <1>7, BarIsPainted DEF BarStep
<1> QED BY <1>8, <1>9

\* A reading that comes after the last does not exist, so that the bar is not full yet.
LEMMA DeliverBar == ASSUME DesktopInv, BarInv, NEW o \in Ops, NEW t \in Threads, Deliver(o, t)
                    PROVE  BarInv' /\ BarStep
<1> DEFINE r == op[o].hand[t]
<1>1. r \in Readings /\ r # Nothing /\ ~AllDelivered(o) /\ Running(o)
  <2>1. r # Nothing /\ ~AllDelivered(o)
    BY DEF Deliver, AllDelivered, Empty
  <2> QED BY <2>1, Known DEF BarInv, OpRecords
<1>2. /\ window' = [window EXCEPT !.prog = r]
      /\ op' = [op EXCEPT ![o].hand[t] = Nothing, ![o].said = r.phase]
  BY DEF Deliver
<1>3. /\ op'[o].at = op[o].at /\ op'[o].hand[t] = Nothing
      /\ \A u \in Threads : u # t => op'[o].hand[u] = op[o].hand[u]
      /\ \A p \in Ops : p # o => op'[p] = op[p]
  BY <1>2, Known DEF DesktopInv, OpRecords
<1>4. r.phase = "done" => op[o].at = "done" /\ \A u \in Threads \ {t} : op[o].hand[u] = Nothing
  BY <1>1, Known DEF OpInv, EndInv
<1> HIDE DEF r
<1>5. \A p \in Ops : Running(p)' <=> Running(p)
  BY <1>3 DEF Running
<1>6. \A p \in Ops : ~Running(p)' => AllDelivered(p)'
  BY <1>1, <1>3, <1>5 DEF BarInv, AllDelivered, Empty
<1>7. /\ window' \in [busy : BOOLEAN, prog : Readings \cup {Nothing}, pct : Nat, width : Nat,
                      alone : BOOLEAN]
      /\ window'.busy = window.busy /\ window'.prog = r /\ window'.alone = window.alone
      /\ window'.pct = window.pct /\ window'.width = window.width
  BY <1>1, <1>2 DEF BarInv
<1>8. window.busy /\ window.alone => window.pct # 100
  BY <1>1 DEF BarInv
<1>9. r.phase = "done" => op'[o].at = "done" /\ AllDelivered(o)'
  BY <1>3, <1>4 DEF AllDelivered, Empty
<1>10. BarInv'
  BY <1>1, <1>5, <1>6, <1>7, <1>8, <1>9 DEF BarInv
<1>11. BarStep
  BY <1>7, <1>8, BarIsPainted DEF BarStep
<1> QED BY <1>10, <1>11

\* The window is told that it is not busy.
LEMMA EndBar == ASSUME DesktopInv, BarInv, NEW o \in Ops, Succeeds(o) \/ Fails(o) \/ Panics(o)
                PROVE  BarInv' /\ BarStep
<1> DEFINE x == [NewOp EXCEPT !.at = "over"]
<1>1. PICK ok \in BOOLEAN : op' = [op EXCEPT ![o] = x] /\ window' = OnDone(window, ok)
  BY DEF Succeeds, Fails, Panics, Leaves, Guard
<1>2. /\ window' \in [busy : BOOLEAN, prog : Readings \cup {Nothing}, pct : Nat, width : Nat,
                      alone : BOOLEAN]
      /\ window'.busy = FALSE
  BY <1>1, 100 \in Nat DEF OnDone, BarInv
<1>3. x.hand = [t \in Threads |-> Nothing] /\ x.at = "over"
  BY NewOpIsTyped DEF OpRecords
<1> HIDE DEF x
<1>4. op'[o] = x /\ \A p \in Ops : p # o => op'[p] = op[p]
  BY <1>1 DEF DesktopInv
<1>5. \A p \in Ops : ~Running(p)' => AllDelivered(p)'
  BY <1>3, <1>4 DEF BarInv, Running, AllDelivered, Empty
<1> QED BY <1>2, <1>5 DEF BarInv, BarStep

LEMMA BarInit == Init => BarInv
<1>1. ASSUME Init, NEW o \in Ops PROVE ~Running(o) /\ AllDelivered(o)
  <2>1. op[o] = NewOp
    BY <1>1 DEF Init
  <2> QED BY <2>1, NewOpIsTyped DEF Running, AllDelivered, Empty
<1>2. ASSUME Init
      PROVE  /\ window \in [busy : BOOLEAN, prog : Readings \cup {Nothing}, pct : Nat, width : Nat,
                            alone : BOOLEAN]
             /\ ~window.busy
  BY <1>2 DEF Init
<1> QED BY <1>1, <1>2 DEF BarInv

LEMMA BarKeeps == ASSUME DesktopInv, BarInv, [Next]_vars PROVE BarInv' /\ BarStep
<1>1. ASSUME NEW o \in Ops, (\E kind \in KindsOf[o] : Click(o, kind)) \/ Main(o) \/ Help(o)
             \/ Fails(o) \/ Panics(o) \/ Hangs(o)
      PROVE  BarInv' /\ BarStep
  <2>1. ASSUME NEW kind \in KindsOf[o], Click(o, kind) PROVE BarInv' /\ BarStep
    BY <2>1, ClickBar
  <2>2. CASE Succeeds(o) \/ Fails(o) \/ Panics(o)
    BY <2>2, EndBar
  <2>3. CASE Unseen(o)
    BY <2>3, UnseenKeeps
  <2> QED BY <1>1, <2>1, <2>2, <2>3, WorkIsUnseen DEF Main
<1>2. ASSUME NEW o \in Ops, NEW t \in Threads, Deliver(o, t) PROVE BarInv' /\ BarStep
  BY <1>2, DeliverBar
<1>3. CASE Tick
  BY <1>3, TickBar
<1>4. CASE UNCHANGED vars
  BY <1>4, BarIsPainted DEF vars, BarInv, BarStep, Running, AllDelivered, Empty
<1> QED BY <1>1, <1>2, <1>3, <1>4 DEF Next

\* While one operation runs by itself its bar never goes back, and is full only with the
\* last reading (renderProgress and setBusy of main.ts).
THEOREM BarGoesForwardHolds == Spec => BarGoesForward
<1>1. BarStep <=> (window.busy /\ window'.busy /\ window.alone /\ window'.alone =>
                      /\ window'.width >= window.width
                      /\ window'.width = 100 => window'.prog.phase = "done")
  BY DEF BarStep
<1>2. DesktopInv /\ BarInv /\ [Next]_vars => BarInv' /\ BarStep
  BY BarKeeps
<1> QED BY BarInit, DesktopInvHolds, <1>1, <1>2, PTL DEF Spec, BarGoesForward
=============================================================================
