------------------------------ MODULE Progress ------------------------------
(***************************************************************************)
(* Reporter (archive.rs): the one snapshot behind the progress of an       *)
(* operation. Every call is a step under its lock, from a snapshot s to    *)
(* the next; whether it also hands a reading to the callback, which is     *)
(* called after the lock has been let go, is in s.says.                    *)
(***************************************************************************)
EXTENDS Integers

CONSTANTS Reports,    \* REPORTS_PER_OP
          ScanStep    \* SCAN_STEP_FILES

Phases == {"scan", "work", "drain", "commit", "done"}

Larger(a, b) == IF a > b THEN a ELSE b
Smaller(a, b) == IF a < b THEN a ELSE b

\* Reporter::new: nothing but a forced call reports before the totals are known.
NoStep == 1000
NewSnap ==
    [phase |-> "scan", filesDone |-> 0, filesTotal |-> 0, bytesDone |-> 0, bytesTotal |-> 0,
     bytesRead |-> 0, stored |-> 0, deduped |-> 0, sentDone |-> 0, sentFiles |-> 0,
     sentScan |-> 0, stepBytes |-> NoStep, stepFiles |-> ScanStep, says |-> FALSE]

\* What the callback gets, as far as the window's bar is made of it.
Reading(s) == [phase |-> s.phase, done |-> s.bytesDone, total |-> s.bytesTotal]

\* "Held one byte short on purpose"
Ceiling(total) == Larger(total - 1, 0)

\* filesBefore is peak_files: what the last reading that was assembled said.
Assembled(s, total, filesBefore) ==
    [s EXCEPT !.bytesTotal = total,
              !.bytesDone = Larger(Smaller(s.stored + s.deduped, Ceiling(total)), @),
              !.filesDone = Larger(@, filesBefore)]

MovedOn(s) ==
    \/ s.bytesDone >= s.sentDone + s.stepBytes
    \/ s.filesDone >= s.sentFiles + s.stepFiles

Sent(s, says) ==
    IF says THEN [s EXCEPT !.says = TRUE, !.sentDone = s.bytesDone, !.sentFiles = s.filesDone]
    ELSE [s EXCEPT !.says = FALSE]

Told(s, force) == Sent(s, force \/ MovedOn(s))

\* emit, of a snapshot that a call has just changed.
Emit(old, s, force) ==
    Told(Assembled(s, Larger(s.bytesTotal, s.bytesRead), old.filesDone), force)

Totals(s, files, bytes) ==
    Emit(s, [s EXCEPT !.filesTotal = files, !.bytesTotal = bytes,
                      !.stepBytes = Larger(bytes \div Reports, 1),
                      !.stepFiles = Larger(files \div Reports, 1), !.sentFiles = 0], TRUE)

Phase(s, phase) == Emit(s, [s EXCEPT !.phase = phase], TRUE)

Scanned(s, files) ==
    Emit(s, [s EXCEPT !.filesTotal = files,
                      !.sentScan = IF files >= @ + ScanStep THEN files ELSE @],
         files >= s.sentScan + ScanStep)

Read(s, files, bytes, deduped) ==
    Emit(s, [s EXCEPT !.filesDone = files, !.bytesRead = bytes, !.deduped = deduped], FALSE)

\* What a unit adds, in place of what all of them make.
StoredAdds(s, unpacked) == Emit(s, [s EXCEPT !.stored = @ + unpacked], TRUE)

\* The writer says how much it has stored in all.
Stored(s, unpacked) == Emit(s, [s EXCEPT !.stored = unpacked], TRUE)

\* A thread of an extraction says what it has just done.
ExtractedMore(s, files, bytes) ==
    Emit(s, [s EXCEPT !.stored = @ + bytes, !.filesDone = @ + files], FALSE)

Finish(s) ==
    [s EXCEPT !.phase = "done", !.filesDone = s.filesTotal, !.bytesDone = s.bytesTotal,
              !.bytesRead = Larger(@, s.bytesTotal), !.says = TRUE]
=============================================================================
