----------------------------- MODULE FooterScan -----------------------------
(***************************************************************************)
(* How Archive::open finds the newest commit (archive.rs 515-572,          *)
(* footer.rs 137-182), byte by byte: the end of the file first, then       *)
(* windows of W bytes from back to front which overlap by F - 1 bytes, and *)
(* from a footer whose manifest does not read on to the next older one.    *)
(*                                                                         *)
(* Nothing locks the file against an open for reading. Between any two     *)
(* reads a writer may append to it and commit, or may cut off the tail     *)
(* that a crash left behind (ArchiveLog!OpenRw).                           *)
(***************************************************************************)
EXTENDS Integers, FiniteSets, FiniteSetsExt

CONSTANTS H,         \* HEADER_LEN
          F,         \* FOOTER_LEN
          W,         \* WIN, the size of a window
          MaxTries,  \* MAX_FOOTER_CANDIDATES
          MaxLen     \* bound: the length of the file

ASSUME ScanAssumption ==
    /\ H \in Nat /\ F \in Nat \ {0} /\ W \in Nat
    /\ F <= W
    /\ MaxTries \in Nat \ {0} /\ MaxLen \in Nat

VARIABLES
    len,      \* the file: its length,
    valid,    \* the offsets at which a footer verifies itself,
    good,     \* and those of them whose manifest reads
    pc,       \* where the open is
    limit,    \* only footers in front of it are of interest any more
    size,     \* the length find_footer_before took of the file
    end,      \* where the next window ends
    hit,      \* the footer found last
    tries,    \* candidates asked for
    skipped,  \* skipped_commit: a footer was passed over
    known     \* `valid` at the time the open began, for the properties

file == <<len, valid, good>>
vars == <<len, valid, good, pc, limit, size, end, hit, tries, skipped, known>>

\* The offsets a footer of a file of n bytes may have.
Offsets(n) == { v \in H..n : v + F <= n }

\* A footer verifies itself that lies behind the newest commit.
Damaged == \E v \in valid \ good : \A g \in good : g < v

ScanTypeOK ==
    /\ len \in Nat /\ valid \subseteq Nat /\ good \subseteq valid
    /\ pc \in {"begin", "ask", "tail", "scan", "read", "opened", "none", "eof", "tries"}
    /\ limit \in Nat /\ size \in Nat /\ end \in Nat /\ hit \in Nat
    /\ tries \in 0..MaxTries
    /\ skipped \in BOOLEAN
    /\ known \subseteq valid

Init ==
    /\ len \in H..MaxLen
    /\ valid \in { S \in SUBSET Offsets(len) : \A v, w \in S : v < w => v + F <= w }
    /\ good \in SUBSET valid
    /\ pc = "begin"
    /\ limit = 0 /\ size = 0 /\ end = 0 /\ hit = 0 /\ tries = 0
    /\ skipped = FALSE
    /\ known = {}

Least(a, b) == IF a <= b THEN a ELSE b
Most(a, b) == IF a >= b THEN a ELSE b

----------------------------------------------------------------------------
(* The open. *)

\* Archive::open: the file's length is the first limit.
Begin ==
    /\ pc = "begin"
    /\ limit' = len
    /\ known' = valid
    /\ pc' = "ask"
    /\ UNCHANGED <<len, valid, good, size, end, hit, tries, skipped>>

\* find_footer_before is called, and takes the length of the file anew.
Ask ==
    /\ pc = "ask"
    /\ size' = len
    /\ limit' = Least(limit, len)
    /\ tries' = tries + 1
    /\ pc' = "tail"
    /\ UNCHANGED <<len, valid, good, end, hit, skipped, known>>

\* "A committed archive ends exactly with its footer."
LooksAtTail == limit = size /\ size >= H + F

TailHit == LooksAtTail /\ size - F \in valid

FirstEnd == Least(limit + F, size)

Tail ==
    /\ pc = "tail"
    /\ \/ /\ LooksAtTail /\ size > len     \* read_exact meets the end of the file
          /\ pc' = "eof"
          /\ UNCHANGED <<hit, end>>
       \/ /\ TailHit /\ size <= len
          /\ hit' = size - F
          /\ pc' = "read"
          /\ UNCHANGED end
       \/ /\ ~TailHit /\ (LooksAtTail => size <= len)
          /\ end' = FirstEnd
          /\ pc' = "scan"
          /\ UNCHANGED hit
    /\ UNCHANGED <<len, valid, good, limit, size, tries, skipped, known>>

\* A window that is not held back at the header.
StartAnywhere == Most(end - W, 0)

Start == Most(end - W, H)

\* What the scan of the window sees.
WindowHits == { v \in valid : Start <= v /\ v + F <= end /\ v < limit }

\* Windows that only just touch, and do not overlap.
NoOverlap == Start

NextEnd == Start + (F - 1)

Window ==
    /\ pc = "scan"
    /\ \/ /\ end <= H
          /\ pc' = "none"
          /\ UNCHANGED <<hit, end>>
       \/ /\ end > H /\ end > len
          /\ pc' = "eof"
          /\ UNCHANGED <<hit, end>>
       \/ /\ end > H /\ end <= len
          /\ \E v \in WindowHits : (\A w \in WindowHits : w <= v) /\ hit' = v
          /\ pc' = "read"
          /\ UNCHANGED end
       \/ /\ end > H /\ end <= len /\ WindowHits = {} /\ Start = H
          /\ pc' = "none"
          /\ UNCHANGED <<hit, end>>
       \/ /\ end > H /\ end <= len /\ WindowHits = {} /\ Start # H
          /\ end' = NextEnd
          /\ UNCHANGED <<pc, hit>>
    /\ UNCHANGED <<len, valid, good, limit, size, tries, skipped, known>>

\* read_manifest succeeds, and the archive is open.
Accept ==
    /\ pc = "read" /\ hit \in good
    /\ pc' = "opened"
    /\ UNCHANGED <<len, valid, good, limit, size, end, hit, tries, skipped, known>>

\* Only a footer that ends the file counts as one that was skipped.
SkippedAtEnd == skipped \/ hit + F = len

\* skipped_commit is set.
SkippedNow == TRUE

\* `for _ in 0..=MAX_FOOTER_CANDIDATES`
LastTry == tries = MaxTries

\* read_manifest fails: the walk goes on below this footer.
Skip ==
    /\ pc = "read" /\ hit \notin good
    /\ skipped' = SkippedNow
    /\ \/ hit <= H /\ pc' = "none" /\ UNCHANGED limit
       \/ hit > H /\ LastTry /\ pc' = "tries" /\ limit' = hit
       \/ hit > H /\ ~LastTry /\ pc' = "ask" /\ limit' = hit
    /\ UNCHANGED <<len, valid, good, size, end, hit, tries, known>>

Open == Begin \/ Ask \/ Tail \/ Window \/ Accept \/ Skip

----------------------------------------------------------------------------
(* A writer beside it. It has the file open only if the file is not damaged. *)

\* n bytes are appended, and the last F of them are a footer or are not.
Grow(n) ==
    /\ ~Damaged
    /\ len + n <= MaxLen
    /\ len' = len + n
    /\ \/ UNCHANGED <<valid, good>>
       \/ /\ n >= F
          /\ valid' = valid \cup {len' - F}
          /\ good' = good \cup {len' - F}
    /\ UNCHANGED <<pc, limit, size, end, hit, tries, skipped, known>>

\* set_len: what follows the newest commit goes.
Cut ==
    /\ ~Damaged
    /\ \E g \in good :
        /\ \A v \in valid : v <= g
        /\ g + F < len
        /\ len' = g + F
    /\ UNCHANGED <<valid, good, pc, limit, size, end, hit, tries, skipped, known>>

Next == Open \/ (\E n \in 1..MaxLen : Grow(n)) \/ Cut

\* The opening process runs: its reads return, with data or with an error.
Spec == Init /\ [][Next]_vars /\ WF_vars(Open)

----------------------------------------------------------------------------
(* Properties. *)

Settled == {"opened", "none", "eof", "tries"}

\* What is opened is a commit, and none that was in the file when the open began
\* is newer: no footer falls between two windows, in front of the first one or
\* behind the limit, and the writer beside the scan hides none.
OpensTheNewest ==
    pc = "opened" => hit \in good /\ \A g \in known \cap good : g <= hit

\* The open gives up only for a reason: there is no commit, or MAX_FOOTER_CANDIDATES
\* footers above the newest commit do not read, or the file became shorter.
FailsForAReason ==
    /\ pc = "none" => known \cap good = {}
    /\ pc = "tries" => Cardinality({ v \in valid \ good : v >= limit }) >= MaxTries

\* Damage is reported if and only if a footer that verified itself was passed over:
\* an archive that was whole is never called damaged because of a writer beside it.
DamageIsTrue ==
    pc = "opened" => (skipped <=> \E v \in known \ good : v > hit)

\* Every scan ends, however the file changes meanwhile.
OpenReturns == <>(pc \in Settled)
=============================================================================
