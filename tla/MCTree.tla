------------------------------- MODULE MCTree -------------------------------
(***************************************************************************)
(* Files of every kind that the packer tells apart, at sizes around each   *)
(* of its bounds: tiny ones, whole ones, chunked ones that share units and *)
(* large ones that go through several, containers alone and too small to   *)
(* be, a copy, edited versions, a .wav to be cut, and files that have      *)
(* grown, shrunk or become empty between the metadata and the read. Two    *)
(* adds at different tiers, and one edit at any time outside them; and     *)
(* three adds of names that differ only in case.                           *)
(***************************************************************************)
EXTENDS Tree

Look(magic, saves, stride) ==
    [magic |-> magic, saves |-> saves, stride |-> stride, riff |-> Refused]
Riff(frame, off, len) ==
    [magic |-> "wav", saves |-> 5, stride |-> 2, riff |-> [frame |-> frame, off |-> off, len |-> len]]

MCLooks ==
    (1 :> Look("text", 30, 0)) @@ (2 :> Look("deflate", 2, 0)) @@ (3 :> Look("none", 5, 2))
    @@ (4 :> Look("exe", 20, 0)) @@ (5 :> Look("packed", 0, 0)) @@ (6 :> Look("jpeg", 0, 0))
    @@ (7 :> Look("mp3", 1, 0)) @@ (8 :> Riff(2, 1, 21)) @@ (9 :> Riff(2, 1, 3))
    @@ (10 :> Riff(2, 12, 11))

File(path, len, cells) == [path |-> path, len |-> len, cells |-> cells]

\* A large file in chunks of two cells: the fourth says stop, and ten more make a unit of
\* twice the target; or nine, and one of three cells that would overshoot it.
Large(rest) ==
    <<4, 15, 11, 18, 7, 15, 14, 27, 11, 18, 7, 15, 14, 12, 11, 12, 14, 15, 11, 12, 14, 12, 11, 12,
      17, 12>> \o rest

\* In the order of the extensions, then of the paths.
MCCatalogue == <<
    File(<<"D">>, 1, <<1>>),
    File(<<"d">>, 2, <<4, 15>>),
    File(<<"empty.bin">>, 4, <<>>),
    File(<<"grown.bin">>, 3, [k \in 1..21 |-> 3]),
    File(<<"shrunk.bin">>, 4, <<3, 15>>),
    File(<<"a.exe">>, 4, <<4, 15, 5, 15>>),
    File(<<"b.exe">>, 4, <<4, 27, 5, 18>>),
    File(<<"big.exe">>, 31, Large(<<14, 15, 11, 12, 1>>)),
    File(<<"big.exe">>, 31, Large(<<14, 16, 15, 11, 1>>)),
    File(<<"p.jpg">>, 3, <<6, 1, 1>>),
    File(<<"m.mp3">>, 4, <<7, 12, 11, 12>>),
    File(<<"small.png">>, 2, <<2, 11>>),
    File(<<"tiny.png">>, 1, <<2>>),
    File(<<"d", "A.txt">>, 2, <<1, 11>>),
    File(<<"d", "a.txt">>, 3, <<1, 11, 12>>),
    File(<<"d", "a.txt">>, 3, <<1, 17, 12>>),
    File(<<"d", "e", "b.txt">>, 1, <<1>>),
    File(<<"none.txt">>, 0, <<>>),
    File(<<"cut.wav">>, 24, <<8>> \o [k \in 1..23 |-> 30 + k]),
    File(<<"gone.wav">>, 24, <<8>> \o [k \in 1..9 |-> 30 + k]),
    File(<<"odd.wav">>, 24, <<10>> \o [k \in 1..23 |-> 30 + k]),
    File(<<"short.wav">>, 5, <<9, 1, 1, 1, 1>>),
    File(<<"c.zip">>, 3, <<2, 1, 1>>),
    File(<<"copy.zip">>, 3, <<2, 1, 1>>),
    File(<<"noise.zip">>, 4, <<5, 1, 1, 1>>) >>

MCLower ==
    [name \in UNION { ToSet(MCCatalogue[k].path) : k \in DOMAIN MCCatalogue } \cup {"con", "f"} |->
        CASE name = "A.txt" -> "a.txt" [] name = "D" -> "d" [] OTHER -> name]

\* One add of any four files; or two of any two, with an edit; or three that bring a file,
\* a directory and a file of one name but for the case, in any order, with an edit.
MCScopes ==
    { [adds |-> <<[tier |-> "max", files |-> DOMAIN MCCatalogue \ {1, 2}, most |-> 4]>>, edits |-> 0],
      [adds |-> <<[tier |-> "max", files |-> {6, 8, 14, 15, 17, 19, 23}, most |-> 2],
                  [tier |-> "fast", files |-> {6, 9, 14, 16, 24}, most |-> 2]>>, edits |-> 1],
      [adds |-> [n \in 1..3 |-> [tier |-> "fast", files |-> {1, 2, 17}, most |-> 2]], edits |-> 1] }

MCMoves ==
    { <<<<"d">>, <<"f">>>>, <<<<"d">>, <<"con">>>>, <<<<"d">>, <<"d", "f">>>>,
      <<<<"big.exe">>, <<"d", "a.txt">>>>, <<<<"d", "A.txt">>, <<"d", "a.txt">>>>,
      <<<<"d">>, <<"big.exe">>>>, <<<<"none.txt">>, <<"f">>>> }
MCSelections == { {<<"d">>}, {<<"big.exe">>}, {<<"c.zip">>, <<"big.exe">>} }
MCUnsafe == {"con"}
=============================================================================
