-------------------------- MODULE MCPrintSubmission --------------------------
(* PrintSubmission for TLC: two jobs, alike, from one local file to one      *)
(* printer, which Studio slices into again.                                  *)
EXTENDS PrintSubmission, TLC

CONSTANT Printer, LocalFile

CleanStem(s) == IF s = "lid/box" THEN "lid_box" ELSE s

(* A package named by its project, and plain G-code that is given its        *)
(* remote name.                                                              *)
Package2 ==
    [dev |-> Printer, path |-> LocalFile, source |-> Name("box", <<"3mf">>),
     project |-> Name("lid/box", <<>>), task |-> Empty, ftp |-> Empty,
     dst |-> Empty, plate |-> 2]
GcodeFile ==
    [Package2 EXCEPT !.source = Name("box", <<"gcode">>), !.project = Empty,
                     !.dst = Name("box", <<"gcode">>), !.plate = 0]

OnePackage == {Package2}
Either == {Package2, GcodeFile}

AnySlot ==
    {SlotFor(p, k, c) : p \in Params, k \in Kinds, c \in Contents \cup {Unreadable}}

(* One of the jobs is a start_print that waits, the other of any kind.       *)
MCInit == Init /\ \E j \in Jobs : kind[j] = "print"
MCSpec == MCInit /\ [][Next]_vars

Alike == Permutations(Jobs) \cup Permutations(Contents)
=============================================================================
