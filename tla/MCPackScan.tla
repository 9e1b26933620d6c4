----------------------------- MODULE MCPackScan -----------------------------
(* Instances of PackScan for TLC.                                          *)
EXTENDS PackScan

CONSTANTS p1, p2, none

MCPackers == {p1, p2}
Symmetry == Permutations(MCPackers)

MCFile(size) == [dir |-> FALSE, size |-> size]
MCDir == [dir |-> TRUE, size |-> 0]

(* A file of two chunks, a directory, an empty file.                       *)
MCAddList == <<MCFile(2), MCDir, MCFile(0)>>

=============================================================================
