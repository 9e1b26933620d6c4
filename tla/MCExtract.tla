----------------------------- MODULE MCExtract ------------------------------
(* An instance of Extract for TLC: a directory, a file of two chunks, a    *)
(* file with a name too long, one the archive has too little data for, an  *)
(* empty one, one whose data decodes to nothing or lies beyond the end,    *)
(* and one of which only the header is packed.                             *)
EXTENDS Extract

MCItems ==
  LET Item(dir, hidden, size, packed, room) ==
        [dir |-> dir, hidden |-> hidden, size |-> size, packed |-> packed, room |-> room]
  IN  << Item(TRUE, FALSE, 0, TRUE, 3), Item(FALSE, FALSE, 2, TRUE, 3),
         Item(FALSE, TRUE, 1, TRUE, 1), Item(FALSE, FALSE, 3, TRUE, 1),
         Item(FALSE, FALSE, 0, TRUE, 1), Item(FALSE, FALSE, 1, TRUE, 0),
         Item(FALSE, FALSE, 1, FALSE, 0) >>
=============================================================================
