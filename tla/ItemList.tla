------------------------------ MODULE ItemList ------------------------------
(***************************************************************************)
(* What the contents of a cache promise: a list that is filled, published  *)
(* and then read by any number of enumerations, each from the beginning    *)
(* and in order.                                                           *)
(***************************************************************************)
EXTENDS Naturals, Sequences

CONSTANT
  Readers  \* enumerations

VARIABLES
  items,  \* the list
  ready,  \* it is published
  read,   \* how many items an enumeration has been given
  got     \* what its last call returned: an item as a sequence of one, or nothing

listVars == <<items, ready, read, got>>

Init ==
  /\ items = <<>> /\ ready = FALSE
  /\ read = [r \in Readers |-> 0] /\ got = [r \in Readers |-> <<>>]

(* An item, whatever it is, comes behind those that are there.             *)
Add ==
  /\ ~ready
  /\ Len(items') = Len(items) + 1 /\ SubSeq(items', 1, Len(items)) = items
  /\ UNCHANGED <<ready, read, got>>

Clear == ~ready /\ items' = <<>> /\ UNCHANGED <<ready, read, got>>

Publish == ~ready /\ ready' = TRUE /\ UNCHANGED <<items, read, got>>

(* The next item, and nothing once all have been given.                    *)
Get(r) ==
  /\ ready
  /\ IF read[r] < Len(items)
     THEN /\ read' = [read EXCEPT ![r] = @ + 1]
          /\ got' = [got EXCEPT ![r] = <<items[read[r] + 1]>>]
     ELSE got' = [got EXCEPT ![r] = <<>>] /\ UNCHANGED read
  /\ UNCHANGED <<items, ready>>

Reset(r) ==
  /\ ready /\ read' = [read EXCEPT ![r] = 0]
  /\ UNCHANGED <<items, ready, got>>

Next ==
  \/ Add \/ Clear \/ Publish
  \/ \E r \in Readers : Get(r) \/ Reset(r)

Spec == Init /\ [][Next]_listVars

=============================================================================
