----------------------------- MODULE ItemStore ------------------------------
(***************************************************************************)
(* The memory a cache keeps its items in (cache::add_file_internal,        *)
(* get_next_file and clear): blocks of one size, linked, in which items of *)
(* different sizes lie end to end.  A size of zero, which is what a fresh  *)
(* block is filled with, ends a block.                                     *)
(***************************************************************************)
EXTENDS Naturals, Sequences

CONSTANTS
  Readers,    \* enumerations of one cache
  Items,      \* items, with the length of their name in field chars
  AllocSize,  \* alloc_block_size, in bytes
  BlockHead,  \* block_header_size: the link to the next block
  ItemHead,   \* sizeof(cache_item)
  Slack,      \* what has to stay free behind an item
  SizeField,  \* sizeof(cache_item::item_size)
  MaxChars,   \* the longest name of an item
  MaxItems    \* a bound of the model: how many items are added

ItemSize(item) == ItemHead + 2 * item.chars

ASSUME StoreAssumption ==
  /\ AllocSize \in Nat /\ BlockHead \in Nat /\ ItemHead \in Nat /\ Slack \in Nat
  /\ SizeField \in Nat /\ MaxChars \in Nat /\ MaxItems \in Nat /\ ItemHead > 0
  /\ SizeField <= Slack
  /\ BlockHead + ItemHead + 2 * MaxChars + Slack < AllocSize
  /\ \A item \in Items : item.chars \in 1 .. MaxChars

VARIABLES
  blocks,  \* what lies where: for each block, a function from positions
  pos,     \* m_block_pos: where the next item goes in the last block
  count,   \* m_item_count
  ready,   \* the cache is published (stReady)
  cursor,  \* cache_enum of each enumeration: where the item it was given last is, or nothing
  log,     \* history: where the items are, in the order they were added
  read,    \* history: how many items an enumeration has been given
  got      \* what its last call returned: an item as a sequence of one, or nothing

storeVars == <<blocks, pos, count, ready, cursor, log, read, got>>
readVars == <<cursor, read, got>>

StoreInit ==
  /\ blocks = <<>> /\ pos = 0 /\ count = 0 /\ ready = FALSE /\ log = <<>>
  /\ cursor = [r \in Readers |-> <<>>]
  /\ read = [r \in Readers |-> 0] /\ got = [r \in Readers |-> <<>>]

Place(b, p) == [block |-> b, at |-> p]
Present(b, p) == p \in DOMAIN blocks[b]
ItemAt(place) == blocks[place.block][place.at]

(* Where the item after one lies, if it is in the same block.              *)
EndOf(place) == place.at + ItemSize(ItemAt(place))

-----------------------------------------------------------------------------
(* Mutant: the slack is forgotten.                                         *)
NeedsBlockTight(item) == blocks = <<>> \/ pos + ItemSize(item) > AllocSize

NeedsBlock(item) == blocks = <<>> \/ pos + ItemSize(item) + Slack >= AllocSize

(* An item written into a block at a position.                             *)
With(b, p, item) == [x \in DOMAIN b \cup {p} |-> IF x = p THEN item ELSE b[x]]
Fresh == [x \in {} |-> 0]

(* The item goes to a block, behind the blocks before it.                  *)
AddAt(before, b, p, item) ==
  /\ blocks' = Append(before, With(b, p, item))
  /\ pos' = p + ItemSize(item)
  /\ log' = Append(log, Place(Len(before) + 1, p))

(* add_file_internal, when it gets the memory it needs.                    *)
AddFile(item) ==
  /\ ~ready /\ count < MaxItems
  /\ IF NeedsBlock(item)
     THEN AddAt(blocks, Fresh, BlockHead, item)
     ELSE AddAt(SubSeq(blocks, 1, Len(blocks) - 1), blocks[Len(blocks)], pos, item)
  /\ count' = count + 1
  /\ UNCHANGED <<ready, readVars>>

(* add_file_internal, when malloc fails: nothing has changed.              *)
AddFails(item) == ~ready /\ NeedsBlock(item) /\ UNCHANGED storeVars

(* clear, from an init that failed or starts over.  m_block_pos stays: the *)
(* next item opens a block.                                                *)
Clear ==
  /\ ~ready
  /\ blocks' = <<>> /\ count' = 0 /\ log' = <<>>
  /\ UNCHANGED <<pos, ready, readVars>>

Publish == ~ready /\ ready' = TRUE /\ UNCHANGED <<blocks, pos, count, log, readVars>>

-----------------------------------------------------------------------------
Give(r, place) ==
  /\ cursor' = [cursor EXCEPT ![r] = <<place>>]
  /\ got' = [got EXCEPT ![r] = <<ItemAt(place)>>]
  /\ read' = [read EXCEPT ![r] = @ + 1]

GiveNothing(r) ==
  got' = [got EXCEPT ![r] = <<>>] /\ UNCHANGED <<cursor, read>>

(* The item at a place if its size is not zero, else one or nothing.       *)
GiveIfPresent(r, b, p) ==
  IF Present(b, p) THEN Give(r, Place(b, p)) ELSE GiveNothing(r)

(* Mutant: the first item of the next block is skipped.                    *)
GetNextSkips(r) ==
  /\ ready
  /\ IF count = 0 THEN GiveNothing(r)
     ELSE IF cursor[r] = <<>> THEN GiveIfPresent(r, 1, BlockHead)
     ELSE LET b == cursor[r][1].block  p == EndOf(cursor[r][1])
          IN IF p < AllocSize /\ Present(b, p) THEN Give(r, Place(b, p))
             ELSE IF b < Len(blocks)
             THEN GiveIfPresent(r, b + 1, EndOf(Place(b + 1, BlockHead)))
             ELSE GiveNothing(r)
  /\ UNCHANGED <<blocks, pos, count, ready, log>>

(* get_next_file.  At the end of the list the cursor stays where it is.    *)
GetNext(r) ==
  /\ ready
  /\ IF blocks = <<>> \/ count = 0 THEN GiveNothing(r)
     ELSE IF cursor[r] = <<>> THEN GiveIfPresent(r, 1, BlockHead)
     ELSE LET b == cursor[r][1].block  p == EndOf(cursor[r][1])
          IN IF p >= AllocSize THEN GiveNothing(r)
             ELSE IF Present(b, p) THEN Give(r, Place(b, p))
             ELSE IF b < Len(blocks) THEN GiveIfPresent(r, b + 1, BlockHead)
             ELSE GiveNothing(r)
  /\ UNCHANGED <<blocks, pos, count, ready, log>>

(* cache_enum::reset, by the archive a host reopens.                       *)
Reset(r) ==
  /\ ready
  /\ cursor' = [cursor EXCEPT ![r] = <<>>] /\ read' = [read EXCEPT ![r] = 0]
  /\ UNCHANGED <<blocks, pos, count, ready, log, got>>

StoreNext ==
  \/ \E item \in Items : AddFile(item) \/ AddFails(item)
  \/ Clear \/ Publish
  \/ \E r \in Readers : GetNext(r) \/ Reset(r)

StoreSpec == StoreInit /\ [][StoreNext]_storeVars

-----------------------------------------------------------------------------
(* An item does not reach into what lies behind it, and the size field at  *)
(* its end, by which get_next_file finds the next item or the end of the   *)
(* block, lies inside the block: what it reads is a size that was written  *)
(* or a zero of the fill (wcx_cache.cpp:74 and 122).                       *)
NoOverrun ==
  \A b \in 1 .. Len(blocks) : \A p \in DOMAIN blocks[b] :
    LET end == p + ItemSize(blocks[b][p])
    IN /\ end + SizeField <= AllocSize
       /\ \A q \in DOMAIN blocks[b] : q > p => q >= end

(* What is stored is a list: every enumeration is given every item, in the *)
(* order they were added, over all block borders.                          *)
Listed == [n \in 1 .. Len(log) |-> ItemAt(log[n])]
List == INSTANCE ItemList WITH items <- Listed
IsItemList == List!Spec

=============================================================================
