-------------------------- MODULE ItemStoreProofs ---------------------------
(* The item store is a list that every enumeration is given in order, and  *)
(* no item leaves its block: proved for items and blocks of any sizes that *)
(* keep StoreAssumption.                                                   *)
EXTENDS ItemStore, SequenceTheorems, TLAPS

(* Items that a block has room for.  The lemmas are about a store of any   *)
(* set of them, Items being one; a scan has another.                       *)
Fitting(S) == \A item \in S : item.chars \in 1 .. MaxChars

Places == [block : Nat, at : Nat]
Block(S) == UNION {[D -> S] : D \in SUBSET Nat}

Types(S) ==
  /\ blocks \in Seq(Block(S)) /\ pos \in Nat /\ count \in Nat /\ ready \in BOOLEAN
  /\ log \in Seq(Places) /\ read \in [Readers -> Nat]
  /\ cursor \in [Readers -> Seq(Places)] /\ got \in [Readers -> Seq(S)]

(* The history says where the items are: the first at the start of the     *)
(* first block, every other behind the one before it or, when that was the *)
(* last of its block, at the start of the next.                            *)
Logged ==
  /\ count = Len(log)
  /\ Len(log) = 0 <=> Len(blocks) = 0
  /\ \A n \in 1 .. Len(log) :
       log[n].block \in 1 .. Len(blocks) /\ Present(log[n].block, log[n].at)
  /\ Len(log) > 0 => log[1] = Place(1, BlockHead)

Chained ==
  \A n \in 1 .. Len(log) - 1 :
    \/ log[n + 1] = Place(log[n].block, EndOf(log[n]))
    \/ /\ log[n + 1] = Place(log[n].block + 1, BlockHead)
       /\ ~Present(log[n].block, EndOf(log[n]))

LastKnown ==
  Len(log) > 0 => log[Len(log)].block = Len(blocks) /\ EndOf(log[Len(log)]) = pos

(* Items lie in their block, apart from each other, and in the last block  *)
(* before the place of the next item.                                      *)
Fits ==
  \A b \in 1 .. Len(blocks) : \A p \in DOMAIN blocks[b] :
    /\ p + ItemSize(blocks[b][p]) + Slack < AllocSize
    /\ b = Len(blocks) => p + ItemSize(blocks[b][p]) <= pos
    /\ \A q \in DOMAIN blocks[b] : q > p => q >= p + ItemSize(blocks[b][p])

(* An enumeration stands at the item it was given last.                    *)
Standing ==
  \A r \in Readers :
    /\ read[r] <= Len(log)
    /\ IF read[r] = 0 THEN cursor[r] = <<>> ELSE cursor[r] = <<log[read[r]]>>
    /\ ~ready => read[r] = 0

StoreInv(S) == Types(S) /\ Logged /\ Chained /\ LastKnown /\ Fits /\ Standing

-----------------------------------------------------------------------------
LEMMA SizeFact ==
  ASSUME NEW S, Fitting(S), NEW item \in S
  PROVE  ItemSize(item) \in Nat /\ ItemSize(item) > 0
  BY StoreAssumption DEF ItemSize, Fitting

LEMMA BlockFact ==
  ASSUME NEW S, NEW b \in Block(S) PROVE DOMAIN b \in SUBSET Nat /\ \A p \in DOMAIN b : b[p] \in S
  BY DEF Block

(* Writing an item keeps the others.                                       *)
LEMMA WithFact ==
  ASSUME NEW S, NEW b \in Block(S), NEW p \in Nat, NEW item \in S
  PROVE  /\ With(b, p, item) \in Block(S)
         /\ DOMAIN With(b, p, item) = DOMAIN b \cup {p}
         /\ With(b, p, item)[p] = item
         /\ \A x \in DOMAIN b : x # p => With(b, p, item)[x] = b[x]
<1>1. DOMAIN b \cup {p} \in SUBSET Nat
  BY BlockFact
<1>2. With(b, p, item) \in [DOMAIN b \cup {p} -> S]
  BY BlockFact DEF With
<1> QED
  BY <1>1, <1>2 DEF With, Block

LEMMA FreshFact == ASSUME NEW S PROVE Fresh \in Block(S) /\ DOMAIN Fresh = {}
<1>1. Fresh \in [{} -> S]
  BY DEF Fresh
<1> QED
  BY <1>1 DEF Fresh, Block

LEMMA PresentFact ==
  ASSUME NEW S, Fitting(S), Types(S), NEW b \in 1 .. Len(blocks), NEW p \in DOMAIN blocks[b]
  PROVE  p \in Nat /\ blocks[b][p] \in S /\ ItemSize(blocks[b][p]) \in Nat
         /\ ItemSize(blocks[b][p]) > 0
<1>1. blocks[b] \in Block(S)
  BY DEF Types
<1> QED
  BY <1>1, BlockFact, SizeFact

-----------------------------------------------------------------------------
(* What adding an item does, wherever it goes.                             *)
Added(S, item, nb, np) ==
  /\ blocks' \in Seq(Block(S)) /\ nb = Len(blocks') /\ nb \in Nat \ {0} /\ np \in Nat
  /\ \/ nb = Len(blocks) /\ np = pos
     \/ nb = Len(blocks) + 1 /\ np = BlockHead
  /\ np \in DOMAIN blocks'[nb] /\ blocks'[nb][np] = item
  /\ np + ItemSize(item) + Slack < AllocSize
  /\ pos' = np + ItemSize(item) /\ log' = Append(log, Place(nb, np))

Keeps(nb, np) ==
  /\ \A b \in 1 .. Len(blocks) : \A p \in DOMAIN blocks[b] :
       /\ p \in DOMAIN blocks'[b] /\ blocks'[b][p] = blocks[b][p]
       /\ b = nb => p + ItemSize(blocks[b][p]) <= np
  /\ \A b \in 1 .. nb : \A p \in DOMAIN blocks'[b] :
       (b <= Len(blocks) /\ p \in DOMAIN blocks[b]) \/ (b = nb /\ p = np)

LEMMA AddToFresh ==
  ASSUME NEW S, Fitting(S), StoreInv(S), NEW item \in S, AddAt(blocks, Fresh, BlockHead, item)
  PROVE  Added(S, item, Len(blocks) + 1, BlockHead) /\ Keeps(Len(blocks) + 1, BlockHead)
<1> DEFINE new == With(Fresh, BlockHead, item)
<1>1. blocks \in Seq(Block(S)) /\ Len(blocks) \in Nat
  BY DEF StoreInv, Types
<1>2. BlockHead \in Nat /\ BlockHead + ItemSize(item) + Slack < AllocSize
  BY StoreAssumption DEF ItemSize, Fitting
<1>3. new \in Block(S) /\ DOMAIN new = {BlockHead} /\ new[BlockHead] = item
  <2>1. Fresh \in Block(S) /\ DOMAIN Fresh = {} /\ BlockHead \in Nat
    BY <1>2, FreshFact
  <2>2. new \in Block(S)
    BY <2>1, WithFact
  <2>3. DOMAIN new = DOMAIN Fresh \cup {BlockHead} /\ new[BlockHead] = item
    BY DEF With
  <2> HIDE DEF new
  <2> QED
    BY <2>1, <2>2, <2>3
<1>4. blocks' = Append(blocks, new) /\ pos' = BlockHead + ItemSize(item)
      /\ log' = Append(log, Place(Len(blocks) + 1, BlockHead))
  BY DEF AddAt
<1> HIDE DEF new
<1>5. /\ blocks' \in Seq(Block(S)) /\ Len(blocks') = Len(blocks) + 1
      /\ blocks'[Len(blocks) + 1] = new
      /\ \A b \in 1 .. Len(blocks) : blocks'[b] = blocks[b]
  BY <1>1, <1>3, <1>4
<1>6. Added(S, item, Len(blocks) + 1, BlockHead)
  BY <1>1, <1>2, <1>3, <1>4, <1>5 DEF Added
<1>7. Keeps(Len(blocks) + 1, BlockHead)
  BY <1>1, <1>3, <1>5 DEF Keeps
<1> QED
  BY <1>6, <1>7

LEMMA AddToLast ==
  ASSUME NEW S, Fitting(S), StoreInv(S), NEW item \in S, Len(blocks) # 0,
         pos + ItemSize(item) + Slack < AllocSize,
         AddAt(SubSeq(blocks, 1, Len(blocks) - 1), blocks[Len(blocks)], pos, item)
  PROVE  Added(S, item, Len(blocks), pos) /\ Keeps(Len(blocks), pos)
<1> DEFINE last == blocks[Len(blocks)]
           new == With(last, pos, item)
           before == SubSeq(blocks, 1, Len(blocks) - 1)
<1>1. blocks \in Seq(Block(S)) /\ Len(blocks) \in Nat \ {0} /\ pos \in Nat
  BY DEF StoreInv, Types
<1>2. last \in Block(S)
  BY <1>1
<1>3. /\ new \in Block(S) /\ DOMAIN new = DOMAIN last \cup {pos} /\ new[pos] = item
      /\ \A x \in DOMAIN last : x # pos => new[x] = last[x]
  <2>1. new \in Block(S)
    BY <1>1, <1>2, WithFact
  <2> QED
    BY <2>1 DEF With
<1>4. /\ before \in Seq(Block(S)) /\ Len(before) = Len(blocks) - 1
      /\ \A b \in 1 .. Len(blocks) - 1 : before[b] = blocks[b]
  <2>1. \A i \in 1 .. Len(blocks) - 1 : blocks[i] \in Block(S)
    BY <1>1
  <2>2. 1 \in Int /\ Len(blocks) - 1 \in Int
    BY <1>1
  <2>3. /\ before \in Seq(Block(S))
        /\ Len(before) = IF 1 <= Len(blocks) - 1 THEN (Len(blocks) - 1) - 1 + 1 ELSE 0
        /\ \A i \in 1 .. (Len(blocks) - 1) - 1 + 1 : before[i] = blocks[1 + i - 1]
    BY <2>1, <2>2, SubSeqProperties
  <2> HIDE DEF before
  <2>4. Len(before) = Len(blocks) - 1
    <3>1. (1 <= Len(blocks) - 1 /\ Len(before) = (Len(blocks) - 1) - 1 + 1)
          \/ (~(1 <= Len(blocks) - 1) /\ Len(before) = 0)
      BY <2>3
    <3> QED
      BY <1>1, <3>1
  <2>5. ASSUME NEW b \in 1 .. Len(blocks) - 1 PROVE before[b] = blocks[b]
    <3>1. b \in 1 .. (Len(blocks) - 1) - 1 + 1 /\ 1 + b - 1 = b
      BY <1>1
    <3> QED
      BY <2>3, <3>1
  <2> QED
    BY <2>3, <2>4, <2>5
<1>5. /\ blocks' = Append(before, new) /\ pos' = pos + ItemSize(item)
      /\ log' = Append(log, Place(Len(blocks), pos))
  BY <1>1, <1>4 DEF AddAt
<1>6. \A p \in DOMAIN last : p + ItemSize(last[p]) <= pos /\ p # pos
  BY <1>1, PresentFact DEF StoreInv, Fits
<1> HIDE DEF new, before
<1>7. /\ blocks' \in Seq(Block(S)) /\ Len(blocks') = Len(blocks)
      /\ blocks'[Len(blocks)] = new
      /\ \A b \in 1 .. Len(blocks) - 1 : blocks'[b] = blocks[b]
  BY <1>1, <1>3, <1>4, <1>5
<1>8. Added(S, item, Len(blocks), pos)
  BY <1>1, <1>3, <1>5, <1>7 DEF Added
<1>9. Keeps(Len(blocks), pos)
  <2>1. ASSUME NEW b \in 1 .. Len(blocks)
        PROVE \/ b = Len(blocks) /\ blocks[b] = last /\ blocks'[b] = new
              \/ b # Len(blocks) /\ blocks'[b] = blocks[b]
    BY <1>1, <1>7
  <2> QED
    BY <1>1, <1>3, <1>6, <2>1 DEF Keeps
<1> QED
  BY <1>8, <1>9

(* Both together.                                                          *)
LEMMA AddFact ==
  ASSUME NEW S, Fitting(S), StoreInv(S), NEW item \in S, AddFile(item)
  PROVE  \E nb, np \in Nat : Added(S, item, nb, np) /\ Keeps(nb, np)
<1>1. Len(blocks) \in Nat /\ pos \in Nat /\ BlockHead \in Nat /\ Slack \in Nat
      /\ AllocSize \in Nat /\ ItemSize(item) \in Nat
  BY StoreAssumption, SizeFact DEF StoreInv, Types
<1>2. CASE NeedsBlock(item)
  BY <1>1, <1>2, AddToFresh DEF AddFile
<1>3. CASE ~NeedsBlock(item)
  <2>1. Len(blocks) # 0 /\ pos + ItemSize(item) + Slack < AllocSize
    <3>1. blocks # <<>> /\ ~(pos + ItemSize(item) + Slack >= AllocSize)
      BY <1>3 DEF NeedsBlock
    <3>2. Len(blocks) # 0
      BY <3>1 DEF StoreInv, Types
    <3> QED
      BY <1>1, <3>1, <3>2
  <2> QED
    BY <1>1, <1>3, <2>1, AddToLast DEF AddFile
<1> QED
  BY <1>2, <1>3

(* Items that were there stay where they are, and so does what comes after *)
(* them; the list is one longer.                                           *)
LEMMA Kept ==
  ASSUME NEW S, Fitting(S), StoreInv(S), NEW item \in S, NEW nb \in Nat, NEW np \in Nat,
         Added(S, item, nb, np), Keeps(nb, np)
  PROVE  /\ log' \in Seq(Places) /\ Len(log') = Len(log) + 1
         /\ log'[Len(log) + 1] = Place(nb, np) /\ EndOf(Place(nb, np))' = pos'
         /\ \A n \in 1 .. Len(log) :
              /\ log'[n] = log[n] /\ EndOf(log[n])' = EndOf(log[n])
              /\ ItemAt(log[n])' = ItemAt(log[n])
<1>1. log \in Seq(Places) /\ Place(nb, np) \in Places
  BY DEF StoreInv, Types, Places, Place
<1>2. log' = Append(log, Place(nb, np))
  BY DEF Added
<1>3. \A n \in 1 .. Len(log) : ItemAt(log[n])' = blocks[log[n].block][log[n].at]
  <2> SUFFICES ASSUME NEW n \in 1 .. Len(log)
               PROVE ItemAt(log[n])' = blocks[log[n].block][log[n].at]
    OBVIOUS
  <2>1. log'[n] = log[n]
    BY <1>1, <1>2
  <2>2. log[n].block \in 1 .. Len(blocks) /\ log[n].at \in DOMAIN blocks[log[n].block]
    BY DEF StoreInv, Logged, Present
  <2> QED
    BY <2>1, <2>2 DEF ItemAt, Keeps
<1>4. ItemAt(Place(nb, np))' = item
  BY DEF ItemAt, Place, Added
<1> QED
  BY <1>1, <1>2, <1>3, <1>4 DEF EndOf, ItemAt, Added, Place

-----------------------------------------------------------------------------
LEMMA InitStep == ASSUME NEW S, StoreInit PROVE StoreInv(S) /\ List!Init
<1>1. blocks = <<>> /\ log = <<>> /\ Len(blocks) = 0 /\ Len(log) = 0
  BY DEF StoreInit
<1>2. Types(S)
  <2>1. <<>> \in Seq(Block(S)) /\ <<>> \in Seq(Places) /\ <<>> \in Seq(S)
    OBVIOUS
  <2>2. /\ cursor = [r \in Readers |-> <<>>] /\ got = [r \in Readers |-> <<>>]
        /\ read = [r \in Readers |-> 0] /\ pos = 0 /\ count = 0 /\ ready = FALSE
    BY DEF StoreInit
  <2> QED
    BY <1>1, <2>1, <2>2 DEF Types
<1>3. StoreInv(S)
  BY <1>1, <1>2 DEF StoreInit, StoreInv, Logged, Chained, LastKnown, Fits, Standing
<1>4. Listed = <<>>
  BY <1>1 DEF Listed
<1> QED
  BY <1>3, <1>4 DEF StoreInit, List!Init

(* The parts that say where the items are.                                 *)
LEMMA AddPlaces ==
  ASSUME NEW S, Fitting(S), StoreInv(S), NEW item \in S, NEW nb \in Nat, NEW np \in Nat,
         Added(S, item, nb, np), Keeps(nb, np)
  PROVE  (/\ Len(log) + 1 = Len(log') /\ Len(log') > 0 /\ Len(blocks') > 0
          /\ \A n \in 1 .. Len(log') :
               /\ log'[n].block \in 1 .. Len(blocks')
               /\ log'[n].at \in DOMAIN blocks'[log'[n].block]
          /\ log'[1] = Place(1, BlockHead)) /\ Chained' /\ LastKnown'
<1> USE DEF Place
<1>1. /\ log \in Seq(Places) /\ Len(log) \in Nat /\ Len(blocks) \in Nat
      /\ pos \in Nat
  BY DEF StoreInv, Types
<1>2. /\ Len(log') = Len(log) + 1 /\ log'[Len(log) + 1] = Place(nb, np)
      /\ \A n \in 1 .. Len(log) : log'[n] = log[n] /\ EndOf(log[n])' = EndOf(log[n])
  BY Kept
<1>3. /\ nb = Len(blocks') /\ nb > 0
      /\ \/ nb = Len(blocks) /\ np = pos
         \/ nb = Len(blocks) + 1 /\ np = BlockHead
      /\ np \in DOMAIN blocks'[nb]
  BY DEF Added
<1>4. ASSUME NEW n \in 1 .. Len(log')
      PROVE log'[n].block \in 1 .. Len(blocks') /\ log'[n].at \in DOMAIN blocks'[log'[n].block]
  <2>1. CASE n = Len(log) + 1
    BY <1>2, <1>3, <2>1
  <2>2. CASE n \in 1 .. Len(log)
    <3>1. log'[n] = log[n] /\ log[n].block \in 1 .. Len(blocks) /\ log[n].at \in DOMAIN blocks[log[n].block]
      BY <1>2, <2>2 DEF StoreInv, Logged, Present
    <3>2. log[n].at \in DOMAIN blocks'[log[n].block]
      BY <3>1 DEF Keeps
    <3> QED
      BY <1>1, <1>3, <3>1, <3>2
  <2> QED
    BY <1>1, <1>2, <2>1, <2>2
<1>5. log'[1] = Place(1, BlockHead)
  <2>1. CASE Len(log) = 0
    BY <1>1, <1>2, <1>3, <2>1 DEF StoreInv, Logged
  <2>2. CASE Len(log) > 0
    BY <1>1, <1>2, <2>2 DEF StoreInv, Logged
  <2> QED
    BY <1>1, <2>1, <2>2
<1>6. Chained'
  <2> SUFFICES ASSUME NEW n \in 1 .. Len(log') - 1
               PROVE \/ log'[n + 1] = Place(log'[n].block, EndOf(log[n])')
                     \/ /\ log'[n + 1] = Place(log'[n].block + 1, BlockHead)
                        /\ EndOf(log[n])' \notin DOMAIN blocks'[log'[n].block]
    BY DEF Chained, Present
  <2>0. n \in 1 .. Len(log) /\ log'[n] = log[n] /\ EndOf(log[n])' = EndOf(log[n])
    BY <1>1, <1>2
  <2>1. CASE n = Len(log)
    <3>1. log[n].block = Len(blocks) /\ EndOf(log[n]) = pos
      BY <2>0, <2>1 DEF StoreInv, LastKnown
    <3>2. CASE nb = Len(blocks) /\ np = pos
      BY <1>2, <2>0, <2>1, <3>1, <3>2
    <3>3. CASE nb = Len(blocks) + 1 /\ np = BlockHead
      <4>1. Len(blocks) \in 1 .. Len(blocks)
        BY <2>0, <3>1 DEF StoreInv, Logged
      <4>2. pos \notin DOMAIN blocks[Len(blocks)]
        BY <1>1, <4>1, PresentFact DEF StoreInv, Fits
      <4>3. pos \notin DOMAIN blocks'[Len(blocks)]
        BY <1>1, <3>3, <4>1, <4>2 DEF Keeps
      <4> QED
        BY <1>2, <2>0, <2>1, <3>1, <3>3, <4>3
    <3> QED
      BY <1>3, <3>2, <3>3
  <2>2. CASE n \in 1 .. Len(log) - 1
    <3>1. log'[n + 1] = log[n + 1]
      BY <1>1, <1>2, <2>2
    <3>2. CASE log[n + 1] = Place(log[n].block, EndOf(log[n]))
      BY <2>0, <3>1, <3>2
    <3>3. CASE /\ log[n + 1] = Place(log[n].block + 1, BlockHead)
               /\ ~Present(log[n].block, EndOf(log[n]))
      <4>1. log[n].block \in 1 .. Len(blocks) /\ log[n + 1].block \in 1 .. Len(blocks)
        BY <1>1, <2>0, <2>2 DEF StoreInv, Logged
      <4>2. log[n].block \in 1 .. nb /\ log[n].block # nb
        BY <1>1, <1>3, <3>3, <4>1
      <4>3. EndOf(log[n]) \notin DOMAIN blocks'[log[n].block]
        BY <3>3, <4>2 DEF Keeps, Present
      <4> QED
        BY <2>0, <3>1, <3>3, <4>3
    <3> QED
      BY <2>2, <3>2, <3>3 DEF StoreInv, Chained
  <2> QED
    BY <1>1, <2>0, <2>1, <2>2
<1>7. LastKnown'
  BY <1>1, <1>2, <1>3, Kept DEF LastKnown, EndOf
<1> QED
  BY <1>1, <1>2, <1>3, <1>4, <1>5, <1>6, <1>7

LEMMA AddFits ==
  ASSUME NEW S, Fitting(S), StoreInv(S), NEW item \in S, NEW nb \in Nat, NEW np \in Nat,
         Added(S, item, nb, np), Keeps(nb, np)
  PROVE  Fits'
<1>1. Len(blocks) \in Nat /\ ItemSize(item) \in Nat /\ ItemSize(item) > 0
  BY SizeFact DEF StoreInv, Types
<1>2. /\ nb = Len(blocks') /\ pos' = np + ItemSize(item)
      /\ np + ItemSize(item) + Slack < AllocSize /\ blocks'[nb][np] = item
      /\ nb = Len(blocks) \/ nb = Len(blocks) + 1
  BY DEF Added
<1> SUFFICES ASSUME NEW b \in 1 .. nb, NEW p \in DOMAIN blocks'[b]
             PROVE /\ p + ItemSize(blocks'[b][p]) + Slack < AllocSize
                   /\ b = nb => p + ItemSize(blocks'[b][p]) <= pos'
                   /\ \A q \in DOMAIN blocks'[b] : q > p => q >= p + ItemSize(blocks'[b][p])
  BY <1>2 DEF Fits, ItemSize
<1>3. CASE b = nb /\ p = np
  <2>1. ASSUME NEW q \in DOMAIN blocks'[b], q > p, b <= Len(blocks), q \in DOMAIN blocks[b] PROVE FALSE
    <3>1. b \in 1 .. Len(blocks) /\ q + ItemSize(blocks[b][q]) <= np
      BY <1>1, <1>3, <2>1 DEF Keeps
    <3> QED
      BY <1>3, <2>1, <3>1, PresentFact DEF StoreInv
  <2>2. \A q \in DOMAIN blocks'[b] : q > p => q = np
    BY <2>1 DEF Keeps
  <2> QED
    BY <1>1, <1>2, <1>3, <2>2
<1>4. CASE b <= Len(blocks) /\ p \in DOMAIN blocks[b]
  <2>1. b \in 1 .. Len(blocks)
    BY <1>1, <1>4
  <2>2. /\ blocks'[b][p] = blocks[b][p] /\ p \in Nat /\ ItemSize(blocks[b][p]) \in Nat
        /\ b = nb => p + ItemSize(blocks[b][p]) <= np
    BY <1>4, <2>1, PresentFact DEF Keeps, StoreInv
  <2>3. p + ItemSize(blocks[b][p]) + Slack < AllocSize
    BY <1>4, <2>1 DEF StoreInv, Fits
  <2>4. ASSUME NEW q \in DOMAIN blocks'[b], q > p PROVE q >= p + ItemSize(blocks[b][p])
    <3>1. CASE q \in DOMAIN blocks[b]
      BY <1>4, <2>1, <2>4, <3>1 DEF StoreInv, Fits
    <3>2. CASE b = nb /\ q = np
      BY <2>2, <3>2
    <3> QED
      BY <2>4, <3>1, <3>2 DEF Keeps
  <2> QED
    BY <1>1, <1>2, <2>2, <2>3, <2>4
<1> QED
  BY <1>3, <1>4 DEF Keeps

LEMMA AppendIsLonger ==
  ASSUME NEW S, NEW s \in Seq(S), NEW e \in S
  PROVE  Len(Append(s, e)) = Len(s) + 1 /\ SubSeq(Append(s, e), 1, Len(s)) = s
<1>1. Len(s) \in Nat /\ Append(s, e) \in Seq(S) /\ Len(Append(s, e)) = Len(s) + 1
      /\ \A i \in 1 .. Len(s) : Append(s, e)[i] = s[i]
  OBVIOUS
<1> DEFINE t == SubSeq(Append(s, e), 1, Len(s))
<1>2. t \in Seq(S) /\ Len(t) = Len(s) /\ \A i \in 1 .. Len(s) : t[i] = s[i]
  OBVIOUS
<1> QED
  BY <1>1, <1>2, SeqEqual

LEMMA AddStep ==
  ASSUME NEW S, Fitting(S), StoreInv(S), NEW item \in S, AddFile(item) PROVE StoreInv(S)' /\ List!Add
<1>1. PICK nb \in Nat, np \in Nat : Added(S, item, nb, np) /\ Keeps(nb, np)
  BY AddFact
<1>2. ~ready /\ count' = count + 1 /\ UNCHANGED <<ready, readVars>>
  BY DEF AddFile
<1>3. /\ log' \in Seq(Places) /\ Len(log') = Len(log) + 1 /\ Len(log) \in Nat
      /\ log'[Len(log) + 1] = Place(nb, np)
      /\ \A n \in 1 .. Len(log) : log'[n] = log[n] /\ ItemAt(log[n])' = ItemAt(log[n])
  <2>1. Len(log) \in Nat
    BY DEF StoreInv, Types
  <2> QED
    BY <1>1, <2>1, Kept
<1>4. Types(S)'
  BY <1>1, <1>2, <1>3, SizeFact DEF StoreInv, Types, Added, readVars
<1>5. Logged' /\ Chained' /\ LastKnown'
  BY <1>1, <1>2, <1>3, AddPlaces DEF StoreInv, Logged, Present
<1>6. Standing'
  BY <1>2, <1>3 DEF StoreInv, Standing, readVars, Types
<1>7. StoreInv(S)'
  BY <1>1, <1>4, <1>5, <1>6, AddFits DEF StoreInv
<1>8. blocks'[log'[Len(log) + 1].block][log'[Len(log) + 1].at] = item
  BY <1>1, <1>3 DEF Place, Added
<1>9. Listed' = Append(Listed, item)
  <2>1. /\ Listed' = [n \in 1 .. Len(log) + 1 |-> blocks'[log'[n].block][log'[n].at]]
        /\ Listed = [n \in 1 .. Len(log) |-> blocks[log[n].block][log[n].at]]
    BY <1>3 DEF Listed, ItemAt
  <2>2. \A n \in 1 .. Len(log) :
          blocks'[log'[n].block][log'[n].at] = blocks[log[n].block][log[n].at]
    BY <1>3 DEF ItemAt
  <2> QED
    BY <1>3, <1>8, <2>1, <2>2
<1>10. Len(Listed') = Len(Listed) + 1 /\ SubSeq(Listed', 1, Len(Listed)) = Listed
  <2>1. Listed \in Seq(S)
    <3>1. \A n \in 1 .. Len(log) : ItemAt(log[n]) \in S
      <4> SUFFICES ASSUME NEW n \in 1 .. Len(log) PROVE ItemAt(log[n]) \in S
        OBVIOUS
      <4>1. log[n].block \in 1 .. Len(blocks) /\ log[n].at \in DOMAIN blocks[log[n].block]
        BY DEF StoreInv, Logged, Present
      <4>2. Types(S)
        BY DEF StoreInv
      <4> QED
        BY <4>1, <4>2, PresentFact DEF ItemAt
    <3> QED
      BY <1>3, <3>1 DEF Listed
  <2> QED
    BY <1>9, <2>1, AppendIsLonger
<1> QED
  BY <1>2, <1>7, <1>10 DEF List!Add, readVars

LEMMA ClearStep == ASSUME NEW S, Fitting(S), StoreInv(S), Clear PROVE StoreInv(S)' /\ List!Clear
<1>1. /\ blocks' = <<>> /\ log' = <<>> /\ Len(blocks') = 0 /\ Len(log') = 0 /\ count' = 0
      /\ ~ready /\ UNCHANGED <<pos, ready, cursor, read, got>>
  BY DEF Clear, readVars
<1>2. <<>> \in Seq(Block(S)) /\ <<>> \in Seq(Places)
  OBVIOUS
<1>3. Types(S)'
  BY <1>1, <1>2 DEF StoreInv, Types
<1>4. Logged' /\ Chained' /\ LastKnown' /\ Fits'
  BY <1>1 DEF Logged, Chained, LastKnown, Fits
<1>5. Standing'
  BY <1>1 DEF StoreInv, Standing
<1>6. Listed' = <<>>
  BY <1>1 DEF Listed
<1> QED
  BY <1>1, <1>3, <1>4, <1>5, <1>6 DEF StoreInv, List!Clear

(* What does not touch the items keeps all that is said of them.           *)
LEMMA SameItems ==
  ASSUME NEW S, Fitting(S), StoreInv(S), UNCHANGED <<blocks, pos, count, log>>
  PROVE  Logged' /\ Chained' /\ LastKnown' /\ Fits' /\ Listed' = Listed
  BY DEF StoreInv, Logged, Chained, LastKnown, Fits, Listed, ItemAt, EndOf, Present

LEMMA PublishStep ==
  ASSUME NEW S, Fitting(S), StoreInv(S), Publish
  PROVE  StoreInv(S)' /\ List!Publish
<1>1. UNCHANGED <<blocks, pos, count, log, cursor, read, got>> /\ ~ready /\ ready' = TRUE
  BY DEF Publish, readVars
<1>2. Types(S)' /\ Standing'
  BY <1>1 DEF StoreInv, Types, Standing
<1> QED
  BY <1>1, <1>2, SameItems DEF StoreInv, List!Publish

LEMMA ResetStep ==
  ASSUME NEW S, Fitting(S), StoreInv(S), NEW r \in Readers, Reset(r)
  PROVE  StoreInv(S)' /\ List!Reset(r)
<1>1. /\ UNCHANGED <<blocks, pos, count, log, ready, got>> /\ ready
      /\ cursor' = [cursor EXCEPT ![r] = <<>>] /\ read' = [read EXCEPT ![r] = 0]
  BY DEF Reset
<1>2. <<>> \in Seq(Places)
  OBVIOUS
<1>3. Types(S)'
  BY <1>1, <1>2 DEF StoreInv, Types
<1>4. Standing'
  BY <1>1 DEF StoreInv, Types, Standing
<1> QED
  BY <1>1, <1>3, <1>4, SameItems DEF StoreInv, List!Reset

(* The place get_next_file gives is that of the next item of the history.  *)
LEMMA GiveStep ==
  ASSUME NEW S, Fitting(S), StoreInv(S), NEW r \in Readers, read[r] < Len(log), ready,
         Give(r, log[read[r] + 1]), UNCHANGED <<blocks, pos, count, ready, log>>
  PROVE  StoreInv(S)' /\ List!Get(r)
<1> DEFINE n == read[r] + 1
<1>1. /\ read \in [Readers -> Nat] /\ cursor \in [Readers -> Seq(Places)]
      /\ got \in [Readers -> Seq(S)] /\ log \in Seq(Places) /\ Len(log) \in Nat
  BY DEF StoreInv, Types
<1>2. n \in 1 .. Len(log)
  BY <1>1
<1>3. log[n] \in Places /\ ItemAt(log[n]) \in S
  BY <1>1, <1>2, PresentFact DEF StoreInv, Logged, Present, ItemAt
<1>4. /\ cursor' = [cursor EXCEPT ![r] = <<log[n]>>]
      /\ got' = [got EXCEPT ![r] = <<ItemAt(log[n])>>]
      /\ read' = [read EXCEPT ![r] = n]
  BY <1>1 DEF Give
<1>5. <<log[n]>> \in Seq(Places) /\ <<ItemAt(log[n])>> \in Seq(S) /\ n \in Nat
  BY <1>2, <1>3
<1> HIDE DEF n
<1>6. Types(S)'
  BY <1>4, <1>5 DEF StoreInv, Types
<1>7. Standing'
  BY <1>1, <1>2, <1>4 DEF StoreInv, Standing
<1>8. Len(Listed) = Len(log) /\ Listed[n] = ItemAt(log[n])
  BY <1>1, <1>2 DEF Listed
<1> QED
  BY <1>4, <1>6, <1>7, <1>8, SameItems DEF StoreInv, List!Get, n

LEMMA NothingStep ==
  ASSUME NEW S, Fitting(S), StoreInv(S), NEW r \in Readers, read[r] = Len(log), ready,
         GiveNothing(r), UNCHANGED <<blocks, pos, count, ready, log>>
  PROVE  StoreInv(S)' /\ List!Get(r)
<1>1. got' = [got EXCEPT ![r] = <<>>] /\ UNCHANGED <<cursor, read>>
  BY DEF GiveNothing
<1>2. <<>> \in Seq(S)
  OBVIOUS
<1>3. Types(S)' /\ Standing'
  BY <1>1, <1>2 DEF StoreInv, Types, Standing
<1>4. Len(Listed) = Len(log)
  BY DEF Listed, StoreInv, Types
<1>5. Logged' /\ Chained' /\ LastKnown' /\ Fits' /\ Listed' = Listed
  BY SameItems
<1>6. StoreInv(S)'
  BY <1>3, <1>5 DEF StoreInv
<1>7. List!Get(r)
  BY <1>1, <1>4, <1>5 DEF List!Get, StoreInv, Types
<1> QED
  BY <1>6, <1>7

LEMMA GetStep ==
  ASSUME NEW S, Fitting(S), StoreInv(S), NEW r \in Readers, GetNext(r)
  PROVE  StoreInv(S)' /\ List!Get(r)
<1> DEFINE n == read[r]
<1> USE DEF Place
<1>1. /\ n \in Nat /\ Len(log) \in Nat /\ Len(blocks) \in Nat /\ log \in Seq(Places)
      /\ n <= Len(log) /\ count = Len(log) /\ (Len(log) = 0 <=> blocks = <<>>)
      /\ ready /\ UNCHANGED <<blocks, pos, count, ready, log>>
  BY DEF StoreInv, Types, Standing, Logged, GetNext
<1>2. CASE Len(log) = 0
  BY <1>1, <1>2, NothingStep DEF GetNext
<1>3. CASE Len(log) > 0 /\ n = 0
  <2>1. log[1] = Place(1, BlockHead) /\ Present(1, BlockHead) /\ cursor[r] = <<>>
    BY <1>1, <1>3 DEF StoreInv, Logged, Standing
  <2>2. Give(r, log[1])
    BY <1>1, <1>3, <2>1 DEF GetNext, GiveIfPresent
  <2> QED
    BY <1>1, <1>3, <2>2, GiveStep
<1>4. CASE Len(log) > 0 /\ n > 0
  <2> DEFINE b == log[n].block  p == EndOf(log[n])
  <2>1. cursor[r] = <<log[n]>> /\ n \in 1 .. Len(log)
    BY <1>1, <1>4 DEF StoreInv, Standing
  <2>2. b \in 1 .. Len(blocks) /\ log[n].at \in DOMAIN blocks[b] /\ p \in Nat
    BY <2>1, PresentFact DEF StoreInv, Logged, Present, EndOf, ItemAt
  <2>3. p < AllocSize /\ AllocSize \in Nat
    <3>1. p + Slack < AllocSize
      BY <2>2 DEF StoreInv, Fits, EndOf, ItemAt
    <3> QED
      BY <2>2, <3>1, StoreAssumption
  <2>4. IF Present(b, p) THEN Give(r, Place(b, p))
        ELSE IF b < Len(blocks) THEN GiveIfPresent(r, b + 1, BlockHead)
        ELSE GiveNothing(r)
    <3>1. blocks # <<>> /\ count # 0 /\ cursor[r] # <<>> /\ cursor[r][1] = log[n]
      BY <1>1, <1>4, <2>1
    <3> QED
      BY <2>2, <2>3, <3>1 DEF GetNext
  <2>5. CASE n < Len(log)
    <3>1. log[n + 1].block \in 1 .. Len(blocks) /\ Present(log[n + 1].block, log[n + 1].at)
      BY <1>1, <1>4, <2>5 DEF StoreInv, Logged
    <3>2. \/ log[n + 1] = Place(b, p)
          \/ log[n + 1] = Place(b + 1, BlockHead) /\ ~Present(b, p)
      BY <1>1, <1>4, <2>5 DEF StoreInv, Chained
    <3>3. Give(r, log[n + 1])
      BY <1>1, <2>2, <2>4, <3>1, <3>2 DEF GiveIfPresent
    <3> QED
      BY <1>1, <2>5, <3>3, GiveStep
  <2>6. CASE n = Len(log)
    <3>1. b = Len(blocks) /\ p = pos
      BY <1>4, <2>6 DEF StoreInv, LastKnown
    <3>2. ~Present(b, p)
      BY <2>2, <3>1, PresentFact DEF StoreInv, Fits, Present
    <3>3. GiveNothing(r)
      BY <1>1, <2>4, <3>1, <3>2
    <3> QED
      BY <1>1, <2>6, <3>3, NothingStep
  <2> QED
    BY <1>1, <2>5, <2>6
<1> QED
  BY <1>1, <1>2, <1>3, <1>4

(* A step of the store when the items are those of S.                      *)
StepOn(S) ==
  \/ \E item \in S : AddFile(item) \/ AddFails(item)
  \/ Clear \/ Publish
  \/ \E r \in Readers : GetNext(r) \/ Reset(r)

LEMMA StepFact ==
  ASSUME NEW S, Fitting(S), StoreInv(S), [StepOn(S)]_storeVars
  PROVE  StoreInv(S)' /\ [List!Next]_(List!listVars)
<1>1. ASSUME UNCHANGED storeVars PROVE StoreInv(S)' /\ UNCHANGED List!listVars
  <2>1. UNCHANGED <<blocks, pos, count, log, ready, cursor, read, got>>
    BY <1>1 DEF storeVars
  <2>2. Types(S)' /\ Standing'
    BY <2>1 DEF StoreInv, Types, Standing
  <2> QED
    BY <2>1, <2>2, SameItems DEF StoreInv, List!listVars
<1>2. ASSUME NEW item \in S, AddFile(item) \/ AddFails(item)
      PROVE StoreInv(S)' /\ [List!Next]_(List!listVars)
  BY <1>1, <1>2, AddStep DEF AddFails, List!Next
<1>3. CASE Clear \/ Publish
  BY <1>3, ClearStep, PublishStep DEF List!Next
<1>4. ASSUME NEW r \in Readers, GetNext(r) \/ Reset(r)
      PROVE StoreInv(S)' /\ [List!Next]_(List!listVars)
  BY <1>4, GetStep, ResetStep DEF List!Next
<1> QED
  BY <1>1, <1>2, <1>3, <1>4 DEF StepOn

(* No item leaves its block or reaches into another, whatever the sizes.   *)
LEMMA InvKeepsBlocks == ASSUME NEW S, Fitting(S), StoreInv(S) PROVE NoOverrun
<1> SUFFICES ASSUME NEW b \in 1 .. Len(blocks), NEW p \in DOMAIN blocks[b]
             PROVE /\ p + ItemSize(blocks[b][p]) + SizeField <= AllocSize
                   /\ \A q \in DOMAIN blocks[b] : q > p => q >= p + ItemSize(blocks[b][p])
  BY DEF NoOverrun
<1> QED
  BY PresentFact, StoreAssumption DEF StoreInv, Fits

LEMMA ItemsFit == Fitting(Items) /\ StepOn(Items) = StoreNext
  BY StoreAssumption DEF Fitting, StepOn, StoreNext

LEMMA ItemsStep ==
  StoreInv(Items) /\ [StoreNext]_storeVars => StoreInv(Items)' /\ [List!Next]_(List!listVars)
<1> SUFFICES ASSUME StoreInv(Items), [StoreNext]_storeVars
             PROVE StoreInv(Items)' /\ [List!Next]_(List!listVars)
  OBVIOUS
<1>1. [StepOn(Items)]_storeVars
  BY DEF StepOn, StoreNext
<1> QED
  BY <1>1, ItemsFit, StepFact

-----------------------------------------------------------------------------
(* The invariant holds in every behaviour.                                 *)
THEOREM StoreInvariance == StoreSpec => []StoreInv(Items)
<1>1. StoreInit => StoreInv(Items)
  BY InitStep
<1> QED
  BY <1>1, ItemsStep, PTL DEF StoreSpec

(* No item leaves its block or reaches into another, whatever the sizes.   *)
THEOREM ItemsStayInBlocks == StoreSpec => []NoOverrun
<1>1. StoreInv(Items) => NoOverrun
  BY ItemsFit, InvKeepsBlocks
<1> QED
  BY <1>1, StoreInvariance, PTL

(* The blocks implement the list.                                          *)
THEOREM StoreIsList == StoreSpec => IsItemList
<1>1. StoreInit => List!Init
  BY InitStep
<1> QED
  BY <1>1, ItemsStep, StoreInvariance, PTL DEF StoreSpec, IsItemList, List!Spec

=============================================================================
