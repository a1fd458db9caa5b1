-------------------------------- MODULE BwosProofs --------------------------------
(***************************************************************************)
(* Theorems about Bwos: the block queue loses and duplicates nothing, it   *)
(* implements StealQueue, and it refuses a push only when it is full, for  *)
(* any number of thieves, blocks, slots, generations and pushes.           *)
(***************************************************************************)
EXTENDS Bwos, FiniteSetTheorems, TLAPS

(* The parts of the inductive invariant.                                   *)
BlockIds == 0 .. (BwBlocks - 1)
Slots == 0 .. (BwSize - 1)
Values == 0 .. BwMaxPush
Positions == Nat \X (0 .. BwSize)
Block == [head : Positions, tail : 0 .. BwSize, stealTail : Positions, count : Nat,
          ring : [Slots -> Values]]
OwnerPC == {"idle", "put", "publish", "grant", "reclaim", "close", "recount", "forward",
            "get", "takeover", "back"}
ThiefPC == {"idle", "look", "tail", "cas", "read", "count", "next"}
BlocksTyped == bwBlock \in [BlockIds -> Block]
ThiefTyped ==
  bwThief \in [BwThieves -> [pc : ThiefPC, seq : Nat, spos : Positions, value : Values]]
BooksTyped ==
  /\ bwLast \in Nat /\ bwStart \in Nat
  /\ bwOwner \in [pc : OwnerPC, value : Values, got : Int]
  /\ bwPushed \in Values
  /\ bwRefused \in SUBSET (1 .. bwPushed)
  /\ bwOut \in [Values -> Nat]
BwTypes == BlocksTyped /\ ThiefTyped /\ BooksTyped

(* The owner's stations: on its block, on its way to the next block, with  *)
(* the next one half reset, and on its way back.                           *)
AtHome  == {"idle", "put", "publish", "grant", "get"}
Leaving == {"grant", "reclaim", "close", "recount", "forward"}
Half    == {"close", "recount"}
Going   == {"takeover", "back"}
Pushing == {"put", "publish", "grant", "reclaim", "close", "recount", "forward"}
Popping == {"get", "takeover", "back"}

Window == bwStart .. (bwStart + BwBlocks - 1)
Bounds ==
  /\ bwStart <= bwLast /\ bwLast < bwStart + BwBlocks
  /\ BwGen(bwLast) <= BwMaxGen
  /\ bwOwner.pc \in Leaving => bwLast + 1 < bwStart + BwBlocks /\ BwGen(bwLast + 1) <= BwMaxGen
  /\ bwOwner.pc \in Going => bwStart < bwLast

(* Whose the block of a sequence number is.                                *)
Owned(s)   == \/ s = bwLast /\ bwOwner.pc \in AtHome
              \/ s = bwLast + 1 /\ bwOwner.pc = "forward"
              \/ s = bwLast - 1 /\ bwOwner.pc = "back"
Granted(s) == \/ s < bwLast /\ ~(s = bwLast - 1 /\ bwOwner.pc = "back")
              \/ s = bwLast /\ bwOwner.pc \in {"reclaim", "close", "recount", "forward"}
Halved(s)  == s = bwLast + 1 /\ bwOwner.pc \in Half
Free(s)    == \/ s > bwLast /\ ~(s = bwLast + 1 /\ bwOwner.pc \in {"close", "recount", "forward"})
              \/ s = bwLast /\ bwOwner.pc \in Going

(* What the ends of such a block look like.                                *)
OwnedShape(s, b) ==
  /\ b.head[1] = BwGen(s) /\ b.stealTail = <<BwGen(s), BwSize>>
  /\ b.head[2] <= b.tail
GrantedShape(s, b) ==
  /\ b.head = <<BwGen(s), BwSize>> /\ b.stealTail[1] = BwGen(s)
  /\ b.tail = BwSize
HalvedShape(s, b, pc) ==
  /\ b.head = <<BwGen(s), 0>> /\ b.tail = 0 /\ b.stealTail[2] = BwSize
  /\ pc = "recount" => b.stealTail[1] = BwGen(s)
FreeShape(s, b) ==
  /\ b.stealTail = <<BwPrevGen(BwGen(s)), BwSize>>
  /\ b.tail <= b.head[2]
Shape(s) ==
  /\ Owned(s) => OwnedShape(s, bwBlock[BwIndex(s)])
  /\ Granted(s) => GrantedShape(s, bwBlock[BwIndex(s)])
  /\ Halved(s) => HalvedShape(s, bwBlock[BwIndex(s)], bwOwner.pc)
  /\ Free(s) => FreeShape(s, bwBlock[BwIndex(s)])
Shapes ==
  /\ \A s \in Window : Shape(s)
  /\ bwOwner.pc = "publish" => bwBlock[BwHere].tail < BwSize
  /\ bwOwner.pc = "grant" => bwBlock[BwHere].tail = BwSize

(* Where the live values of a block begin, which is also how many of its   *)
(* slots thieves have claimed.                                             *)
Low(b) == IF b.head[2] < b.stealTail[2] THEN b.head[2] ELSE b.stealTail[2]
LiveSlot(b, i) == Low(b) <= i /\ i < b.tail

(* A thief that has claimed a slot and not yet counted itself.             *)
Holds(thieves, t) == thieves[t].pc \in {"read", "count"}
PreyOf(thieves, t) == BwIndex(thieves[t].seq)
Holders(thieves, x) == {t \in BwThieves : Holds(thieves, t) /\ PreyOf(thieves, t) = x}
Aims ==
  \A t \in BwThieves : bwThief[t].pc \in {"tail", "cas"} => bwThief[t].spos[2] < BwSize
Claims ==
  /\ \A t \in BwThieves :
       Holds(bwThief, t) => bwThief[t].spos[2] < Low(bwBlock[PreyOf(bwThief, t)])
  /\ \A t, u \in BwThieves :
       (/\ Holds(bwThief, t) /\ Holds(bwThief, u)
        /\ PreyOf(bwThief, t) = PreyOf(bwThief, u) /\ bwThief[t].spos[2] = bwThief[u].spos[2])
       => t = u
(* Every claim is counted or still held, but for the block half reset.     *)
Counted ==
  \A x \in BlockIds :
    ~(x = BwNextIx /\ bwOwner.pc \in Half) =>
      bwBlock[x].count + Cardinality(Holders(bwThief, x)) = Low(bwBlock[x])

(* What a thief has claimed, before and after it has read the slot.        *)
Prize(blocks, thieves, t) ==
  IF thieves[t].pc = "read" THEN blocks[PreyOf(thieves, t)].ring[thieves[t].spos[2]]
                            ELSE thieves[t].value
InHand(v) == bwOwner.pc \in Pushing /\ v = bwOwner.value
InSlot(blocks, v) ==
  \E x \in BlockIds : \E i \in Slots : LiveSlot(blocks[x], i) /\ blocks[x].ring[i] = v
InClaim(blocks, thieves, v) ==
  \E t \in BwThieves : Holds(thieves, t) /\ Prize(blocks, thieves, t) = v

Hand ==
  /\ bwOwner.pc \in Pushing => bwOwner.value = bwPushed /\ bwPushed > 0
  /\ bwOwner.pc = "publish" => bwBlock[BwHere].ring[bwBlock[BwHere].tail] = bwOwner.value
  /\ bwOwner.pc \in Popping => bwOwner.got = -1
(* A value pushed is in one place.                                         *)
Somewhere ==
  \A v \in 1 .. bwPushed :
    InSlot(bwBlock, v) \/ InClaim(bwBlock, bwThief, v) \/ bwOut[v] > 0 \/ v \in bwRefused \/ InHand(v)
Nowhere ==
  \A v \in Values :
    /\ bwOut[v] <= 1
    /\ InSlot(bwBlock, v) \/ InClaim(bwBlock, bwThief, v) \/ bwOut[v] > 0 => v \in 1 .. bwPushed
    /\ InSlot(bwBlock, v) => ~InClaim(bwBlock, bwThief, v)
    /\ InSlot(bwBlock, v) \/ InClaim(bwBlock, bwThief, v) => bwOut[v] = 0
    /\ InSlot(bwBlock, v) \/ InClaim(bwBlock, bwThief, v) \/ bwOut[v] > 0 => v \notin bwRefused
    /\ InSlot(bwBlock, v) \/ InClaim(bwBlock, bwThief, v) \/ bwOut[v] > 0 \/ v \in bwRefused
         => ~InHand(v)
Single ==
  \A t, u \in BwThieves :
    (/\ Holds(bwThief, t) /\ Holds(bwThief, u)
     /\ Prize(bwBlock, bwThief, t) = Prize(bwBlock, bwThief, u)) => t = u

(* Live values rise from block to block and from slot to slot.             *)
Before(s, i, u, j) == s < u \/ (s = u /\ i < j)
Order ==
  \A s, u \in Window : \A i, j \in Slots :
    (/\ LiveSlot(bwBlock[BwIndex(s)], i) /\ LiveSlot(bwBlock[BwIndex(u)], j)
     /\ Before(s, i, u, j))
    => bwBlock[BwIndex(s)].ring[i] < bwBlock[BwIndex(u)].ring[j]

Places == Somewhere /\ Nowhere /\ Single
BwForm == BwTypes /\ Bounds /\ Shapes /\ Aims /\ Claims /\ Counted
BwInv == BwForm /\ Hand /\ Places /\ Order

-----------------------------------------------------------------------------
(* The remainder is what is left after taking out a multiple.              *)
LEMMA DivModIs ==
  ASSUME NEW n \in Nat, n > 0, NEW q \in Int, NEW r \in 0 .. (n - 1), NEW g \in Int,
         g = n * q + r
  PROVE  (g % n) = r /\ (g \div n) = q
  <1> DEFINE d == g \div n
             m == g % n
  <1>1. d \in Int /\ m \in 0 .. (n - 1) /\ g = n * d + m
    BY SMT
  <1> HIDE DEF d, m
  <1>2. CASE q > d
    <2>1. PICK x \in Nat : q = d + 1 + x
      <3>1. q - d - 1 \in Nat /\ q = d + 1 + (q - d - 1)
        BY <1>1, <1>2
      <3>2. QED
        BY <3>1
    <2>2. n * q = n * d + n + n * x /\ n * x >= 0
      BY <1>1, <2>1
    <2>3. QED
      BY <1>1, <2>2
  <1>3. CASE d > q
    <2>1. PICK x \in Nat : d = q + 1 + x
      <3>1. d - q - 1 \in Nat /\ d = q + 1 + (d - q - 1)
        BY <1>1, <1>3
      <3>2. QED
        BY <3>1
    <2>2. n * d = n * q + n + n * x /\ n * x >= 0
      BY <1>1, <2>1
    <2>3. QED
      BY <1>1, <2>2
  <1>4. CASE d = q
    BY <1>1, <1>4 DEF m, d
  <1>5. QED
    BY <1>1, <1>2, <1>3, <1>4

(* A sequence number is a generation and a block.                          *)
LEMMA SeqParts ==
  ASSUME NEW s \in Nat
  PROVE  BwIndex(s) \in BlockIds /\ BwGen(s) \in Nat /\ s = BwBlocks * BwGen(s) + BwIndex(s)
  BY BwAssumption, SMT DEF BwIndex, BwGen, BlockIds

(* One round later the same block is back, one generation on.              *)
LEMMA NextRound ==
  ASSUME NEW s \in Nat
  PROVE  BwIndex(s + BwBlocks) = BwIndex(s) /\ BwGen(s + BwBlocks) = BwGen(s) + 1
  <1>1. PICK q, r : q = BwGen(s) /\ r = BwIndex(s)
    OBVIOUS
  <1>2. q \in Nat /\ r \in 0 .. (BwBlocks - 1) /\ s = BwBlocks * q + r
    BY <1>1, SeqParts DEF BlockIds
  <1>3. s + BwBlocks = BwBlocks * (q + 1) + r
    BY <1>2, BwAssumption, SMT
  <1>4. BwBlocks \in Nat /\ BwBlocks > 0 /\ q + 1 \in Int /\ s + BwBlocks \in Int
    BY <1>2, BwAssumption
  <1>5. ((s + BwBlocks) % BwBlocks) = r /\ ((s + BwBlocks) \div BwBlocks) = q + 1
    BY <1>2, <1>3, <1>4, DivModIs
  <1>6. QED
    BY <1>1, <1>5 DEF BwIndex, BwGen

(* Within one round no two sequence numbers share a block.                 *)
LEMMA Apart ==
  ASSUME NEW s \in Nat, NEW u \in Nat, s < u, u < s + BwBlocks
  PROVE  BwIndex(s) # BwIndex(u)
  <1> SUFFICES ASSUME BwIndex(s) = BwIndex(u)
               PROVE  FALSE
    OBVIOUS
  <1>1. PICK q, p, r : q = BwGen(s) /\ p = BwGen(u) /\ r = BwIndex(s)
    OBVIOUS
  <1>2. /\ q \in Nat /\ p \in Nat /\ r \in 0 .. (BwBlocks - 1)
        /\ s = BwBlocks * q + r /\ u = BwBlocks * p + r
    BY <1>1, SeqParts DEF BlockIds
  <1>3. BwBlocks * (p - q) = u - s /\ BwBlocks \in Nat /\ BwBlocks > 0
    BY <1>2, BwAssumption, SMT
  <1>4. CASE p <= q
    <2>1. BwBlocks * (p - q) <= 0
      BY <1>2, <1>3, <1>4, SMT
    <2>2. QED
      BY <2>1, <1>3
  <1>5. CASE p > q
    <2>1. PICK x \in Nat : p - q = 1 + x
      <3>1. p - q - 1 \in Nat /\ p - q = 1 + (p - q - 1)
        BY <1>2, <1>5
      <3>2. QED
        BY <3>1
    <2>2. BwBlocks * (p - q) = BwBlocks + BwBlocks * x /\ BwBlocks * x >= 0
      BY <2>1, <1>3, SMT
    <2>3. QED
      BY <2>2, <1>3
  <1>6. QED
    BY <1>2, <1>4, <1>5

(* A round meets every block.                                              *)
LEMMA Covered ==
  ASSUME NEW a \in Nat, NEW x \in BlockIds
  PROVE  \E s \in a .. (a + BwBlocks - 1) : BwIndex(s) = x
  <1>1. PICK q, r : q = BwGen(a) /\ r = BwIndex(a)
    OBVIOUS
  <1>2. q \in Nat /\ r \in 0 .. (BwBlocks - 1) /\ a = BwBlocks * q + r
    BY <1>1, SeqParts DEF BlockIds
  <1>3. x \in 0 .. (BwBlocks - 1) /\ BwBlocks \in Nat /\ BwBlocks > 0
    BY BwAssumption DEF BlockIds
  <1>4. CASE x >= r
    <2>1. PICK s \in a .. (a + BwBlocks - 1) : s = a + (x - r)
      BY <1>2, <1>3, <1>4
    <2>2. s \in Int /\ s = BwBlocks * q + x /\ q \in Int
      BY <1>2, <1>3, <2>1
    <2>3. (s % BwBlocks) = x
      BY <1>3, <2>2, DivModIs
    <2>4. QED
      BY <2>3 DEF BwIndex
  <1>5. CASE x < r
    <2>1. PICK s \in a .. (a + BwBlocks - 1) : s = a + BwBlocks + x - r
      BY <1>2, <1>3, <1>5
    <2>2. s \in Int /\ s = BwBlocks * (q + 1) + x /\ q + 1 \in Int
      BY <1>2, <1>3, <2>1, SMT
    <2>3. (s % BwBlocks) = x
      BY <1>3, <2>2, DivModIs
    <2>4. QED
      BY <2>3 DEF BwIndex
  <1>6. QED
    BY <1>2, <1>3, <1>4, <1>5

(* Generations do not fall as sequence numbers rise.                       *)
LEMMA GenRises ==
  ASSUME NEW s \in Nat, NEW u \in Nat, s <= u
  PROVE  BwGen(s) <= BwGen(u)
  <1>1. PICK q, p, r, m : q = BwGen(s) /\ p = BwGen(u) /\ r = BwIndex(s) /\ m = BwIndex(u)
    OBVIOUS
  <1>2. /\ q \in Nat /\ p \in Nat /\ r \in 0 .. (BwBlocks - 1) /\ m \in 0 .. (BwBlocks - 1)
        /\ s = BwBlocks * q + r /\ u = BwBlocks * p + m
    BY <1>1, SeqParts DEF BlockIds
  <1>3. BwBlocks \in Nat /\ BwBlocks > 0
    BY BwAssumption
  <1>4. ASSUME p < q
        PROVE  FALSE
    <2>1. PICK x \in Nat : q = p + 1 + x
      <3>1. q - p - 1 \in Nat /\ q = p + 1 + (q - p - 1)
        BY <1>2, <1>4
      <3>2. QED
        BY <3>1
    <2>2. BwBlocks * q = BwBlocks * p + BwBlocks + BwBlocks * x /\ BwBlocks * x >= 0
      BY <1>2, <1>3, <2>1, SMT
    <2>3. QED
      BY <1>2, <1>3, <2>2
  <1>5. QED
    BY <1>1, <1>2, <1>4

(* Taking a generation back undoes taking it on, up to MAX_GENERATION.     *)
LEMMA PrevOfNext ==
  ASSUME NEW g \in 0 .. BwMaxGen
  PROVE  BwPrevGen(g + 1) = g
  <1>1. BwMaxGen + 1 \in Nat /\ BwMaxGen + 1 > 0 /\ g \in 0 .. ((BwMaxGen + 1) - 1) /\ g \in Int
    BY BwAssumption
  <1>2. g = (BwMaxGen + 1) * 0 + g
    BY <1>1
  <1>3. (g % (BwMaxGen + 1)) = g
    BY <1>1, <1>2, DivModIs
  <1>4. (g + 1) - 1 = g
    BY <1>1
  <1>5. QED
    BY <1>3, <1>4 DEF BwPrevGen

(* The generation before the first is the last one.                        *)
LEMMA PrevOfZero ==
  BwPrevGen(0) = BwMaxGen
  <1>1. /\ BwMaxGen + 1 \in Nat /\ BwMaxGen + 1 > 0 /\ BwMaxGen \in 0 .. ((BwMaxGen + 1) - 1)
        /\ -1 \in Int
    BY BwAssumption
  <1>2. -1 = (BwMaxGen + 1) * (-1) + BwMaxGen
    BY <1>1, BwAssumption
  <1>3. ((-1) % (BwMaxGen + 1)) = BwMaxGen
    BY <1>1, <1>2, DivModIs
  <1>4. 0 - 1 = -1
    OBVIOUS
  <1>5. QED
    BY <1>3, <1>4 DEF BwPrevGen

(* A generation taken back is a generation.                                *)
LEMMA PrevTyped ==
  ASSUME NEW g \in Nat
  PROVE  BwPrevGen(g) \in Nat
  BY BwAssumption, SMT DEF BwPrevGen

-----------------------------------------------------------------------------
(* What the steps do to the blocks: each changes one, and in it one field. *)

(* A block with some of its fields replaced is a block.                    *)
LEMMA BlockFields ==
  ASSUME NEW b \in Block
  PROVE  /\ b.head \in Positions /\ b.stealTail \in Positions /\ b.tail \in 0 .. BwSize
         /\ b.count \in Nat /\ b.ring \in [Slots -> Values]
         /\ b.head[1] \in Nat /\ b.head[2] \in 0 .. BwSize
         /\ b.stealTail[1] \in Nat /\ b.stealTail[2] \in 0 .. BwSize
         /\ b.head = <<b.head[1], b.head[2]>> /\ b.stealTail = <<b.stealTail[1], b.stealTail[2]>>
  BY DEF Block, Positions

(* A block is replaced in one place.                                       *)
OnlyAt(h) == \A x \in BlockIds : x # h => bwBlock'[x] = bwBlock[x]
Ends(b, c) == c.head = b.head /\ c.stealTail = b.stealTail

LEMMA PutEffect ==
  ASSUME BwTypes, BwPut
  PROVE  /\ bwOwner.pc = "put" /\ bwOwner'.pc = "publish"
         /\ bwOwner'.value = bwOwner.value /\ bwOwner'.got = bwOwner.got
         /\ BwHere \in BlockIds /\ bwBlock[BwHere].tail < BwSize /\ BwTypes'
         /\ OnlyAt(BwHere)
         /\ Ends(bwBlock[BwHere], bwBlock'[BwHere])
         /\ bwBlock'[BwHere].tail = bwBlock[BwHere].tail
         /\ bwBlock'[BwHere].count = bwBlock[BwHere].count
         /\ bwBlock'[BwHere].ring[bwBlock[BwHere].tail] = bwOwner.value
         /\ \A i \in Slots : i # bwBlock[BwHere].tail =>
              bwBlock'[BwHere].ring[i] = bwBlock[BwHere].ring[i]
  <1>1. PICK h : h = BwHere
    OBVIOUS
  <1>2. h \in BlockIds
    BY <1>1, SeqParts DEF BwHere, BwTypes, BooksTyped
  <1>3. PICK b : b = bwBlock[h]
    OBVIOUS
  <1>4. b \in Block
    BY <1>2, <1>3 DEF BwTypes, BlocksTyped
  <1>5. b.tail \in Slots /\ b.tail < BwSize
    BY <1>1, <1>3, <1>4, BlockFields, BwAssumption DEF BwPut, Slots
  <1>6. PICK c : c = [b EXCEPT !.ring[b.tail] = bwOwner.value]
    OBVIOUS
  <1>7. bwOwner.value \in Values
    BY DEF BwTypes, BooksTyped
  <1>8. /\ c \in Block /\ Ends(b, c) /\ c.tail = b.tail /\ c.count = b.count
        /\ c.ring[b.tail] = bwOwner.value
        /\ \A i \in Slots : i # b.tail => c.ring[i] = b.ring[i]
    BY <1>4, <1>5, <1>6, <1>7 DEF Block, Ends
  <1>9. bwBlock' = [bwBlock EXCEPT ![h] = c]
    BY <1>1, <1>3, <1>6 DEF BwPut
  <1>10. BlocksTyped' /\ OnlyAt(h) /\ bwBlock'[h] = c
    BY <1>2, <1>8, <1>9 DEF BwTypes, BlocksTyped, OnlyAt
  <1>11. /\ bwOwner.pc = "put" /\ bwOwner'.pc = "publish"
         /\ bwOwner'.value = bwOwner.value /\ bwOwner'.got = bwOwner.got
         /\ ThiefTyped' /\ BooksTyped'
    BY DEF BwPut, BwOwnerAt, BwOwnerTo, BwTypes, ThiefTyped, BooksTyped, OwnerPC
  <1>12. QED
    BY <1>1, <1>2, <1>3, <1>5, <1>8, <1>10, <1>11 DEF BwTypes

LEMMA PublishEffect ==
  ASSUME BwTypes, BwPublish, bwBlock[BwHere].tail < BwSize
  PROVE  /\ bwOwner.pc = "publish" /\ bwOwner'.pc = "idle" /\ bwOwner'.got = bwOwner.got
         /\ BwHere \in BlockIds /\ BwTypes'
         /\ OnlyAt(BwHere)
         /\ Ends(bwBlock[BwHere], bwBlock'[BwHere])
         /\ bwBlock'[BwHere].tail = bwBlock[BwHere].tail + 1
         /\ bwBlock'[BwHere].count = bwBlock[BwHere].count
         /\ bwBlock'[BwHere].ring = bwBlock[BwHere].ring
  <1>1. PICK h : h = BwHere
    OBVIOUS
  <1>2. h \in BlockIds
    BY <1>1, SeqParts DEF BwHere, BwTypes, BooksTyped
  <1>3. PICK b : b = bwBlock[h]
    OBVIOUS
  <1>4. b \in Block /\ b.tail < BwSize
    BY <1>1, <1>2, <1>3 DEF BwTypes, BlocksTyped
  <1>5. b.tail + 1 \in 0 .. BwSize
    BY <1>4, BlockFields, BwAssumption
  <1>6. PICK c : c = [b EXCEPT !.tail = b.tail + 1]
    OBVIOUS
  <1>7. c \in Block /\ Ends(b, c) /\ c.tail = b.tail + 1 /\ c.count = b.count /\ c.ring = b.ring
    BY <1>4, <1>5, <1>6 DEF Block, Ends
  <1>8. bwBlock' = [bwBlock EXCEPT ![h] = c]
    BY <1>1, <1>3, <1>6 DEF BwPublish
  <1>9. BlocksTyped' /\ OnlyAt(h) /\ bwBlock'[h] = c
    BY <1>2, <1>7, <1>8 DEF BwTypes, BlocksTyped, OnlyAt
  <1>10. /\ bwOwner.pc = "publish" /\ bwOwner'.pc = "idle" /\ bwOwner'.got = bwOwner.got
         /\ ThiefTyped' /\ BooksTyped'
    <2>1. 0 \in Values
      BY BwAssumption DEF Values
    <2>2. QED
      BY <2>1 DEF BwPublish, BwOwnerAt, BwTypes, ThiefTyped, BooksTyped, OwnerPC
  <1>11. QED
    BY <1>1, <1>2, <1>3, <1>7, <1>9, <1>10 DEF BwTypes

(* Trading the ends of a block.                                            *)
LEMMA SwapEffect ==
  ASSUME BwTypes, NEW h \in BlockIds, bwBlock' = [bwBlock EXCEPT ![h] = BwSwapEnds(@)]
  PROVE  /\ BlocksTyped' /\ OnlyAt(h)
         /\ bwBlock'[h].head = bwBlock[h].stealTail /\ bwBlock'[h].stealTail = bwBlock[h].head
         /\ bwBlock'[h].tail = bwBlock[h].tail /\ bwBlock'[h].count = bwBlock[h].count
         /\ bwBlock'[h].ring = bwBlock[h].ring
  <1>1. PICK b : b = bwBlock[h]
    OBVIOUS
  <1>2. b \in Block
    BY <1>1 DEF BwTypes, BlocksTyped
  <1>3. PICK c : c = BwSwapEnds(b)
    OBVIOUS
  <1>4. /\ c \in Block /\ c.head = b.stealTail /\ c.stealTail = b.head
        /\ c.tail = b.tail /\ c.count = b.count /\ c.ring = b.ring
    BY <1>2, <1>3 DEF Block, BwSwapEnds
  <1>5. BlocksTyped' /\ OnlyAt(h) /\ bwBlock'[h] = c
    BY <1>1, <1>3, <1>4 DEF BwTypes, BlocksTyped, OnlyAt
  <1>6. QED
    BY <1>1, <1>4, <1>5

LEMMA GrantEffect ==
  ASSUME BwTypes, BwGrant
  PROVE  /\ bwOwner.pc = "grant" /\ bwOwner'.pc = "reclaim"
         /\ bwOwner'.value = bwOwner.value /\ bwOwner'.got = bwOwner.got
         /\ BwHere \in BlockIds /\ BwTypes' /\ OnlyAt(BwHere)
         /\ bwBlock'[BwHere].head = bwBlock[BwHere].stealTail
         /\ bwBlock'[BwHere].stealTail = bwBlock[BwHere].head
         /\ bwBlock'[BwHere].tail = bwBlock[BwHere].tail
         /\ bwBlock'[BwHere].count = bwBlock[BwHere].count
         /\ bwBlock'[BwHere].ring = bwBlock[BwHere].ring
  <1>1. PICK h : h = BwHere
    OBVIOUS
  <1>2. h \in BlockIds
    BY <1>1, SeqParts DEF BwHere, BwTypes, BooksTyped
  <1>3. bwBlock' = [bwBlock EXCEPT ![h] = BwSwapEnds(@)]
    BY <1>1 DEF BwGrant
  <1>4. /\ bwOwner.pc = "grant" /\ bwOwner'.pc = "reclaim"
        /\ bwOwner'.value = bwOwner.value /\ bwOwner'.got = bwOwner.got
        /\ ThiefTyped' /\ BooksTyped'
    BY DEF BwGrant, BwOwnerAt, BwOwnerTo, BwTypes, ThiefTyped, BooksTyped, OwnerPC
  <1>5. QED
    BY <1>1, <1>2, <1>3, <1>4, SwapEffect DEF BwTypes

LEMMA TakeoverEffect ==
  ASSUME BwTypes, BwTakeover, bwLast > 0
  PROVE  /\ bwOwner.pc = "takeover" /\ bwOwner'.pc = "back"
         /\ bwOwner'.value = bwOwner.value /\ bwOwner'.got = bwOwner.got
         /\ BwIndex(bwLast - 1) \in BlockIds /\ BwTypes' /\ OnlyAt(BwIndex(bwLast - 1))
         /\ bwBlock'[BwIndex(bwLast - 1)].head = bwBlock[BwIndex(bwLast - 1)].stealTail
         /\ bwBlock'[BwIndex(bwLast - 1)].stealTail = bwBlock[BwIndex(bwLast - 1)].head
         /\ bwBlock'[BwIndex(bwLast - 1)].tail = bwBlock[BwIndex(bwLast - 1)].tail
         /\ bwBlock'[BwIndex(bwLast - 1)].count = bwBlock[BwIndex(bwLast - 1)].count
         /\ bwBlock'[BwIndex(bwLast - 1)].ring = bwBlock[BwIndex(bwLast - 1)].ring
  <1>1. PICK h : h = BwIndex(bwLast - 1)
    OBVIOUS
  <1>2. h \in BlockIds
    BY <1>1, SeqParts DEF BwTypes, BooksTyped
  <1>3. bwBlock' = [bwBlock EXCEPT ![h] = BwSwapEnds(@)]
    BY <1>1 DEF BwTakeover
  <1>4. /\ bwOwner.pc = "takeover" /\ bwOwner'.pc = "back"
        /\ bwOwner'.value = bwOwner.value /\ bwOwner'.got = bwOwner.got
        /\ ThiefTyped' /\ BooksTyped'
    BY DEF BwTakeover, BwOwnerAt, BwOwnerTo, BwTypes, ThiefTyped, BooksTyped, OwnerPC
  <1>5. QED
    BY <1>1, <1>2, <1>3, <1>4, SwapEffect DEF BwTypes

LEMMA ReclaimEffect ==
  ASSUME BwTypes, BwReclaim
  PROVE  /\ bwOwner.pc = "reclaim" /\ bwOwner'.pc = "close"
         /\ bwOwner'.value = bwOwner.value /\ bwOwner'.got = bwOwner.got
         /\ BwNextIx \in BlockIds /\ BwTypes' /\ OnlyAt(BwNextIx)
         /\ bwBlock[BwNextIx].count = bwBlock[BwNextIx].head[2]
         /\ bwBlock'[BwNextIx].head = <<BwNextGen, 0>>
         /\ bwBlock'[BwNextIx].tail = 0
         /\ bwBlock'[BwNextIx].stealTail = bwBlock[BwNextIx].stealTail
         /\ bwBlock'[BwNextIx].ring = bwBlock[BwNextIx].ring
  <1>1. PICK h, g : h = BwNextIx /\ g = BwNextGen
    OBVIOUS
  <1>2. h \in BlockIds /\ g \in Nat
    BY <1>1, SeqParts DEF BwNextIx, BwNextGen, BwTypes, BooksTyped
  <1>3. PICK b : b = bwBlock[h]
    OBVIOUS
  <1>4. b \in Block
    BY <1>1, <1>2, <1>3 DEF BwTypes, BlocksTyped
  <1>5. PICK c : c = [b EXCEPT !.head = <<g, 0>>, !.tail = 0]
    OBVIOUS
  <1>6. c \in Block /\ c.head = <<g, 0>> /\ c.tail = 0 /\ c.stealTail = b.stealTail /\ c.ring = b.ring
    <2>1. <<g, 0>> \in Positions /\ 0 \in 0 .. BwSize
      BY <1>2, BwAssumption DEF Positions
    <2>2. QED
      BY <2>1, <1>4, <1>5 DEF Block
  <1>7. bwBlock' = [bwBlock EXCEPT ![h] = c]
    <2>1. bwBlock' = [bwBlock EXCEPT ![h].head = <<g, 0>>, ![h].tail = 0]
      BY <1>1 DEF BwReclaim
    <2>2. QED
      BY <2>1, <1>2, <1>3, <1>4, <1>5 DEF BwTypes, BlocksTyped, Block
  <1>8. BlocksTyped' /\ OnlyAt(h) /\ bwBlock'[h] = c
    BY <1>2, <1>6, <1>7 DEF BwTypes, BlocksTyped, OnlyAt
  <1>9. /\ bwOwner.pc = "reclaim" /\ bwOwner'.pc = "close"
        /\ bwOwner'.value = bwOwner.value /\ bwOwner'.got = bwOwner.got
        /\ ThiefTyped' /\ BooksTyped'
    BY DEF BwReclaim, BwOwnerAt, BwOwnerTo, BwTypes, ThiefTyped, BooksTyped, OwnerPC
  <1>10. b.count = b.head[2]
    BY <1>1, <1>3 DEF BwReclaim, BwSettled
  <1>11. QED
    BY <1>1, <1>2, <1>3, <1>6, <1>8, <1>9, <1>10 DEF BwTypes

LEMMA CloseEffect ==
  ASSUME BwTypes, BwReclaimClose
  PROVE  /\ bwOwner.pc = "close" /\ bwOwner'.pc = "recount"
         /\ bwOwner'.value = bwOwner.value /\ bwOwner'.got = bwOwner.got
         /\ BwNextIx \in BlockIds /\ BwTypes' /\ OnlyAt(BwNextIx)
         /\ bwBlock'[BwNextIx].head = bwBlock[BwNextIx].head
         /\ bwBlock'[BwNextIx].tail = bwBlock[BwNextIx].tail
         /\ bwBlock'[BwNextIx].stealTail = <<BwNextGen, BwSize>>
         /\ bwBlock'[BwNextIx].ring = bwBlock[BwNextIx].ring
  <1>1. PICK h, g : h = BwNextIx /\ g = BwNextGen
    OBVIOUS
  <1>2. h \in BlockIds /\ g \in Nat
    BY <1>1, SeqParts DEF BwNextIx, BwNextGen, BwTypes, BooksTyped
  <1>3. PICK b : b = bwBlock[h]
    OBVIOUS
  <1>4. b \in Block
    BY <1>1, <1>2, <1>3 DEF BwTypes, BlocksTyped
  <1>5. PICK c : c = [b EXCEPT !.stealTail = <<g, BwSize>>]
    OBVIOUS
  <1>6. /\ c \in Block /\ c.head = b.head /\ c.tail = b.tail
        /\ c.stealTail = <<g, BwSize>> /\ c.ring = b.ring
    BY <1>2, <1>4, <1>5, BwAssumption DEF Block, Positions
  <1>7. bwBlock' = [bwBlock EXCEPT ![h] = c]
    BY <1>1, <1>3, <1>5 DEF BwReclaimClose
  <1>8. BlocksTyped' /\ OnlyAt(h) /\ bwBlock'[h] = c
    BY <1>2, <1>6, <1>7 DEF BwTypes, BlocksTyped, OnlyAt
  <1>9. /\ bwOwner.pc = "close" /\ bwOwner'.pc = "recount"
        /\ bwOwner'.value = bwOwner.value /\ bwOwner'.got = bwOwner.got
        /\ ThiefTyped' /\ BooksTyped'
    BY DEF BwReclaimClose, BwOwnerAt, BwOwnerTo, BwTypes, ThiefTyped, BooksTyped, OwnerPC
  <1>10. QED
    BY <1>1, <1>2, <1>3, <1>6, <1>8, <1>9 DEF BwTypes

LEMMA RecountEffect ==
  ASSUME BwTypes, BwReclaimCount
  PROVE  /\ bwOwner.pc = "recount" /\ bwOwner'.pc = "forward"
         /\ bwOwner'.value = bwOwner.value /\ bwOwner'.got = bwOwner.got
         /\ BwNextIx \in BlockIds /\ BwTypes' /\ OnlyAt(BwNextIx)
         /\ Ends(bwBlock[BwNextIx], bwBlock'[BwNextIx])
         /\ bwBlock'[BwNextIx].tail = bwBlock[BwNextIx].tail
         /\ bwBlock'[BwNextIx].count = 0
         /\ bwBlock'[BwNextIx].ring = bwBlock[BwNextIx].ring
  <1>1. PICK h : h = BwNextIx
    OBVIOUS
  <1>2. h \in BlockIds
    BY <1>1, SeqParts DEF BwNextIx, BwTypes, BooksTyped
  <1>3. PICK b : b = bwBlock[h]
    OBVIOUS
  <1>4. b \in Block
    BY <1>1, <1>2, <1>3 DEF BwTypes, BlocksTyped
  <1>5. PICK c : c = [b EXCEPT !.count = 0]
    OBVIOUS
  <1>6. c \in Block /\ Ends(b, c) /\ c.tail = b.tail /\ c.count = 0 /\ c.ring = b.ring
    BY <1>2, <1>4, <1>5, BwAssumption DEF Block, Ends
  <1>7. bwBlock' = [bwBlock EXCEPT ![h] = c]
    BY <1>1, <1>3, <1>5 DEF BwReclaimCount
  <1>8. BlocksTyped' /\ OnlyAt(h) /\ bwBlock'[h] = c
    BY <1>2, <1>6, <1>7 DEF BwTypes, BlocksTyped, OnlyAt
  <1>9. /\ bwOwner.pc = "recount" /\ bwOwner'.pc = "forward"
        /\ bwOwner'.value = bwOwner.value /\ bwOwner'.got = bwOwner.got
        /\ ThiefTyped' /\ BooksTyped'
    BY DEF BwReclaimCount, BwOwnerAt, BwOwnerTo, BwTypes, ThiefTyped, BooksTyped, OwnerPC
  <1>10. QED
    BY <1>1, <1>2, <1>3, <1>6, <1>8, <1>9 DEF BwTypes

LEMMA GetEffect ==
  ASSUME BwTypes, BwGet
  PROVE  /\ bwOwner.pc = "get" /\ bwOwner'.pc = "idle"
         /\ BwHere \in BlockIds /\ BwTypes' /\ OnlyAt(BwHere)
         /\ bwBlock[BwHere].tail > 0 /\ bwBlock[BwHere].head[2] # bwBlock[BwHere].tail
         /\ bwBlock[BwHere].tail - 1 \in Slots
         /\ Ends(bwBlock[BwHere], bwBlock'[BwHere])
         /\ bwBlock'[BwHere].tail = bwBlock[BwHere].tail - 1
         /\ bwBlock'[BwHere].count = bwBlock[BwHere].count
         /\ bwBlock'[BwHere].ring = bwBlock[BwHere].ring
         /\ \E v \in Values : /\ v = bwBlock[BwHere].ring[bwBlock[BwHere].tail - 1]
                              /\ bwOwner'.got = v
                              /\ bwOut' = [bwOut EXCEPT ![v] = @ + 1]
  <1>1. PICK h : h = BwHere
    OBVIOUS
  <1>2. h \in BlockIds
    BY <1>1, SeqParts DEF BwHere, BwTypes, BooksTyped
  <1>3. PICK b : b = bwBlock[h]
    OBVIOUS
  <1>4. b \in Block
    BY <1>1, <1>2, <1>3 DEF BwTypes, BlocksTyped
  <1>5. b.tail # 0 /\ b.head[2] # b.tail
    BY <1>1, <1>3 DEF BwGet, BwDrained
  <1>6. b.tail > 0 /\ b.tail - 1 \in Slots /\ b.tail - 1 \in 0 .. BwSize
    BY <1>4, <1>5, BlockFields, BwAssumption DEF Slots
  <1>7. PICK c : c = [b EXCEPT !.tail = b.tail - 1]
    OBVIOUS
  <1>8. c \in Block /\ Ends(b, c) /\ c.tail = b.tail - 1 /\ c.count = b.count /\ c.ring = b.ring
    BY <1>4, <1>6, <1>7 DEF Block, Ends
  <1>9. bwBlock' = [bwBlock EXCEPT ![h] = c]
    BY <1>1, <1>3, <1>7 DEF BwGet
  <1>10. BlocksTyped' /\ OnlyAt(h) /\ bwBlock'[h] = c
    BY <1>2, <1>8, <1>9 DEF BwTypes, BlocksTyped, OnlyAt
  <1>11. PICK v \in Values : v = b.ring[b.tail - 1]
    BY <1>4, <1>6, BlockFields
  <1>12. /\ bwOwner' = [bwOwner EXCEPT !.pc = "idle", !.got = v]
         /\ bwOut' = [bwOut EXCEPT ![v] = @ + 1]
    BY <1>1, <1>3, <1>11 DEF BwGet
  <1>13. v \in Int
    BY BwAssumption DEF Values
  <1>14. /\ bwOwner.pc = "get" /\ bwOwner'.pc = "idle" /\ bwOwner'.got = v
         /\ bwOwner' \in [pc : OwnerPC, value : Values, got : Int]
    BY <1>12, <1>13 DEF BwGet, BwOwnerAt, BwTypes, BooksTyped, OwnerPC
  <1>15. bwOut' \in [Values -> Nat]
    BY <1>12 DEF BwTypes, BooksTyped
  <1>16. ThiefTyped' /\ BooksTyped'
    BY <1>14, <1>15 DEF BwGet, BwTypes, ThiefTyped, BooksTyped
  <1>17. QED
    BY <1>1, <1>2, <1>3, <1>5, <1>6, <1>8, <1>10, <1>11, <1>12, <1>14, <1>16 DEF BwTypes

LEMMA ReduceEffect ==
  ASSUME BwTypes, BwReduceGeneration
  PROVE  /\ bwOwner.pc = "get" /\ bwOwner'.pc = "takeover"
         /\ bwOwner'.value = bwOwner.value /\ bwOwner'.got = bwOwner.got
         /\ bwStart # bwLast
         /\ BwHere \in BlockIds /\ BwTypes' /\ OnlyAt(BwHere)
         /\ bwBlock[BwHere].tail = 0 \/ bwBlock[BwHere].head[2] = bwBlock[BwHere].tail
         /\ bwBlock'[BwHere].head = bwBlock[BwHere].head
         /\ bwBlock'[BwHere].stealTail =
              <<BwPrevGen(bwBlock[BwHere].stealTail[1]), bwBlock[BwHere].stealTail[2]>>
         /\ bwBlock'[BwHere].tail = bwBlock[BwHere].tail
         /\ bwBlock'[BwHere].count = bwBlock[BwHere].count
         /\ bwBlock'[BwHere].ring = bwBlock[BwHere].ring
  <1>1. PICK h : h = BwHere
    OBVIOUS
  <1>2. h \in BlockIds
    BY <1>1, SeqParts DEF BwHere, BwTypes, BooksTyped
  <1>3. PICK b : b = bwBlock[h]
    OBVIOUS
  <1>4. b \in Block
    BY <1>1, <1>2, <1>3 DEF BwTypes, BlocksTyped
  <1>5. PICK p : p = <<BwPrevGen(b.stealTail[1]), b.stealTail[2]>>
    OBVIOUS
  <1>6. p \in Positions
    BY <1>4, <1>5, BlockFields, PrevTyped DEF Positions
  <1>7. PICK c : c = [b EXCEPT !.stealTail = p]
    OBVIOUS
  <1>8. /\ c \in Block /\ c.head = b.head /\ c.tail = b.tail /\ c.count = b.count
        /\ c.stealTail = p /\ c.ring = b.ring
    BY <1>4, <1>6, <1>7 DEF Block
  <1>9. bwBlock' = [bwBlock EXCEPT ![h] = c]
    BY <1>1, <1>3, <1>5, <1>7 DEF BwReduceGeneration
  <1>10. BlocksTyped' /\ OnlyAt(h) /\ bwBlock'[h] = c
    BY <1>2, <1>8, <1>9 DEF BwTypes, BlocksTyped, OnlyAt
  <1>11. /\ bwOwner.pc = "get" /\ bwOwner'.pc = "takeover"
         /\ bwOwner'.value = bwOwner.value /\ bwOwner'.got = bwOwner.got
         /\ bwStart # bwLast
         /\ ThiefTyped' /\ BooksTyped'
    BY DEF BwReduceGeneration, BwOwnerAt, BwOwnerTo, BwTypes, ThiefTyped, BooksTyped, OwnerPC
  <1>12. b.tail = 0 \/ b.head[2] = b.tail
    BY <1>1, <1>3 DEF BwReduceGeneration, BwDrained
  <1>13. QED
    BY <1>1, <1>2, <1>3, <1>5, <1>8, <1>10, <1>11, <1>12 DEF BwTypes

-----------------------------------------------------------------------------
(* The owner's steps that touch no block.                                  *)
LEMMA PushEffect ==
  ASSUME BwTypes, BwPush
  PROVE  /\ bwOwner.pc = "idle" /\ bwOwner'.pc = "put" /\ bwPushed' = bwPushed + 1
         /\ bwOwner'.value = bwPushed + 1 /\ bwOwner'.got = bwOwner.got
         /\ BwTypes'
  <1>1. bwPushed + 1 \in Values
    BY BwAssumption DEF BwPush, BwTypes, BooksTyped, Values
  <1>2. /\ bwOwner.pc = "idle" /\ bwOwner'.pc = "put"
        /\ bwOwner'.value = bwPushed + 1 /\ bwOwner'.got = bwOwner.got
        /\ bwOwner' \in [pc : OwnerPC, value : Values, got : Int]
    BY <1>1 DEF BwPush, BwOwnerAt, BwTypes, BooksTyped, OwnerPC
  <1>3. bwRefused' \in SUBSET (1 .. bwPushed')
    BY <1>1, BwAssumption DEF BwPush, BwTypes, BooksTyped, Values
  <1>4. BooksTyped' /\ ThiefTyped' /\ BlocksTyped'
    BY <1>1, <1>2, <1>3 DEF BwPush, BwTypes, BooksTyped, ThiefTyped, BlocksTyped
  <1>5. QED
    BY <1>2, <1>4 DEF BwPush, BwTypes

Refuse ==
  /\ ~BwIsWritable(BwNextIx, BwNextGen)
  /\ bwRefused' = bwRefused \cup {bwOwner.value}
  /\ bwOwner' = [bwOwner EXCEPT !.pc = "idle", !.value = 0]
  /\ UNCHANGED <<bwStart>>
Extend ==
  /\ BwIsWritable(BwNextIx, BwNextGen)
  /\ bwStart' = IF BwNextIx = BwIndex(bwStart) THEN bwStart + 1 ELSE bwStart
  /\ BwOwnerTo("grant")
  /\ UNCHANGED <<bwRefused>>

LEMMA RefuseEffect ==
  ASSUME BwTypes, Hand, BwAdvancePut, Refuse
  PROVE  /\ bwOwner.pc = "put" /\ bwOwner'.pc = "idle" /\ bwOwner'.got = bwOwner.got
         /\ bwOwner.value = bwPushed /\ bwPushed > 0
         /\ BwTypes'
  <1>1. 0 \in Values
    BY BwAssumption DEF Values
  <1>2. /\ bwOwner.pc = "put" /\ bwOwner'.pc = "idle" /\ bwOwner'.got = bwOwner.got
        /\ bwOwner' \in [pc : OwnerPC, value : Values, got : Int]
    BY <1>1 DEF BwAdvancePut, Refuse, BwOwnerAt, BwTypes, BooksTyped, OwnerPC
  <1>3. bwOwner.value = bwPushed /\ bwPushed > 0
    BY <1>2 DEF Hand, Pushing
  <1>4. bwRefused' \in SUBSET (1 .. bwPushed)
    BY <1>3, BwAssumption DEF Refuse, BwTypes, BooksTyped, Values
  <1>5. BooksTyped' /\ ThiefTyped' /\ BlocksTyped'
    BY <1>2, <1>4 DEF BwAdvancePut, Refuse, BwTypes, BooksTyped, ThiefTyped, BlocksTyped
  <1>6. QED
    BY <1>2, <1>3, <1>5 DEF BwTypes

LEMMA ExtendEffect ==
  ASSUME BwTypes, BwAdvancePut, Extend
  PROVE  /\ bwOwner.pc = "put" /\ bwOwner'.pc = "grant" /\ bwOwner'.got = bwOwner.got
         /\ bwOwner'.value = bwOwner.value
         /\ BwTypes'
  <1>1. bwStart' \in Nat
    BY DEF Extend, BwTypes, BooksTyped
  <1>2. QED
    BY <1>1 DEF BwAdvancePut, Extend, BwOwnerAt, BwOwnerTo, BwTypes, BooksTyped, OwnerPC,
         ThiefTyped, BlocksTyped

LEMMA ForwardEffect ==
  ASSUME BwTypes, BwForward
  PROVE  /\ bwOwner.pc = "forward" /\ bwOwner'.pc = "put" /\ bwOwner'.got = bwOwner.got
         /\ bwOwner'.value = bwOwner.value
         /\ BwTypes'
  BY DEF BwForward, BwOwnerAt, BwOwnerTo, BwTypes, BooksTyped, OwnerPC, ThiefTyped, BlocksTyped

LEMMA BackEffect ==
  ASSUME BwTypes, BwBack, bwLast > 0
  PROVE  /\ bwOwner.pc = "back" /\ bwOwner'.pc = "get" /\ bwOwner'.got = bwOwner.got
         /\ bwOwner'.value = bwOwner.value
         /\ BwTypes'
  BY DEF BwBack, BwOwnerAt, BwOwnerTo, BwTypes, BooksTyped, OwnerPC, ThiefTyped, BlocksTyped

LEMMA PopEffect ==
  ASSUME BwTypes, BwPop
  PROVE  /\ bwOwner.pc = "idle" /\ bwOwner'.pc = "get" /\ bwOwner'.got = -1
         /\ BwTypes'
  <1>1. -1 \in Int
    OBVIOUS
  <1>2. bwOwner' = [bwOwner EXCEPT !.pc = "get", !.got = -1] /\ bwOwner.pc = "idle"
    BY DEF BwPop, BwOwnerAt
  <1>3. /\ bwOwner'.pc = "get" /\ bwOwner'.got = -1
        /\ bwOwner' \in [pc : OwnerPC, value : Values, got : Int]
    BY <1>1, <1>2 DEF BwTypes, BooksTyped, OwnerPC
  <1>4. QED
    BY <1>2, <1>3 DEF BwPop, BwTypes, BooksTyped, ThiefTyped, BlocksTyped

LEMMA NoneEffect ==
  ASSUME BwTypes, BwNone
  PROVE  /\ bwOwner.pc = "get" /\ bwOwner'.pc = "idle" /\ bwOwner'.got = 0
         /\ bwStart = bwLast
         /\ bwBlock[BwHere].tail = 0 \/ bwBlock[BwHere].head[2] = bwBlock[BwHere].tail
         /\ BwTypes'
  <1>1. 0 \in Int
    OBVIOUS
  <1>2. bwOwner' = [bwOwner EXCEPT !.pc = "idle", !.got = 0] /\ bwOwner.pc = "get"
    BY DEF BwNone, BwOwnerAt
  <1>3. /\ bwOwner'.pc = "idle" /\ bwOwner'.got = 0
        /\ bwOwner' \in [pc : OwnerPC, value : Values, got : Int]
    BY <1>1, <1>2 DEF BwTypes, BooksTyped, OwnerPC
  <1>4. QED
    BY <1>2, <1>3 DEF BwNone, BwDrained, BwTypes, BooksTyped, ThiefTyped, BlocksTyped

-----------------------------------------------------------------------------
(* The thieves' steps: one thief moves.                                    *)
OnlyThief(t) == \A u \in BwThieves : u # t => bwThief'[u] = bwThief[u]
LEMMA RestingTyped ==
  BwResting \in [pc : ThiefPC, seq : Nat, spos : Positions, value : Values]
  <1>1. <<0, 0>> \in Positions /\ 0 \in Values
    BY BwAssumption DEF Positions, Values
  <1>2. QED
    BY <1>1 DEF BwResting, ThiefPC

(* A thief that looks round claims nothing and lets go of nothing.         *)
Roams(t) == BwSteal(t) \/ BwLook(t) \/ BwLookTail(t) \/ BwConflict(t) \/ BwAdvanceSteal(t)

LEMMA RoamsEffect ==
  ASSUME BwTypes, Aims, NEW t \in BwThieves, Roams(t)
  PROVE  /\ UNCHANGED <<bwBlock, bwLast, bwStart, bwOwner, bwPushed, bwRefused, bwOut>>
         /\ BwTypes' /\ OnlyThief(t)
         /\ ~Holds(bwThief, t) /\ ~Holds(bwThief', t)
         /\ bwThief'[t].pc \in {"tail", "cas"} => bwThief'[t].spos[2] < BwSize
  <1> DEFINE Thief == [pc : ThiefPC, seq : Nat, spos : Positions, value : Values]
  <1>1. PICK m : m = bwThief[t]
    OBVIOUS
  <1>2. m \in Thief /\ BwPrey(t) \in BlockIds
    BY <1>1, SeqParts DEF BwTypes, ThiefTyped, BwPrey
  <1>3. BwResting \in Thief /\ BwResting.pc = "idle"
    BY RestingTyped DEF BwResting
  <1>4. m.pc \in {"tail", "cas"} => m.spos[2] < BwSize
    BY <1>1 DEF Aims
  <1>5. bwStart \in Nat /\ bwBlock[BwPrey(t)].stealTail \in Positions
        /\ bwBlock[BwPrey(t)].stealTail[2] \in 0 .. BwSize
    BY <1>2, BlockFields DEF BwTypes, BooksTyped, BlocksTyped
  <1>6. \E n \in Thief :
          /\ bwThief' = [bwThief EXCEPT ![t] = n]
          /\ m.pc \notin {"read", "count"} /\ n.pc \notin {"read", "count"}
          /\ n.pc \in {"tail", "cas"} => n.spos[2] < BwSize
    <2>1. CASE BwSteal(t)
      <3>1. PICK n : n = [BwResting EXCEPT !.pc = "look", !.seq = bwStart]
        OBVIOUS
      <3>2. n \in Thief /\ n.pc = "look"
        BY <3>1, <1>3, <1>5 DEF ThiefPC
      <3>3. QED
        BY <3>1, <3>2, <2>1, <1>1 DEF BwSteal, BwThiefAt
    <2>2. CASE BwLook(t)
      <3>1. PICK p : p = bwBlock[BwPrey(t)].stealTail
        OBVIOUS
      <3>2. PICK n : n = IF ~BwSameGeneration(t, p) THEN BwResting
                         ELSE [m EXCEPT !.pc = IF p[2] = BwSize THEN "next" ELSE "tail", !.spos = p]
        OBVIOUS
      <3>3. m.pc = "look" /\ bwThief' = [bwThief EXCEPT ![t] = n]
        BY <2>2, <3>1, <3>2, <1>1 DEF BwLook, BwThiefAt
      <3>4. n \in Thief /\ (n = BwResting \/ (n.pc \in {"next", "tail"} /\ n.spos = p
                                              /\ (n.pc = "tail" => p[2] # BwSize)))
        BY <3>1, <3>2, <1>2, <1>3, <1>5 DEF ThiefPC
      <3>5. n.pc \in {"tail", "cas"} => n.spos[2] < BwSize
        BY <3>1, <3>4, <1>3, <1>5, BwAssumption
      <3>6. n.pc \notin {"read", "count"}
        BY <3>4, <1>3
      <3>7. QED
        BY <3>3, <3>4, <3>5, <3>6
    <2>3. CASE BwLookTail(t)
      <3>1. PICK n : n = IF m.spos[2] = bwBlock[BwPrey(t)].tail THEN BwResting ELSE [m EXCEPT !.pc = "cas"]
        OBVIOUS
      <3>2. m.pc = "tail" /\ bwThief' = [bwThief EXCEPT ![t] = n]
        BY <2>3, <3>1, <1>1 DEF BwLookTail, BwThiefAt
      <3>3. n \in Thief /\ (n = BwResting \/ (n.pc = "cas" /\ n.spos = m.spos))
        BY <3>1, <1>2, <1>3 DEF ThiefPC
      <3>4. QED
        BY <3>2, <3>3, <1>3, <1>4
    <2>4. CASE BwConflict(t)
      <3>1. PICK n : n = [m EXCEPT !.pc = "look"]
        OBVIOUS
      <3>2. m.pc = "cas" /\ bwThief' = [bwThief EXCEPT ![t] = n]
        BY <2>4, <3>1, <1>1 DEF BwConflict, BwThiefAt, BwThiefTo
      <3>3. n \in Thief /\ n.pc = "look"
        BY <3>1, <1>2 DEF ThiefPC
      <3>4. QED
        BY <3>2, <3>3
    <2>5. CASE BwAdvanceSteal(t)
      <3>1. PICK n : n = IF m.seq + 1 < bwLast THEN [m EXCEPT !.pc = "look", !.seq = m.seq + 1]
                         ELSE BwResting
        OBVIOUS
      <3>2. m.pc = "next" /\ bwThief' = [bwThief EXCEPT ![t] = n]
        <4>1. m.pc = "next"
          BY <2>5, <1>1 DEF BwAdvanceSteal, BwThiefAt
        <4>2. bwThief' = [bwThief EXCEPT ![t] =
                IF m.seq + 1 < bwLast THEN [m EXCEPT !.pc = "look", !.seq = m.seq + 1] ELSE BwResting]
          BY <2>5, <1>1 DEF BwAdvanceSteal
        <4>3. QED
          BY <4>1, <4>2, <3>1
      <3>3. n \in Thief /\ (n = BwResting \/ n.pc = "look")
        <4>1. m.seq + 1 \in Nat
          BY <1>2
        <4>2. QED
          BY <4>1, <3>1, <1>2, <1>3 DEF ThiefPC
      <3>4. QED
        BY <3>2, <3>3, <1>3
    <2>6. QED
      BY <2>1, <2>2, <2>3, <2>4, <2>5 DEF Roams
  <1>7. UNCHANGED <<bwBlock, bwLast, bwStart, bwOwner, bwPushed, bwRefused, bwOut>>
    BY DEF Roams, BwSteal, BwLook, BwLookTail, BwConflict, BwAdvanceSteal
  <1>8. ThiefTyped' /\ OnlyThief(t) /\ ~Holds(bwThief, t) /\ ~Holds(bwThief', t)
        /\ (bwThief'[t].pc \in {"tail", "cas"} => bwThief'[t].spos[2] < BwSize)
    BY <1>1, <1>6 DEF BwTypes, ThiefTyped, OnlyThief, Holds
  <1>9. BlocksTyped' /\ BooksTyped'
    BY <1>7 DEF BwTypes, BlocksTyped, BooksTyped
  <1>10. QED
    BY <1>7, <1>8, <1>9 DEF BwTypes

LEMMA ClaimEffect ==
  ASSUME BwTypes, Aims, NEW t \in BwThieves, BwClaim(t)
  PROVE  \E x \in BlockIds, k \in Slots :
           /\ x = PreyOf(bwThief, t) /\ k = bwThief[t].spos[2]
           /\ BwTypes' /\ OnlyAt(x) /\ OnlyThief(t)
           /\ bwThief[t].pc = "cas" /\ bwThief'[t].pc = "read"
           /\ bwThief'[t].seq = bwThief[t].seq /\ bwThief'[t].spos = bwThief[t].spos
           /\ bwBlock[x].stealTail[2] = k
           /\ bwBlock'[x].head = bwBlock[x].head /\ bwBlock'[x].tail = bwBlock[x].tail
           /\ bwBlock'[x].stealTail = <<bwBlock[x].stealTail[1], k + 1>>
           /\ bwBlock'[x].count = bwBlock[x].count /\ bwBlock'[x].ring = bwBlock[x].ring
  <1> DEFINE Thief == [pc : ThiefPC, seq : Nat, spos : Positions, value : Values]
  <1>1. PICK m, x : m = bwThief[t] /\ x = PreyOf(bwThief, t)
    OBVIOUS
  <1>2. m \in Thief /\ x \in BlockIds /\ x = BwPrey(t)
    BY <1>1, SeqParts DEF BwTypes, ThiefTyped, BwPrey, PreyOf
  <1>3. PICK b : b = bwBlock[x]
    OBVIOUS
  <1>4. b \in Block
    BY <1>2, <1>3 DEF BwTypes, BlocksTyped
  <1>5. m.pc = "cas" /\ b.stealTail = m.spos
    BY <1>1, <1>2, <1>3 DEF BwClaim, BwThiefAt, BwUnmoved
  <1>6. PICK k \in Slots : k = m.spos[2] /\ k = b.stealTail[2]
    BY <1>1, <1>4, <1>5, BlockFields, BwAssumption DEF Aims, Slots
  <1>7. <<b.stealTail[1], k + 1>> \in Positions
    BY <1>4, BlockFields, BwAssumption DEF Positions, Slots
  <1>8. PICK c : c = [b EXCEPT !.stealTail = <<b.stealTail[1], k + 1>>]
    OBVIOUS
  <1>9. /\ c \in Block /\ c.head = b.head /\ c.tail = b.tail /\ c.count = b.count
        /\ c.stealTail = <<b.stealTail[1], k + 1>> /\ c.ring = b.ring
    BY <1>4, <1>7, <1>8 DEF Block
  <1>10. bwBlock' = [bwBlock EXCEPT ![x] = c]
    BY <1>2, <1>3, <1>6, <1>8 DEF BwClaim
  <1>11. BlocksTyped' /\ OnlyAt(x) /\ bwBlock'[x] = c
    BY <1>2, <1>9, <1>10 DEF BwTypes, BlocksTyped, OnlyAt
  <1>12. PICK n : n = [m EXCEPT !.pc = "read"]
    OBVIOUS
  <1>13. n \in Thief /\ n.pc = "read" /\ n.seq = m.seq /\ n.spos = m.spos
    BY <1>2, <1>12 DEF ThiefPC
  <1>14. bwThief' = [bwThief EXCEPT ![t] = n]
    BY <1>1, <1>12 DEF BwClaim, BwThiefTo
  <1>15. ThiefTyped' /\ OnlyThief(t) /\ bwThief'[t] = n
    BY <1>13, <1>14 DEF BwTypes, ThiefTyped, OnlyThief
  <1>16. BooksTyped'
    BY DEF BwClaim, BwTypes, BooksTyped
  <1>17. QED
    BY <1>1, <1>2, <1>3, <1>5, <1>6, <1>9, <1>11, <1>13, <1>15, <1>16 DEF BwTypes

LEMMA ReadEffect ==
  ASSUME BwTypes, NEW t \in BwThieves, BwRead(t), bwThief[t].spos[2] < BwSize
  PROVE  /\ BwTypes' /\ OnlyThief(t)
         /\ bwThief[t].pc = "read" /\ bwThief'[t].pc = "count"
         /\ bwThief'[t].seq = bwThief[t].seq /\ bwThief'[t].spos = bwThief[t].spos
         /\ bwThief'[t].value = bwBlock[PreyOf(bwThief, t)].ring[bwThief[t].spos[2]]
  <1> DEFINE Thief == [pc : ThiefPC, seq : Nat, spos : Positions, value : Values]
  <1>1. PICK m, x : m = bwThief[t] /\ x = PreyOf(bwThief, t)
    OBVIOUS
  <1>2. m \in Thief /\ x \in BlockIds /\ x = BwPrey(t)
    BY <1>1, SeqParts DEF BwTypes, ThiefTyped, BwPrey, PreyOf
  <1>3. m.spos[2] \in Slots
    BY <1>1, <1>2, BwAssumption DEF Positions, Slots
  <1>4. bwBlock[x] \in Block
    BY <1>2 DEF BwTypes, BlocksTyped
  <1>5. PICK v \in Values : v = bwBlock[x].ring[m.spos[2]]
    BY <1>3, <1>4, BlockFields
  <1>6. PICK n : n = [m EXCEPT !.pc = "count", !.value = v]
    OBVIOUS
  <1>7. n \in Thief /\ n.pc = "count" /\ n.seq = m.seq /\ n.spos = m.spos /\ n.value = v
    BY <1>2, <1>6 DEF ThiefPC
  <1>8. bwThief' = [bwThief EXCEPT ![t] = n]
    <2>1. bwThief' = [bwThief EXCEPT ![t].pc = "count", ![t].value = v]
      BY <1>1, <1>2, <1>5 DEF BwRead
    <2>2. QED
      BY <2>1, <1>1, <1>6 DEF BwTypes, ThiefTyped
  <1>9. ThiefTyped' /\ OnlyThief(t) /\ bwThief'[t] = n
    BY <1>7, <1>8 DEF BwTypes, ThiefTyped, OnlyThief
  <1>10. BooksTyped' /\ BlocksTyped' /\ bwThief[t].pc = "read"
    BY DEF BwRead, BwThiefAt, BwTypes, BooksTyped, BlocksTyped
  <1>11. QED
    BY <1>1, <1>5, <1>7, <1>9, <1>10 DEF BwTypes

LEMMA CountEffect ==
  ASSUME BwTypes, NEW t \in BwThieves, BwCount(t)
  PROVE  \E x \in BlockIds, v \in Values :
           /\ x = PreyOf(bwThief, t) /\ v = bwThief[t].value
           /\ BwTypes' /\ OnlyAt(x) /\ OnlyThief(t)
           /\ bwThief[t].pc = "count" /\ bwThief'[t] = BwResting
           /\ Ends(bwBlock[x], bwBlock'[x]) /\ bwBlock'[x].tail = bwBlock[x].tail
           /\ bwBlock'[x].count = bwBlock[x].count + 1 /\ bwBlock'[x].ring = bwBlock[x].ring
           /\ bwOut' = [bwOut EXCEPT ![v] = @ + 1]
  <1> DEFINE Thief == [pc : ThiefPC, seq : Nat, spos : Positions, value : Values]
  <1>1. PICK m, x : m = bwThief[t] /\ x = PreyOf(bwThief, t)
    OBVIOUS
  <1>2. m \in Thief /\ x \in BlockIds /\ x = BwPrey(t)
    BY <1>1, SeqParts DEF BwTypes, ThiefTyped, BwPrey, PreyOf
  <1>3. PICK b : b = bwBlock[x]
    OBVIOUS
  <1>4. b \in Block /\ b.count + 1 \in Nat
    BY <1>2, <1>3, BlockFields DEF BwTypes, BlocksTyped
  <1>5. PICK c : c = [b EXCEPT !.count = b.count + 1]
    OBVIOUS
  <1>6. /\ c \in Block /\ Ends(b, c) /\ c.tail = b.tail /\ c.count = b.count + 1 /\ c.ring = b.ring
    BY <1>4, <1>5 DEF Block, Ends
  <1>7. bwBlock' = [bwBlock EXCEPT ![x] = c]
    BY <1>2, <1>3, <1>5 DEF BwCount
  <1>8. BlocksTyped' /\ OnlyAt(x) /\ bwBlock'[x] = c
    BY <1>2, <1>6, <1>7 DEF BwTypes, BlocksTyped, OnlyAt
  <1>9. bwThief' = [bwThief EXCEPT ![t] = BwResting] /\ m.pc = "count"
    BY <1>1 DEF BwCount, BwThiefAt
  <1>10. ThiefTyped' /\ OnlyThief(t) /\ bwThief'[t] = BwResting
    BY <1>9, RestingTyped DEF BwTypes, ThiefTyped, OnlyThief
  <1>11. PICK v \in Values : v = m.value
    BY <1>2
  <1>12. bwOut' = [bwOut EXCEPT ![v] = @ + 1]
    BY <1>1, <1>11 DEF BwCount
  <1>13. bwOut' \in [Values -> Nat]
    BY <1>12 DEF BwTypes, BooksTyped
  <1>14. BooksTyped'
    BY <1>13 DEF BwCount, BwTypes, BooksTyped
  <1>15. QED
    BY <1>1, <1>2, <1>3, <1>6, <1>8, <1>9, <1>10, <1>11, <1>12, <1>14 DEF BwTypes

-----------------------------------------------------------------------------
(* The window: every block once, each in one hand.                         *)
LEMMA WindowBlocks ==
  ASSUME BwTypes
  PROVE  /\ \A s \in Window : s \in Nat /\ BwIndex(s) \in BlockIds /\ BwGen(s) \in Nat
         /\ \A s, u \in Window : s # u => BwIndex(s) # BwIndex(u)
         /\ \A x \in BlockIds : \E s \in Window : BwIndex(s) = x
  <1>1. bwStart \in Nat /\ BwBlocks \in Nat
    BY BwAssumption DEF BwTypes, BooksTyped
  <1>2. \A s \in Window : s \in Nat /\ BwIndex(s) \in BlockIds /\ BwGen(s) \in Nat
    BY <1>1, SeqParts DEF Window
  <1>3. ASSUME NEW s \in Window, NEW u \in Window, s # u
        PROVE  BwIndex(s) # BwIndex(u)
    <2>1. s \in Nat /\ u \in Nat /\ s < u + BwBlocks /\ u < s + BwBlocks
      BY <1>1 DEF Window
    <2>2. CASE s < u
      BY <2>1, <2>2, Apart
    <2>3. CASE u < s
      BY <2>1, <2>3, Apart
    <2>4. QED
      BY <2>1, <2>2, <2>3, <1>3
  <1>4. \A x \in BlockIds : \E s \in Window : BwIndex(s) = x
    BY <1>1, Covered DEF Window
  <1>5. QED
    BY <1>2, <1>3, <1>4

LEMMA InSomeHand ==
  ASSUME BwTypes, NEW s \in Window
  PROVE  Owned(s) \/ Granted(s) \/ Halved(s) \/ Free(s)
  <1>1. s \in Nat /\ bwLast \in Nat /\ bwOwner.pc \in OwnerPC
    BY WindowBlocks DEF BwTypes, BooksTyped
  <1>2. QED
    BY <1>1 DEF Owned, Granted, Halved, Free, OwnerPC, AtHome, Half, Going

(* The block the owner is in is in the window.                             *)
LEMMA HereInWindow ==
  ASSUME BwTypes, Bounds
  PROVE  /\ bwLast \in Window /\ bwLast \in Nat
         /\ bwOwner.pc \in Leaving => bwLast + 1 \in Window
         /\ bwOwner.pc \in Going => bwLast - 1 \in Window
  BY BwAssumption DEF BwTypes, BooksTyped, Bounds, Window

LEMMA LowTyped ==
  ASSUME NEW b \in Block
  PROVE  /\ Low(b) \in 0 .. BwSize /\ Low(b) <= b.head[2] /\ Low(b) <= b.stealTail[2]
         /\ b.stealTail[2] = BwSize => Low(b) = b.head[2]
         /\ b.head[2] = BwSize => Low(b) = b.stealTail[2]
  BY BlockFields, BwAssumption DEF Low

(* Ends that stay, or trade places, leave the low end where it was.        *)
LEMMA LowKept ==
  ASSUME NEW b \in Block, NEW c \in Block,
         \/ c.head[2] = b.head[2] /\ c.stealTail[2] = b.stealTail[2]
         \/ c.head[2] = b.stealTail[2] /\ c.stealTail[2] = b.head[2]
  PROVE  Low(c) = Low(b)
  BY BlockFields, BwAssumption DEF Low

(* The live slots of the blocks, and what the thieves hold, stay as they   *)
(* are.                                                                    *)
SlotsKept ==
  \A x \in BlockIds : \A i \in Slots :
    /\ LiveSlot(bwBlock'[x], i) <=> LiveSlot(bwBlock[x], i)
    /\ LiveSlot(bwBlock[x], i) => bwBlock'[x].ring[i] = bwBlock[x].ring[i]
ClaimsKept ==
  \A t \in BwThieves :
    /\ Holds(bwThief', t) <=> Holds(bwThief, t)
    /\ Holds(bwThief, t) => Prize(bwBlock', bwThief', t) = Prize(bwBlock, bwThief, t)

(* A step of the owner that leaves the low ends alone leaves the claims so.*)
LEMMA ClaimsStay ==
  ASSUME BwTypes, Aims, Claims, bwThief' = bwThief,
         \A x \in BlockIds : Low(bwBlock'[x]) = Low(bwBlock[x]) \/ Holders(bwThief, x) = {}
  PROVE  Aims' /\ Claims'
  <1>1. Aims'
    BY DEF Aims
  <1>2. ASSUME NEW t \in BwThieves, Holds(bwThief, t)
        PROVE  bwThief[t].spos[2] < Low(bwBlock'[PreyOf(bwThief, t)])
    <2>1. PreyOf(bwThief, t) \in BlockIds
      BY SeqParts DEF BwTypes, ThiefTyped, PreyOf
    <2>2. t \in Holders(bwThief, PreyOf(bwThief, t))
      BY <1>2 DEF Holders
    <2>3. Low(bwBlock'[PreyOf(bwThief, t)]) = Low(bwBlock[PreyOf(bwThief, t)])
      BY <2>1, <2>2
    <2>4. QED
      BY <2>3, <1>2 DEF Claims
  <1>3. QED
    BY <1>1, <1>2 DEF Claims

(* The same for what is counted.                                           *)
LEMMA CountedStays ==
  ASSUME Counted, bwThief' = bwThief,
         \A x \in BlockIds : ~(x = BwNextIx' /\ bwOwner'.pc \in Half) =>
            \/ /\ ~(x = BwNextIx /\ bwOwner.pc \in Half)
               /\ bwBlock'[x].count = bwBlock[x].count /\ Low(bwBlock'[x]) = Low(bwBlock[x])
            \/ bwBlock'[x].count + Cardinality(Holders(bwThief, x)) = Low(bwBlock'[x])
  PROVE  Counted'
  BY DEF Counted

(* A thief's slot keeps its value while the ring of its block does.        *)
LEMMA PrizesStay ==
  ASSUME BwTypes, Claims, bwThief' = bwThief,
         \A x \in BlockIds : \A i \in Slots :
           i < Low(bwBlock[x]) => bwBlock'[x].ring[i] = bwBlock[x].ring[i]
  PROVE  ClaimsKept
  <1> SUFFICES ASSUME NEW t \in BwThieves, Holds(bwThief, t)
               PROVE  Prize(bwBlock', bwThief, t) = Prize(bwBlock, bwThief, t)
    BY DEF ClaimsKept
  <1>1. PICK x, i : x = PreyOf(bwThief, t) /\ i = bwThief[t].spos[2]
    OBVIOUS
  <1>2. x \in BlockIds /\ i \in 0 .. BwSize
    BY <1>1, SeqParts DEF BwTypes, ThiefTyped, PreyOf, Positions
  <1>3. i < Low(bwBlock[x])
    BY <1>1 DEF Claims
  <1>4. Low(bwBlock[x]) \in 0 .. BwSize
    BY <1>2, LowTyped DEF BwTypes, BlocksTyped
  <1>5. i \in Slots
    BY <1>2, <1>3, <1>4, BwAssumption DEF Slots
  <1>6. bwBlock'[x].ring[i] = bwBlock[x].ring[i]
    BY <1>2, <1>3, <1>5
  <1>7. QED
    BY <1>1, <1>6 DEF Prize

(* A block's shape depends on its ends, its tail and whose it is.          *)
SameHand(s) ==
  /\ Owned(s)' => Owned(s)
  /\ Granted(s)' => Granted(s)
  /\ Halved(s)' => Halved(s) /\ bwOwner'.pc = bwOwner.pc
  /\ Free(s)' => Free(s)
LEMMA ShapeStays ==
  ASSUME NEW s \in Nat, Shape(s), SameHand(s),
         Ends(bwBlock[BwIndex(s)], bwBlock'[BwIndex(s)]),
         bwBlock'[BwIndex(s)].tail = bwBlock[BwIndex(s)].tail
  PROVE  Shape(s)'
  BY DEF Shape, SameHand, Ends, OwnedShape, GrantedShape, HalvedShape, FreeShape

-----------------------------------------------------------------------------
(* The owner's steps keep the form of the blocks.                          *)
LEMMA PutForm ==
  ASSUME BwForm, BwPut
  PROVE  BwForm' /\ SlotsKept /\ ClaimsKept
  <1>1. BwTypes /\ Bounds /\ Shapes /\ Aims /\ Claims /\ Counted
    BY DEF BwForm
  <1>2. UNCHANGED <<bwLast, bwStart, bwThief>>
    BY DEF BwPut
  <1>3. PICK h : h = BwHere
    OBVIOUS
  <1>4. /\ bwOwner.pc = "put" /\ bwOwner'.pc = "publish" /\ h \in BlockIds /\ BwTypes'
        /\ bwBlock[h].tail < BwSize /\ OnlyAt(h) /\ Ends(bwBlock[h], bwBlock'[h])
        /\ bwBlock'[h].tail = bwBlock[h].tail /\ bwBlock'[h].count = bwBlock[h].count
        /\ \A i \in Slots : i # bwBlock[h].tail => bwBlock'[h].ring[i] = bwBlock[h].ring[i]
    BY <1>1, <1>3, PutEffect
  <1>5. \A x \in BlockIds :
          /\ Ends(bwBlock[x], bwBlock'[x]) /\ bwBlock'[x].tail = bwBlock[x].tail
          /\ bwBlock'[x].count = bwBlock[x].count
          /\ bwBlock[x] \in Block /\ bwBlock'[x] \in Block
    BY <1>1, <1>4 DEF OnlyAt, Ends, BwTypes, BlocksTyped
  <1>6. \A x \in BlockIds : Low(bwBlock'[x]) = Low(bwBlock[x])
    BY <1>5, LowKept DEF Ends
  <1>7. Bounds'
    BY <1>1, <1>2, <1>4 DEF Bounds, Leaving, Going
  <1>8. Shapes'
    <2>1. ASSUME NEW s \in Window
          PROVE  Shape(s)'
      <3>1. s \in Nat /\ BwIndex(s) \in BlockIds /\ Shape(s)
        BY <1>1, WindowBlocks DEF Shapes
      <3>2. SameHand(s)
        BY <1>2, <1>4 DEF SameHand, Owned, Granted, Halved, Free, AtHome, Half, Going
      <3>3. QED
        BY <3>1, <3>2, <1>5, ShapeStays
    <2>2. QED
      BY <2>1, <1>2, <1>3, <1>4 DEF Shapes, Window, BwHere
  <1>9. Aims' /\ Claims' /\ Counted'
    <2>1. Aims' /\ Claims'
      BY <1>1, <1>2, <1>6, ClaimsStay
    <2>2. Counted'
      BY <1>1, <1>2, <1>4, <1>5, <1>6, CountedStays DEF Half
    <2>3. QED
      BY <2>1, <2>2
  <1>10. Owned(bwLast) /\ bwLast \in Window /\ bwLast \in Nat
    BY <1>1, <1>4, HereInWindow DEF Owned, AtHome
  <1>11. Low(bwBlock[h]) <= bwBlock[h].tail
    <2>1. OwnedShape(bwLast, bwBlock[h])
      BY <1>1, <1>3, <1>10 DEF Shapes, Shape, BwHere
    <2>2. QED
      BY <2>1, <1>4, <1>5, LowTyped, BlockFields, BwAssumption DEF OwnedShape
  <1>12. SlotsKept
    <2>1. ASSUME NEW x \in BlockIds, NEW i \in Slots
          PROVE  /\ LiveSlot(bwBlock'[x], i) <=> LiveSlot(bwBlock[x], i)
                 /\ LiveSlot(bwBlock[x], i) => bwBlock'[x].ring[i] = bwBlock[x].ring[i]
      <3>1. LiveSlot(bwBlock'[x], i) <=> LiveSlot(bwBlock[x], i)
        BY <1>5, <1>6 DEF LiveSlot
      <3>2. ASSUME LiveSlot(bwBlock[x], i)
            PROVE  bwBlock'[x].ring[i] = bwBlock[x].ring[i]
        <4>1. CASE x # h
          BY <4>1, <1>4 DEF OnlyAt
        <4>2. CASE x = h
          <5>1. i < bwBlock[h].tail /\ i \in Nat /\ bwBlock[h].tail \in Nat
            BY <3>2, <4>2, <1>4, <1>5, BlockFields, BwAssumption DEF LiveSlot, Slots
          <5>2. QED
            BY <5>1, <4>2, <1>4
        <4>3. QED
          BY <4>1, <4>2
      <3>3. QED
        BY <3>1, <3>2
    <2>2. QED
      BY <2>1 DEF SlotsKept
  <1>13. ClaimsKept
    <2>1. ASSUME NEW x \in BlockIds, NEW i \in Slots, i < Low(bwBlock[x])
          PROVE  bwBlock'[x].ring[i] = bwBlock[x].ring[i]
      <3>1. CASE x # h
        BY <3>1, <1>4 DEF OnlyAt
      <3>2. CASE x = h
        <4>1. Low(bwBlock[h]) \in Int /\ bwBlock[h].tail \in Int /\ i \in Int
          BY <1>4, <1>5, LowTyped, BlockFields, BwAssumption DEF Slots
        <4>2. i # bwBlock[h].tail
          BY <4>1, <2>1, <3>2, <1>11
        <4>3. QED
          BY <4>2, <3>2, <1>4
      <3>3. QED
        BY <3>1, <3>2
    <2>2. QED
      BY <2>1, <1>1, <1>2, PrizesStay
  <1>14. QED
    BY <1>4, <1>7, <1>8, <1>9, <1>12, <1>13 DEF BwForm

LEMMA PublishForm ==
  ASSUME BwForm, BwPublish
  PROVE  BwForm' /\ ClaimsKept
  <1>1. BwTypes /\ Bounds /\ Shapes /\ Aims /\ Claims /\ Counted
    BY DEF BwForm
  <1>2. UNCHANGED <<bwLast, bwStart, bwThief>>
    BY DEF BwPublish
  <1>3. PICK h : h = BwHere
    OBVIOUS
  <1>4. bwBlock[h].tail < BwSize
    BY <1>1, <1>3 DEF BwPublish, BwOwnerAt, Shapes
  <1>5. /\ bwOwner.pc = "publish" /\ bwOwner'.pc = "idle" /\ h \in BlockIds /\ BwTypes'
        /\ OnlyAt(h) /\ Ends(bwBlock[h], bwBlock'[h])
        /\ bwBlock'[h].tail = bwBlock[h].tail + 1 /\ bwBlock'[h].count = bwBlock[h].count
        /\ bwBlock'[h].ring = bwBlock[h].ring
    BY <1>1, <1>3, <1>4, PublishEffect
  <1>6. \A x \in BlockIds :
          /\ Ends(bwBlock[x], bwBlock'[x])
          /\ bwBlock'[x].count = bwBlock[x].count /\ bwBlock'[x].ring = bwBlock[x].ring
          /\ bwBlock[x] \in Block /\ bwBlock'[x] \in Block
    BY <1>1, <1>5 DEF OnlyAt, Ends, BwTypes, BlocksTyped
  <1>7. \A x \in BlockIds : Low(bwBlock'[x]) = Low(bwBlock[x])
    BY <1>6, LowKept DEF Ends
  <1>8. Bounds'
    BY <1>1, <1>2, <1>5 DEF Bounds, Leaving, Going
  <1>9. Shapes'
    <2>1. ASSUME NEW s \in Window
          PROVE  Shape(s)'
      <3>1. s \in Nat /\ BwIndex(s) \in BlockIds /\ Shape(s)
        BY <1>1, WindowBlocks DEF Shapes
      <3>2. SameHand(s)
        BY <1>2, <1>5 DEF SameHand, Owned, Granted, Halved, Free, AtHome, Half, Going
      <3>3. CASE s # bwLast
        <4>1. BwIndex(s) # h
          BY <3>3, <1>1, <1>3, HereInWindow, WindowBlocks DEF BwHere
        <4>2. QED
          BY <4>1, <3>1, <3>2, <1>5, <1>6, ShapeStays DEF OnlyAt
      <3>4. CASE s = bwLast
        <4>1. BwIndex(s) = h /\ Owned(s) /\ ~Granted(s)' /\ ~Halved(s)' /\ ~Free(s)'
          BY <3>1, <3>4, <1>2, <1>3, <1>5
             DEF BwHere, Owned, Granted, Halved, Free, AtHome, Half, Going
        <4>2. OwnedShape(s, bwBlock[h])
          BY <4>1, <3>1 DEF Shape
        <4>3. bwBlock[h].head[2] \in Int /\ bwBlock[h].tail \in Int
          BY <1>5, <1>6, BlockFields, BwAssumption
        <4>4. OwnedShape(s, bwBlock'[h])
          BY <4>2, <4>3, <1>5 DEF OwnedShape, Ends
        <4>5. QED
          BY <4>1, <4>4 DEF Shape
      <3>5. QED
        BY <3>3, <3>4
    <2>2. QED
      BY <2>1, <1>2, <1>5 DEF Shapes, Window
  <1>10. Aims' /\ Claims'
    BY <1>1, <1>2, <1>7, ClaimsStay
  <1>11. Counted'
    BY <1>1, <1>2, <1>5, <1>6, <1>7, CountedStays DEF Half
  <1>12. ClaimsKept
    BY <1>1, <1>2, <1>6, PrizesStay
  <1>13. QED
    BY <1>5, <1>8, <1>9, <1>10, <1>11, <1>12 DEF BwForm

(* Rings and the tails of the live slots as they were: nothing moved.      *)
LEMMA SlotsStay ==
  ASSUME \A x \in BlockIds : /\ Low(bwBlock'[x]) = Low(bwBlock[x])
                             /\ bwBlock'[x].tail = bwBlock[x].tail
                             /\ bwBlock'[x].ring = bwBlock[x].ring
  PROVE  SlotsKept
  BY DEF SlotsKept, LiveSlot

LEMMA GrantForm ==
  ASSUME BwForm, BwGrant
  PROVE  BwForm' /\ SlotsKept /\ ClaimsKept
  <1>1. BwTypes /\ Bounds /\ Shapes /\ Aims /\ Claims /\ Counted
    BY DEF BwForm
  <1>2. UNCHANGED <<bwLast, bwStart, bwThief>>
    BY DEF BwGrant
  <1>3. PICK h : h = BwHere
    OBVIOUS
  <1>4. /\ bwOwner.pc = "grant" /\ bwOwner'.pc = "reclaim" /\ h \in BlockIds /\ BwTypes'
        /\ OnlyAt(h)
        /\ bwBlock'[h].head = bwBlock[h].stealTail /\ bwBlock'[h].stealTail = bwBlock[h].head
        /\ bwBlock'[h].tail = bwBlock[h].tail /\ bwBlock'[h].count = bwBlock[h].count
        /\ bwBlock'[h].ring = bwBlock[h].ring
    BY <1>1, <1>3, GrantEffect
  <1>5. \A x \in BlockIds :
          /\ bwBlock'[x].tail = bwBlock[x].tail
          /\ bwBlock'[x].count = bwBlock[x].count /\ bwBlock'[x].ring = bwBlock[x].ring
          /\ bwBlock[x] \in Block /\ bwBlock'[x] \in Block
    BY <1>1, <1>4 DEF OnlyAt, BwTypes, BlocksTyped
  <1>6. \A x \in BlockIds : Low(bwBlock'[x]) = Low(bwBlock[x])
    BY <1>4, <1>5, LowKept DEF OnlyAt
  <1>7. Bounds'
    BY <1>1, <1>2, <1>4 DEF Bounds, Leaving, Going
  <1>8. Shapes'
    <2>1. ASSUME NEW s \in Window
          PROVE  Shape(s)'
      <3>1. s \in Nat /\ BwIndex(s) \in BlockIds /\ Shape(s)
        BY <1>1, WindowBlocks DEF Shapes
      <3>3. CASE s # bwLast
        <4>1. BwIndex(s) # h
          BY <3>3, <1>1, <1>3, HereInWindow, WindowBlocks DEF BwHere
        <4>2. SameHand(s)
          BY <3>3, <1>2, <1>4 DEF SameHand, Owned, Granted, Halved, Free, AtHome, Half, Going
        <4>3. Ends(bwBlock[BwIndex(s)], bwBlock'[BwIndex(s)])
          BY <4>1, <3>1, <1>4 DEF OnlyAt, Ends
        <4>4. QED
          BY <4>2, <4>3, <3>1, <1>5, ShapeStays
      <3>4. CASE s = bwLast
        <4>1. BwIndex(s) = h /\ Owned(s) /\ ~Owned(s)' /\ ~Halved(s)' /\ ~Free(s)'
          BY <3>1, <3>4, <1>2, <1>3, <1>4
             DEF BwHere, Owned, Granted, Halved, Free, AtHome, Half, Going
        <4>2. OwnedShape(s, bwBlock[h]) /\ bwBlock[h].tail = BwSize
          BY <4>1, <3>1, <1>1, <1>3, <1>4 DEF Shape, Shapes
        <4>3. GrantedShape(s, bwBlock'[h])
          BY <4>2, <1>4 DEF OwnedShape, GrantedShape
        <4>4. QED
          BY <4>1, <4>3 DEF Shape
      <3>5. QED
        BY <3>3, <3>4
    <2>2. QED
      BY <2>1, <1>2, <1>4 DEF Shapes, Window
  <1>9. Aims' /\ Claims'
    BY <1>1, <1>2, <1>6, ClaimsStay
  <1>10. Counted'
    BY <1>1, <1>2, <1>4, <1>5, <1>6, CountedStays DEF Half
  <1>11. ClaimsKept
    BY <1>1, <1>2, <1>5, PrizesStay
  <1>12. SlotsKept
    BY <1>5, <1>6, SlotsStay
  <1>13. QED
    BY <1>4, <1>7, <1>8, <1>9, <1>10, <1>11, <1>12 DEF BwForm

LEMMA TakeoverForm ==
  ASSUME BwForm, BwTakeover
  PROVE  BwForm' /\ SlotsKept /\ ClaimsKept
  <1>1. BwTypes /\ Bounds /\ Shapes /\ Aims /\ Claims /\ Counted
    BY DEF BwForm
  <1>2. UNCHANGED <<bwLast, bwStart, bwThief>> /\ bwOwner.pc = "takeover"
    BY DEF BwTakeover, BwOwnerAt
  <1>3. PICK h : h = BwIndex(bwLast - 1)
    OBVIOUS
  <1>4. bwLast > 0 /\ bwLast - 1 \in Window
    BY <1>1, <1>2, HereInWindow DEF Bounds, Going, BwTypes, BooksTyped
  <1>5. /\ bwOwner'.pc = "back" /\ h \in BlockIds /\ BwTypes'
        /\ OnlyAt(h)
        /\ bwBlock'[h].head = bwBlock[h].stealTail /\ bwBlock'[h].stealTail = bwBlock[h].head
        /\ bwBlock'[h].tail = bwBlock[h].tail /\ bwBlock'[h].count = bwBlock[h].count
        /\ bwBlock'[h].ring = bwBlock[h].ring
    BY <1>1, <1>3, <1>4, TakeoverEffect
  <1>6. \A x \in BlockIds :
          /\ bwBlock'[x].tail = bwBlock[x].tail
          /\ bwBlock'[x].count = bwBlock[x].count /\ bwBlock'[x].ring = bwBlock[x].ring
          /\ bwBlock[x] \in Block /\ bwBlock'[x] \in Block
    BY <1>1, <1>5 DEF OnlyAt, BwTypes, BlocksTyped
  <1>7. \A x \in BlockIds : Low(bwBlock'[x]) = Low(bwBlock[x])
    BY <1>5, <1>6, LowKept DEF OnlyAt
  <1>8. Bounds'
    BY <1>1, <1>2, <1>5 DEF Bounds, Leaving, Going
  <1>9. Shapes'
    <2>1. ASSUME NEW s \in Window
          PROVE  Shape(s)'
      <3>1. s \in Nat /\ BwIndex(s) \in BlockIds /\ Shape(s) /\ bwLast \in Nat
        BY <1>1, WindowBlocks DEF Shapes, BwTypes, BooksTyped
      <3>2. CASE s # bwLast - 1
        <4>1. BwIndex(s) # h
          BY <3>2, <1>1, <1>3, <1>4, WindowBlocks
        <4>2. SameHand(s)
          BY <3>1, <3>2, <1>2, <1>5 DEF SameHand, Owned, Granted, Halved, Free, AtHome, Half, Going
        <4>3. Ends(bwBlock[BwIndex(s)], bwBlock'[BwIndex(s)])
          BY <4>1, <3>1, <1>5 DEF OnlyAt, Ends
        <4>4. QED
          BY <4>2, <4>3, <3>1, <1>6, ShapeStays
      <3>3. CASE s = bwLast - 1
        <4>1. BwIndex(s) = h /\ Granted(s) /\ ~Granted(s)' /\ ~Halved(s)' /\ ~Free(s)'
          BY <3>1, <3>3, <1>2, <1>3, <1>5
             DEF Owned, Granted, Halved, Free, AtHome, Half, Going
        <4>2. GrantedShape(s, bwBlock[h])
          BY <4>1, <3>1 DEF Shape
        <4>3. bwBlock[h].stealTail[2] <= BwSize
          BY <1>5, <1>6, BlockFields, BwAssumption
        <4>4. OwnedShape(s, bwBlock'[h])
          BY <4>2, <4>3, <1>5 DEF OwnedShape, GrantedShape
        <4>5. QED
          BY <4>1, <4>4 DEF Shape
      <3>4. QED
        BY <3>2, <3>3
    <2>2. QED
      BY <2>1, <1>2, <1>5 DEF Shapes, Window
  <1>10. Aims' /\ Claims'
    BY <1>1, <1>2, <1>7, ClaimsStay
  <1>11. Counted'
    BY <1>1, <1>2, <1>5, <1>6, <1>7, CountedStays DEF Half
  <1>12. ClaimsKept
    BY <1>1, <1>2, <1>6, PrizesStay
  <1>13. SlotsKept
    BY <1>6, <1>7, SlotsStay
  <1>14. QED
    BY <1>5, <1>8, <1>9, <1>10, <1>11, <1>12, <1>13 DEF BwForm

(* Nobody holds a slot of a block that has counted every claim.            *)
LEMMA NobodyLeft ==
  ASSUME NEW x \in BlockIds, bwBlock[x] \in Block, Low(bwBlock[x]) \in Nat,
         bwBlock[x].count + Cardinality(Holders(bwThief, x)) = Low(bwBlock[x]),
         bwBlock[x].count = Low(bwBlock[x])
  PROVE  Holders(bwThief, x) = {}
  <1>1. IsFiniteSet(Holders(bwThief, x))
    BY BwAssumption, FS_Subset DEF Holders
  <1>2. Cardinality(Holders(bwThief, x)) \in Nat
    BY <1>1, FS_CardinalityType
  <1>3. Cardinality(Holders(bwThief, x)) = 0
    BY <1>2
  <1>4. QED
    BY <1>1, <1>3, FS_EmptySet

LEMMA NoHolders ==
  ASSUME BwTypes, Claims, NEW x \in BlockIds, Low(bwBlock[x]) = 0
  PROVE  Holders(bwThief, x) = {} /\ Cardinality(Holders(bwThief, x)) = 0
  <1>1. ASSUME NEW t \in Holders(bwThief, x)
        PROVE  FALSE
    <2>1. t \in BwThieves /\ Holds(bwThief, t) /\ PreyOf(bwThief, t) = x
      BY <1>1 DEF Holders
    <2>2. bwThief[t].spos[2] < 0
      BY <2>1 DEF Claims
    <2>3. bwThief[t].spos[2] \in 0 .. BwSize
      BY <2>1 DEF BwTypes, ThiefTyped, Positions
    <2>4. QED
      BY <2>2, <2>3, BwAssumption
  <1>2. Holders(bwThief, x) = {}
    BY <1>1
  <1>3. QED
    BY <1>2, FS_EmptySet

LEMMA ReclaimForm ==
  ASSUME BwForm, BwReclaim
  PROVE  BwForm' /\ SlotsKept /\ ClaimsKept
  <1>1. BwTypes /\ Bounds /\ Shapes /\ Aims /\ Claims /\ Counted
    BY DEF BwForm
  <1>2. UNCHANGED <<bwLast, bwStart, bwThief>>
    BY DEF BwReclaim
  <1>3. PICK h : h = BwNextIx
    OBVIOUS
  <1>4. /\ bwOwner.pc = "reclaim" /\ bwOwner'.pc = "close" /\ h \in BlockIds /\ BwTypes'
        /\ OnlyAt(h) /\ bwBlock[h].count = bwBlock[h].head[2]
        /\ bwBlock'[h].head = <<BwNextGen, 0>> /\ bwBlock'[h].tail = 0
        /\ bwBlock'[h].stealTail = bwBlock[h].stealTail
        /\ bwBlock'[h].ring = bwBlock[h].ring
    BY <1>1, <1>3, ReclaimEffect
  <1>5. \A x \in BlockIds :
          /\ bwBlock'[x].ring = bwBlock[x].ring
          /\ bwBlock[x] \in Block /\ bwBlock'[x] \in Block
    BY <1>1, <1>4 DEF OnlyAt, BwTypes, BlocksTyped
  <1>6. bwLast + 1 \in Window /\ bwLast \in Nat /\ h = BwIndex(bwLast + 1) /\ BwNextGen = BwGen(bwLast + 1)
    BY <1>1, <1>3, <1>4, HereInWindow DEF Leaving, BwNextIx, BwNextGen
  <1>7. FreeShape(bwLast + 1, bwBlock[h])
    BY <1>1, <1>4, <1>6 DEF Shapes, Shape, Free, Half
  <1>8. Low(bwBlock[h]) = bwBlock[h].head[2] /\ Low(bwBlock[h]) \in Nat
    BY <1>4, <1>5, <1>7, LowTyped, BwAssumption DEF FreeShape
  <1>9. Holders(bwThief, h) = {}
    <2>1. bwBlock[h].count + Cardinality(Holders(bwThief, h)) = Low(bwBlock[h])
      BY <1>1, <1>4 DEF Counted, Half
    <2>2. QED
      BY <2>1, <1>4, <1>5, <1>8, NobodyLeft
  <1>10. Bounds'
    BY <1>1, <1>2, <1>4 DEF Bounds, Leaving, Going
  <1>11. Shapes'
    <2>1. ASSUME NEW s \in Window
          PROVE  Shape(s)'
      <3>1. s \in Nat /\ BwIndex(s) \in BlockIds /\ Shape(s)
        BY <1>1, WindowBlocks DEF Shapes
      <3>2. CASE s # bwLast + 1
        <4>1. BwIndex(s) # h
          BY <3>2, <1>1, <1>6, WindowBlocks
        <4>2. SameHand(s)
          BY <3>2, <1>2, <1>4 DEF SameHand, Owned, Granted, Halved, Free, AtHome, Half, Going
        <4>3. /\ Ends(bwBlock[BwIndex(s)], bwBlock'[BwIndex(s)])
              /\ bwBlock'[BwIndex(s)].tail = bwBlock[BwIndex(s)].tail
          BY <4>1, <3>1, <1>4 DEF OnlyAt, Ends
        <4>4. QED
          BY <4>2, <4>3, <3>1, ShapeStays
      <3>3. CASE s = bwLast + 1
        <4>1. BwIndex(s) = h /\ ~Owned(s)' /\ ~Granted(s)' /\ ~Free(s)'
          BY <3>1, <3>3, <1>2, <1>4, <1>6
             DEF Owned, Granted, Halved, Free, AtHome, Half, Going
        <4>2. HalvedShape(s, bwBlock'[h], "close")
          BY <3>3, <1>4, <1>6, <1>7 DEF HalvedShape, FreeShape
        <4>3. QED
          BY <4>1, <4>2, <1>4 DEF Shape
      <3>4. QED
        BY <3>2, <3>3
    <2>2. QED
      BY <2>1, <1>2, <1>4 DEF Shapes, Window
  <1>12. \A x \in BlockIds : x # h => Low(bwBlock'[x]) = Low(bwBlock[x])
    BY <1>4 DEF OnlyAt
  <1>13. Aims' /\ Claims'
    BY <1>1, <1>2, <1>9, <1>12, ClaimsStay
  <1>14. Counted'
    <2>1. BwNextIx' = h
      BY <1>2, <1>3 DEF BwNextIx
    <2>2. ASSUME NEW x \in BlockIds, ~(x = BwNextIx' /\ bwOwner'.pc \in Half)
          PROVE  /\ ~(x = BwNextIx /\ bwOwner.pc \in Half)
                 /\ bwBlock'[x].count = bwBlock[x].count /\ Low(bwBlock'[x]) = Low(bwBlock[x])
      BY <2>1, <2>2, <1>4, <1>12 DEF Half, OnlyAt
    <2>3. QED
      BY <2>2, <1>1, <1>2, CountedStays
  <1>15. ClaimsKept
    BY <1>1, <1>2, <1>5, PrizesStay
  <1>16. SlotsKept
    <2>1. ASSUME NEW i \in Slots
          PROVE  ~LiveSlot(bwBlock'[h], i) /\ ~LiveSlot(bwBlock[h], i)
      <3>1. i \in Nat /\ bwBlock[h].tail \in Nat /\ bwBlock[h].tail <= Low(bwBlock[h])
        BY <1>4, <1>5, <1>7, <1>8, BlockFields, BwAssumption DEF FreeShape, Slots
      <3>2. QED
        BY <3>1, <1>4, <1>8 DEF LiveSlot
    <2>2. QED
      BY <2>1, <1>4 DEF SlotsKept, OnlyAt
  <1>17. QED
    BY <1>4, <1>10, <1>11, <1>13, <1>14, <1>15, <1>16 DEF BwForm

(* The half reset block: nothing is live in it and nobody holds a slot.    *)
LEMMA HalfEmpty ==
  ASSUME BwForm, bwOwner.pc \in Half
  PROVE  /\ bwLast + 1 \in Window /\ bwLast \in Nat
         /\ BwNextIx = BwIndex(bwLast + 1) /\ BwNextGen = BwGen(bwLast + 1)
         /\ HalvedShape(bwLast + 1, bwBlock[BwNextIx], bwOwner.pc)
         /\ BwNextIx \in BlockIds
         /\ Low(bwBlock[BwNextIx]) = 0
  <1>1. BwTypes /\ Bounds /\ Shapes
    BY DEF BwForm
  <1>2. /\ bwLast + 1 \in Window /\ bwLast \in Nat
        /\ BwNextIx = BwIndex(bwLast + 1) /\ BwNextGen = BwGen(bwLast + 1)
    BY <1>1, HereInWindow DEF Half, Leaving, BwNextIx, BwNextGen
  <1>3. HalvedShape(bwLast + 1, bwBlock[BwNextIx], bwOwner.pc)
    BY <1>1, <1>2 DEF Shapes, Shape, Halved
  <1>4. BwNextIx \in BlockIds
    BY <1>1, <1>2, WindowBlocks
  <1>5. bwBlock[BwNextIx] \in Block
    BY <1>1, <1>4 DEF BwTypes, BlocksTyped
  <1>6. Low(bwBlock[BwNextIx]) = 0
    BY <1>3, <1>5, LowTyped DEF HalvedShape
  <1>7. QED
    BY <1>2, <1>3, <1>4, <1>6

LEMMA CloseForm ==
  ASSUME BwForm, BwReclaimClose
  PROVE  BwForm' /\ SlotsKept /\ ClaimsKept
  <1>1. BwTypes /\ Bounds /\ Shapes /\ Aims /\ Claims /\ Counted
    BY DEF BwForm
  <1>2. UNCHANGED <<bwLast, bwStart, bwThief>>
    BY DEF BwReclaimClose
  <1>3. PICK h : h = BwNextIx
    OBVIOUS
  <1>4. /\ bwOwner.pc = "close" /\ bwOwner'.pc = "recount" /\ h \in BlockIds /\ BwTypes'
        /\ OnlyAt(h)
        /\ bwBlock'[h].head = bwBlock[h].head /\ bwBlock'[h].tail = bwBlock[h].tail
        /\ bwBlock'[h].stealTail = <<BwNextGen, BwSize>>
        /\ bwBlock'[h].ring = bwBlock[h].ring
    BY <1>1, <1>3, CloseEffect
  <1>5. \A x \in BlockIds :
          /\ bwBlock'[x].ring = bwBlock[x].ring /\ bwBlock'[x].tail = bwBlock[x].tail
          /\ bwBlock[x] \in Block /\ bwBlock'[x] \in Block
    BY <1>1, <1>4 DEF OnlyAt, BwTypes, BlocksTyped
  <1>6. /\ bwLast + 1 \in Window /\ bwLast \in Nat
        /\ h = BwIndex(bwLast + 1) /\ BwNextGen = BwGen(bwLast + 1)
        /\ HalvedShape(bwLast + 1, bwBlock[h], "close")
    BY <1>3, <1>4, HalfEmpty DEF Half
  <1>7. \A x \in BlockIds : Low(bwBlock'[x]) = Low(bwBlock[x])
    <2>1. bwBlock'[h].stealTail[2] = bwBlock[h].stealTail[2]
      BY <1>4, <1>6 DEF HalvedShape
    <2>2. QED
      BY <2>1, <1>4, <1>5, LowKept DEF OnlyAt
  <1>8. Bounds'
    BY <1>1, <1>2, <1>4 DEF Bounds, Leaving, Going
  <1>9. Shapes'
    <2>1. ASSUME NEW s \in Window
          PROVE  Shape(s)'
      <3>1. s \in Nat /\ BwIndex(s) \in BlockIds /\ Shape(s)
        BY <1>1, WindowBlocks DEF Shapes
      <3>2. CASE s # bwLast + 1
        <4>1. BwIndex(s) # h
          BY <3>2, <1>1, <1>6, WindowBlocks
        <4>2. SameHand(s)
          BY <3>2, <1>2, <1>4 DEF SameHand, Owned, Granted, Halved, Free, AtHome, Half, Going
        <4>3. /\ Ends(bwBlock[BwIndex(s)], bwBlock'[BwIndex(s)])
              /\ bwBlock'[BwIndex(s)].tail = bwBlock[BwIndex(s)].tail
          BY <4>1, <3>1, <1>4 DEF OnlyAt, Ends
        <4>4. QED
          BY <4>2, <4>3, <3>1, ShapeStays
      <3>3. CASE s = bwLast + 1
        <4>1. BwIndex(s) = h /\ ~Owned(s)' /\ ~Granted(s)' /\ ~Free(s)'
          BY <3>1, <3>3, <1>2, <1>4, <1>6
             DEF Owned, Granted, Halved, Free, AtHome, Half, Going
        <4>2. HalvedShape(s, bwBlock'[h], "recount")
          BY <3>3, <1>4, <1>6 DEF HalvedShape
        <4>3. QED
          BY <4>1, <4>2, <1>4 DEF Shape
      <3>4. QED
        BY <3>2, <3>3
    <2>2. QED
      BY <2>1, <1>2, <1>4 DEF Shapes, Window
  <1>10. Aims' /\ Claims'
    BY <1>1, <1>2, <1>7, ClaimsStay
  <1>11. Counted'
    <2>1. BwNextIx' = h
      BY <1>2, <1>3 DEF BwNextIx
    <2>2. ASSUME NEW x \in BlockIds, ~(x = BwNextIx' /\ bwOwner'.pc \in Half)
          PROVE  /\ ~(x = BwNextIx /\ bwOwner.pc \in Half)
                 /\ bwBlock'[x].count = bwBlock[x].count /\ Low(bwBlock'[x]) = Low(bwBlock[x])
      BY <2>1, <2>2, <1>3, <1>4, <1>7 DEF Half, OnlyAt
    <2>3. QED
      BY <2>2, <1>1, <1>2, CountedStays
  <1>12. ClaimsKept
    BY <1>1, <1>2, <1>5, PrizesStay
  <1>13. SlotsKept
    BY <1>5, <1>7, SlotsStay
  <1>14. QED
    BY <1>4, <1>8, <1>9, <1>10, <1>11, <1>12, <1>13 DEF BwForm

LEMMA RecountForm ==
  ASSUME BwForm, BwReclaimCount
  PROVE  BwForm' /\ SlotsKept /\ ClaimsKept
  <1>1. BwTypes /\ Bounds /\ Shapes /\ Aims /\ Claims /\ Counted
    BY DEF BwForm
  <1>2. UNCHANGED <<bwLast, bwStart, bwThief>>
    BY DEF BwReclaimCount
  <1>3. PICK h : h = BwNextIx
    OBVIOUS
  <1>4. /\ bwOwner.pc = "recount" /\ bwOwner'.pc = "forward" /\ h \in BlockIds /\ BwTypes'
        /\ OnlyAt(h) /\ Ends(bwBlock[h], bwBlock'[h])
        /\ bwBlock'[h].tail = bwBlock[h].tail /\ bwBlock'[h].count = 0
        /\ bwBlock'[h].ring = bwBlock[h].ring
    BY <1>1, <1>3, RecountEffect
  <1>5. \A x \in BlockIds :
          /\ bwBlock'[x].ring = bwBlock[x].ring /\ bwBlock'[x].tail = bwBlock[x].tail
          /\ Ends(bwBlock[x], bwBlock'[x])
          /\ bwBlock[x] \in Block /\ bwBlock'[x] \in Block
    BY <1>1, <1>4 DEF OnlyAt, Ends, BwTypes, BlocksTyped
  <1>6. /\ bwLast + 1 \in Window /\ bwLast \in Nat
        /\ h = BwIndex(bwLast + 1)
        /\ HalvedShape(bwLast + 1, bwBlock[h], "recount")
        /\ Low(bwBlock[h]) = 0
    BY <1>3, <1>4, HalfEmpty DEF Half
  <1>7. \A x \in BlockIds : Low(bwBlock'[x]) = Low(bwBlock[x])
    BY <1>5, LowKept DEF Ends
  <1>8. Bounds'
    BY <1>1, <1>2, <1>4 DEF Bounds, Leaving, Going
  <1>9. Shapes'
    <2>1. ASSUME NEW s \in Window
          PROVE  Shape(s)'
      <3>1. s \in Nat /\ BwIndex(s) \in BlockIds /\ Shape(s)
        BY <1>1, WindowBlocks DEF Shapes
      <3>2. CASE s # bwLast + 1
        <4>1. SameHand(s)
          BY <3>2, <1>2, <1>4 DEF SameHand, Owned, Granted, Halved, Free, AtHome, Half, Going
        <4>2. QED
          BY <4>1, <3>1, <1>5, ShapeStays
      <3>3. CASE s = bwLast + 1
        <4>1. BwIndex(s) = h /\ ~Halved(s)' /\ ~Granted(s)' /\ ~Free(s)'
          BY <3>1, <3>3, <1>2, <1>4, <1>6
             DEF Owned, Granted, Halved, Free, AtHome, Half, Going
        <4>2. OwnedShape(s, bwBlock'[h])
          <5>1. /\ bwBlock'[h].head = <<BwGen(s), 0>> /\ bwBlock'[h].tail = 0
                /\ bwBlock'[h].stealTail[1] = BwGen(s) /\ bwBlock'[h].stealTail[2] = BwSize
            BY <3>3, <1>4, <1>6 DEF HalvedShape, Ends
          <5>2. bwBlock'[h].stealTail = <<bwBlock'[h].stealTail[1], bwBlock'[h].stealTail[2]>>
            BY <1>4, <1>5, BlockFields
          <5>3. QED
            BY <5>1, <5>2 DEF OwnedShape
        <4>3. QED
          BY <4>1, <4>2, <1>4 DEF Shape
      <3>4. QED
        BY <3>2, <3>3
    <2>2. QED
      BY <2>1, <1>2, <1>4 DEF Shapes, Window
  <1>10. Aims' /\ Claims'
    BY <1>1, <1>2, <1>7, ClaimsStay
  <1>11. Counted'
    <2>1. Cardinality(Holders(bwThief, h)) = 0
      BY <1>1, <1>4, <1>6, NoHolders
    <2>2. bwBlock'[h].count + Cardinality(Holders(bwThief, h)) = Low(bwBlock'[h])
      BY <2>1, <1>4, <1>6, <1>7
    <2>3. \A x \in BlockIds : x # h =>
            /\ ~(x = BwNextIx /\ bwOwner.pc \in Half)
            /\ bwBlock'[x].count = bwBlock[x].count /\ Low(bwBlock'[x]) = Low(bwBlock[x])
      BY <1>3, <1>4, <1>7 DEF OnlyAt
    <2>4. QED
      BY <2>2, <2>3, <1>1, <1>2, CountedStays
  <1>12. ClaimsKept
    BY <1>1, <1>2, <1>5, PrizesStay
  <1>13. SlotsKept
    BY <1>5, <1>7, SlotsStay
  <1>14. QED
    BY <1>4, <1>8, <1>9, <1>10, <1>11, <1>12, <1>13 DEF BwForm

LEMMA GetForm ==
  ASSUME BwForm, BwGet
  PROVE  BwForm' /\ ClaimsKept
  <1>1. BwTypes /\ Bounds /\ Shapes /\ Aims /\ Claims /\ Counted
    BY DEF BwForm
  <1>2. UNCHANGED <<bwLast, bwStart, bwThief>>
    BY DEF BwGet
  <1>3. PICK h : h = BwHere
    OBVIOUS
  <1>4. /\ bwOwner.pc = "get" /\ bwOwner'.pc = "idle" /\ h \in BlockIds /\ BwTypes'
        /\ OnlyAt(h) /\ Ends(bwBlock[h], bwBlock'[h])
        /\ bwBlock[h].tail > 0 /\ bwBlock[h].head[2] # bwBlock[h].tail
        /\ bwBlock'[h].tail = bwBlock[h].tail - 1 /\ bwBlock'[h].count = bwBlock[h].count
        /\ bwBlock'[h].ring = bwBlock[h].ring
    BY <1>1, <1>3, GetEffect
  <1>5. \A x \in BlockIds :
          /\ Ends(bwBlock[x], bwBlock'[x])
          /\ bwBlock'[x].count = bwBlock[x].count /\ bwBlock'[x].ring = bwBlock[x].ring
          /\ bwBlock[x] \in Block /\ bwBlock'[x] \in Block
    BY <1>1, <1>4 DEF OnlyAt, Ends, BwTypes, BlocksTyped
  <1>6. \A x \in BlockIds : Low(bwBlock'[x]) = Low(bwBlock[x])
    BY <1>5, LowKept DEF Ends
  <1>7. Bounds'
    BY <1>1, <1>2, <1>4 DEF Bounds, Leaving, Going
  <1>8. Shapes'
    <2>1. ASSUME NEW s \in Window
          PROVE  Shape(s)'
      <3>1. s \in Nat /\ BwIndex(s) \in BlockIds /\ Shape(s)
        BY <1>1, WindowBlocks DEF Shapes
      <3>2. SameHand(s)
        BY <1>2, <1>4 DEF SameHand, Owned, Granted, Halved, Free, AtHome, Half, Going
      <3>3. CASE s # bwLast
        <4>1. BwIndex(s) # h
          BY <3>3, <1>1, <1>3, HereInWindow, WindowBlocks DEF BwHere
        <4>2. QED
          BY <4>1, <3>1, <3>2, <1>4, <1>5, ShapeStays DEF OnlyAt
      <3>4. CASE s = bwLast
        <4>1. BwIndex(s) = h /\ Owned(s) /\ ~Granted(s)' /\ ~Halved(s)' /\ ~Free(s)'
          BY <3>1, <3>4, <1>2, <1>3, <1>4
             DEF BwHere, Owned, Granted, Halved, Free, AtHome, Half, Going
        <4>2. OwnedShape(s, bwBlock[h])
          BY <4>1, <3>1 DEF Shape
        <4>3. bwBlock[h].head[2] \in Int /\ bwBlock[h].tail \in Int
          BY <1>4, <1>5, BlockFields, BwAssumption
        <4>4. OwnedShape(s, bwBlock'[h])
          BY <4>2, <4>3, <1>4 DEF OwnedShape, Ends
        <4>5. QED
          BY <4>1, <4>4 DEF Shape
      <3>5. QED
        BY <3>3, <3>4
    <2>2. QED
      BY <2>1, <1>2, <1>4 DEF Shapes, Window
  <1>9. Aims' /\ Claims'
    BY <1>1, <1>2, <1>6, ClaimsStay
  <1>10. Counted'
    BY <1>1, <1>2, <1>4, <1>5, <1>6, CountedStays DEF Half
  <1>11. ClaimsKept
    BY <1>1, <1>2, <1>5, PrizesStay
  <1>12. QED
    BY <1>4, <1>7, <1>8, <1>9, <1>10, <1>11 DEF BwForm

LEMMA ReduceForm ==
  ASSUME BwForm, BwReduceGeneration
  PROVE  BwForm' /\ SlotsKept /\ ClaimsKept
  <1>1. BwTypes /\ Bounds /\ Shapes /\ Aims /\ Claims /\ Counted
    BY DEF BwForm
  <1>2. UNCHANGED <<bwLast, bwStart, bwThief>>
    BY DEF BwReduceGeneration
  <1>3. PICK h : h = BwHere
    OBVIOUS
  <1>4. /\ bwOwner.pc = "get" /\ bwOwner'.pc = "takeover" /\ h \in BlockIds /\ BwTypes'
        /\ OnlyAt(h) /\ bwStart # bwLast
        /\ bwBlock[h].tail = 0 \/ bwBlock[h].head[2] = bwBlock[h].tail
        /\ bwBlock'[h].head = bwBlock[h].head
        /\ bwBlock'[h].stealTail = <<BwPrevGen(bwBlock[h].stealTail[1]), bwBlock[h].stealTail[2]>>
        /\ bwBlock'[h].tail = bwBlock[h].tail /\ bwBlock'[h].count = bwBlock[h].count
        /\ bwBlock'[h].ring = bwBlock[h].ring
    BY <1>1, <1>3, ReduceEffect
  <1>5. \A x \in BlockIds :
          /\ bwBlock'[x].tail = bwBlock[x].tail
          /\ bwBlock'[x].count = bwBlock[x].count /\ bwBlock'[x].ring = bwBlock[x].ring
          /\ bwBlock[x] \in Block /\ bwBlock'[x] \in Block
    BY <1>1, <1>4 DEF OnlyAt, BwTypes, BlocksTyped
  <1>6. \A x \in BlockIds : Low(bwBlock'[x]) = Low(bwBlock[x])
    BY <1>4, <1>5, LowKept DEF OnlyAt
  <1>7. Bounds'
    BY <1>1, <1>2, <1>4 DEF Bounds, Leaving, Going, BwTypes, BooksTyped
  <1>8. Shapes'
    <2>1. ASSUME NEW s \in Window
          PROVE  Shape(s)'
      <3>1. s \in Nat /\ BwIndex(s) \in BlockIds /\ Shape(s)
        BY <1>1, WindowBlocks DEF Shapes
      <3>2. CASE s # bwLast
        <4>1. BwIndex(s) # h
          BY <3>2, <1>1, <1>3, HereInWindow, WindowBlocks DEF BwHere
        <4>2. SameHand(s)
          BY <3>2, <1>2, <1>4 DEF SameHand, Owned, Granted, Halved, Free, AtHome, Half, Going
        <4>3. Ends(bwBlock[BwIndex(s)], bwBlock'[BwIndex(s)])
          BY <4>1, <3>1, <1>4 DEF OnlyAt, Ends
        <4>4. QED
          BY <4>2, <4>3, <3>1, <1>5, ShapeStays
      <3>3. CASE s = bwLast
        <4>1. BwIndex(s) = h /\ Owned(s) /\ ~Owned(s)' /\ ~Halved(s)' /\ ~Granted(s)'
          BY <3>1, <3>3, <1>2, <1>3, <1>4
             DEF BwHere, Owned, Granted, Halved, Free, AtHome, Half, Going
        <4>2. OwnedShape(s, bwBlock[h])
          BY <4>1, <3>1 DEF Shape
        <4>3. bwBlock[h].tail <= bwBlock[h].head[2]
          BY <1>4, <1>5, BlockFields, BwAssumption
        <4>4. FreeShape(s, bwBlock'[h])
          BY <4>2, <4>3, <1>4 DEF OwnedShape, FreeShape
        <4>5. QED
          BY <4>1, <4>4 DEF Shape
      <3>4. QED
        BY <3>2, <3>3
    <2>2. QED
      BY <2>1, <1>2, <1>4 DEF Shapes, Window
  <1>9. Aims' /\ Claims'
    BY <1>1, <1>2, <1>6, ClaimsStay
  <1>10. Counted'
    BY <1>1, <1>2, <1>4, <1>5, <1>6, CountedStays DEF Half
  <1>11. ClaimsKept
    BY <1>1, <1>2, <1>5, PrizesStay
  <1>12. SlotsKept
    BY <1>5, <1>6, SlotsStay
  <1>13. QED
    BY <1>4, <1>7, <1>8, <1>9, <1>10, <1>11, <1>12 DEF BwForm

-----------------------------------------------------------------------------
(* With the blocks and the thieves as they were, so are slots and claims.  *)
LEMMA NothingMoved ==
  ASSUME UNCHANGED <<bwBlock, bwThief>>
  PROVE  SlotsKept /\ ClaimsKept
  BY DEF SlotsKept, ClaimsKept

(* The owner starts or ends a call on the block it is in.                  *)
LEMMA CallForm ==
  ASSUME BwForm, BwTypes', UNCHANGED <<bwBlock, bwLast, bwStart, bwThief>>,
         bwOwner.pc \in {"idle", "put", "get"}, bwOwner'.pc \in {"idle", "put", "get"}
  PROVE  BwForm' /\ SlotsKept /\ ClaimsKept
  <1>1. BwTypes /\ Bounds /\ Shapes /\ Aims /\ Claims /\ Counted
    BY DEF BwForm
  <1>2. Bounds'
    BY <1>1 DEF Bounds, Leaving, Going
  <1>3. Shapes'
    <2>1. ASSUME NEW s \in Window
          PROVE  Shape(s)'
      <3>1. s \in Nat /\ Shape(s)
        BY <1>1, WindowBlocks DEF Shapes
      <3>2. SameHand(s)
        BY DEF SameHand, Owned, Granted, Halved, Free, AtHome, Half, Going
      <3>3. QED
        BY <3>1, <3>2, ShapeStays DEF Ends
    <2>2. QED
      BY <2>1 DEF Shapes, Window
  <1>4. Aims' /\ Claims'
    BY <1>1, ClaimsStay
  <1>5. Counted'
    BY <1>1, CountedStays DEF Half
  <1>6. QED
    BY <1>2, <1>3, <1>4, <1>5, NothingMoved DEF BwForm

(* The next block is that of the start exactly when the queue has come     *)
(* round.                                                                  *)
LEMMA ComeRound ==
  ASSUME BwTypes, Bounds
  PROVE  /\ bwLast + 1 <= bwStart + BwBlocks
         /\ BwNextIx = BwIndex(bwStart) <=> bwLast + 1 = bwStart + BwBlocks
         /\ bwLast + 1 = bwStart + BwBlocks => BwNextGen = BwGen(bwStart) + 1 /\ bwStart < bwLast
  <1>1. PICK s, u : s = bwStart /\ u = bwLast + 1
    OBVIOUS
  <1>2. s \in Nat /\ u \in Nat /\ s < u /\ u <= s + BwBlocks /\ BwBlocks \in Nat
    BY <1>1, BwAssumption DEF BwTypes, BooksTyped, Bounds
  <1>3. CASE u = s + BwBlocks
    <2>1. BwIndex(u) = BwIndex(s) /\ BwGen(u) = BwGen(s) + 1
      BY <1>2, <1>3, NextRound
    <2>2. bwStart < bwLast
      BY <1>1, <1>2, <1>3, BwAssumption DEF BwTypes, BooksTyped
    <2>3. QED
      BY <2>1, <2>2, <1>1, <1>2, <1>3 DEF BwNextIx, BwNextGen
  <1>4. CASE u < s + BwBlocks
    <2>1. BwIndex(u) # BwIndex(s)
      BY <1>2, <1>4, Apart
    <2>2. QED
      BY <2>1, <1>1, <1>2, <1>4 DEF BwNextIx
  <1>5. QED
    BY <1>2, <1>3, <1>4

LEMMA ExtendForm ==
  ASSUME BwForm, BwAdvancePut, Extend
  PROVE  BwForm' /\ SlotsKept /\ ClaimsKept
  <1>1. BwTypes /\ Bounds /\ Shapes /\ Aims /\ Claims /\ Counted
    BY DEF BwForm
  <1>2. /\ UNCHANGED <<bwBlock, bwLast, bwThief>> /\ bwBlock[BwHere].tail >= BwSize
        /\ BwGen(bwLast + 1) <= BwMaxGen
    BY DEF BwAdvancePut, BwNextSequence
  <1>3. bwOwner.pc = "put" /\ bwOwner'.pc = "grant" /\ BwTypes'
    BY <1>1, ExtendEffect
  <1>4. /\ bwStart \in Nat /\ bwLast \in Nat /\ BwBlocks \in Nat /\ bwStart <= bwLast
        /\ bwLast + 1 <= bwStart + BwBlocks
        /\ \/ bwLast + 1 = bwStart + BwBlocks /\ bwStart' = bwStart + 1 /\ bwStart < bwLast
           \/ bwLast + 1 < bwStart + BwBlocks /\ bwStart' = bwStart
    BY <1>1, ComeRound, BwAssumption DEF Extend, BwTypes, BooksTyped, Bounds
  <1>5. Bounds'
    BY <1>1, <1>2, <1>3, <1>4 DEF Bounds, Leaving, Going
  <1>6. BwHere \in BlockIds /\ bwBlock[BwHere].tail = BwSize
    <2>1. BwHere \in BlockIds
      BY <1>4, SeqParts DEF BwHere
    <2>2. QED
      BY <2>1, <1>1, <1>2, BlockFields, BwAssumption DEF BwTypes, BlocksTyped
  <1>7. Shapes'
    <2>1. ASSUME NEW s \in Window'
          PROVE  Shape(s)'
      <3>1. s \in Nat /\ (s \in Window \/ (s = bwLast + 1 /\ bwLast + 1 = bwStart + BwBlocks))
        BY <1>4 DEF Window
      <3>2. CASE s \in Window
        <4>1. Shape(s)
          BY <3>2, <1>1 DEF Shapes
        <4>2. SameHand(s)
          BY <1>2, <1>3 DEF SameHand, Owned, Granted, Halved, Free, AtHome, Half, Going
        <4>3. QED
          BY <4>1, <4>2, <3>1, <1>2, ShapeStays DEF Ends
      <3>3. CASE s = bwLast + 1 /\ bwLast + 1 = bwStart + BwBlocks
        <4>1. PICK h : h = BwIndex(s)
          OBVIOUS
        <4>2. h = BwIndex(bwStart) /\ h = BwNextIx /\ BwNextGen = BwGen(s)
          BY <4>1, <3>3, <1>1, ComeRound DEF BwNextIx, BwNextGen
        <4>3. bwStart \in Window /\ Granted(bwStart)
          BY <3>3, <1>3, <1>4, BwAssumption DEF Window, Granted
        <4>4. GrantedShape(bwStart, bwBlock[h])
          BY <4>2, <4>3, <1>1 DEF Shapes, Shape
        <4>5. bwBlock[h].stealTail = <<BwPrevGen(BwGen(s)), BwSize>>
          BY <4>2 DEF Extend, BwIsWritable
        <4>6. FreeShape(s, bwBlock'[h])
          BY <4>4, <4>5, <1>2, BwAssumption DEF GrantedShape, FreeShape
        <4>7. ~Owned(s)' /\ ~Granted(s)' /\ ~Halved(s)'
          BY <3>3, <1>2, <1>3, <1>4 DEF Owned, Granted, Halved, AtHome, Half
        <4>8. QED
          BY <4>1, <4>6, <4>7 DEF Shape
      <3>4. QED
        BY <3>1, <3>2, <3>3
    <2>2. QED
      BY <2>1, <1>2, <1>3, <1>6 DEF Shapes, BwHere
  <1>8. Aims' /\ Claims'
    BY <1>1, <1>2, ClaimsStay
  <1>9. Counted'
    BY <1>1, <1>2, <1>3, CountedStays DEF Half
  <1>10. QED
    BY <1>2, <1>3, <1>5, <1>7, <1>8, <1>9, NothingMoved DEF BwForm

LEMMA ForwardForm ==
  ASSUME BwForm, BwForward
  PROVE  BwForm' /\ SlotsKept /\ ClaimsKept
  <1>1. BwTypes /\ Bounds /\ Shapes /\ Aims /\ Claims /\ Counted
    BY DEF BwForm
  <1>2. UNCHANGED <<bwBlock, bwStart, bwThief>> /\ bwLast' = bwLast + 1
    BY DEF BwForward
  <1>3. bwOwner.pc = "forward" /\ bwOwner'.pc = "put" /\ BwTypes'
    BY <1>1, ForwardEffect
  <1>4. bwStart \in Nat /\ bwLast \in Nat
    BY <1>1 DEF BwTypes, BooksTyped
  <1>5. Bounds'
    BY <1>1, <1>2, <1>3, <1>4 DEF Bounds, Leaving, Going
  <1>6. Shapes'
    <2>1. ASSUME NEW s \in Window
          PROVE  Shape(s)'
      <3>1. s \in Nat /\ Shape(s)
        BY <1>1, WindowBlocks DEF Shapes
      <3>2. SameHand(s)
        BY <3>1, <1>2, <1>3, <1>4 DEF SameHand, Owned, Granted, Halved, Free, AtHome, Half, Going
      <3>3. QED
        BY <3>1, <3>2, <1>2, ShapeStays DEF Ends
    <2>2. QED
      BY <2>1, <1>2, <1>3 DEF Shapes, Window
  <1>7. Aims' /\ Claims'
    BY <1>1, <1>2, ClaimsStay
  <1>8. Counted'
    BY <1>1, <1>2, <1>3, CountedStays DEF Half
  <1>9. QED
    BY <1>2, <1>3, <1>5, <1>6, <1>7, <1>8, NothingMoved DEF BwForm

LEMMA BackForm ==
  ASSUME BwForm, BwBack
  PROVE  BwForm' /\ SlotsKept /\ ClaimsKept
  <1>1. BwTypes /\ Bounds /\ Shapes /\ Aims /\ Claims /\ Counted
    BY DEF BwForm
  <1>2. /\ UNCHANGED <<bwBlock, bwStart, bwThief>> /\ bwLast' = bwLast - 1
        /\ bwOwner.pc = "back"
    BY DEF BwBack, BwOwnerAt
  <1>3. bwStart \in Nat /\ bwLast \in Nat /\ bwStart < bwLast
    BY <1>1, <1>2 DEF BwTypes, BooksTyped, Bounds, Going
  <1>4. bwOwner'.pc = "get" /\ BwTypes'
    BY <1>1, <1>3, BackEffect
  <1>5. Bounds'
    <2>1. BwGen(bwLast - 1) <= BwGen(bwLast) /\ BwGen(bwLast - 1) \in Nat /\ BwGen(bwLast) \in Nat
      BY <1>3, GenRises, SeqParts
    <2>2. BwGen(bwLast - 1) <= BwMaxGen
      BY <2>1, <1>1, BwAssumption DEF Bounds
    <2>3. QED
      BY <2>2, <1>1, <1>2, <1>3, <1>4, BwAssumption DEF Bounds, Leaving, Going
  <1>6. Shapes'
    <2>1. ASSUME NEW s \in Window
          PROVE  Shape(s)'
      <3>1. s \in Nat /\ Shape(s)
        BY <1>1, WindowBlocks DEF Shapes
      <3>2. SameHand(s)
        BY <3>1, <1>2, <1>3, <1>4 DEF SameHand, Owned, Granted, Halved, Free, AtHome, Half, Going
      <3>3. QED
        BY <3>1, <3>2, <1>2, ShapeStays DEF Ends
    <2>2. QED
      BY <2>1, <1>2, <1>4 DEF Shapes, Window
  <1>7. Aims' /\ Claims'
    BY <1>1, <1>2, ClaimsStay
  <1>8. Counted'
    BY <1>1, <1>2, <1>4, CountedStays DEF Half
  <1>9. QED
    BY <1>2, <1>4, <1>5, <1>6, <1>7, <1>8, NothingMoved DEF BwForm

-----------------------------------------------------------------------------
(* The thieves' steps keep the form.                                       *)

(* A step of a thief that leaves the ends of every block but steal_tail's  *)
(* slot leaves bounds and shapes alone.                                    *)
LEMMA ThiefShapes ==
  ASSUME BwTypes, Bounds, Shapes, UNCHANGED <<bwLast, bwStart, bwOwner>>,
         \A s \in Window : Ends(bwBlock[BwIndex(s)], bwBlock'[BwIndex(s)]) \/ Shape(s)',
         \A x \in BlockIds : bwBlock'[x].tail = bwBlock[x].tail
  PROVE  Bounds' /\ Shapes'
  <1>1. Bounds'
    BY DEF Bounds
  <1>2. ASSUME NEW s \in Window
        PROVE  Shape(s)'
    <2>1. s \in Nat /\ BwIndex(s) \in BlockIds /\ Shape(s)
      BY WindowBlocks DEF Shapes
    <2>2. SameHand(s)
      BY DEF SameHand, Owned, Granted, Halved, Free
    <2>3. QED
      BY <2>1, <2>2, ShapeStays
  <1>3. BwHere \in BlockIds
    BY SeqParts DEF BwHere, BwTypes, BooksTyped
  <1>4. QED
    BY <1>1, <1>2, <1>3 DEF Shapes, Window, BwHere

LEMMA RoamsForm ==
  ASSUME BwForm, NEW t \in BwThieves, Roams(t)
  PROVE  BwForm' /\ SlotsKept /\ ClaimsKept
  <1>1. BwTypes /\ Bounds /\ Shapes /\ Aims /\ Claims /\ Counted
    BY DEF BwForm
  <1>2. /\ UNCHANGED <<bwBlock, bwLast, bwStart, bwOwner>> /\ BwTypes'
        /\ \A u \in BwThieves : u # t => bwThief'[u] = bwThief[u]
        /\ ~Holds(bwThief, t) /\ ~Holds(bwThief', t)
        /\ bwThief'[t].pc \in {"tail", "cas"} => bwThief'[t].spos[2] < BwSize
    BY <1>1, RoamsEffect DEF OnlyThief
  <1>3. Bounds' /\ Shapes'
    BY <1>1, <1>2, ThiefShapes DEF Ends
  <1>4. Aims'
    BY <1>1, <1>2 DEF Aims
  <1>5. \A u \in BwThieves :
          /\ Holds(bwThief', u) <=> Holds(bwThief, u)
          /\ Holds(bwThief, u) => bwThief'[u] = bwThief[u]
    BY <1>2 DEF Holds
  <1>6. Claims'
    BY <1>1, <1>2, <1>5 DEF Claims, PreyOf
  <1>7. \A x \in BlockIds : Holders(bwThief', x) = Holders(bwThief, x)
    BY <1>5 DEF Holders, PreyOf
  <1>8. Counted'
    BY <1>1, <1>2, <1>7 DEF Counted, BwNextIx
  <1>9. ClaimsKept
    BY <1>2, <1>5 DEF ClaimsKept, Prize, PreyOf
  <1>10. SlotsKept
    BY <1>2 DEF SlotsKept
  <1>11. QED
    BY <1>2, <1>3, <1>4, <1>6, <1>8, <1>9, <1>10 DEF BwForm

LEMMA ReadForm ==
  ASSUME BwForm, NEW t \in BwThieves, BwRead(t)
  PROVE  BwForm' /\ SlotsKept /\ ClaimsKept
  <1>1. BwTypes /\ Bounds /\ Shapes /\ Aims /\ Claims /\ Counted
    BY DEF BwForm
  <1>2. UNCHANGED <<bwBlock, bwLast, bwStart, bwOwner>> /\ bwThief[t].pc = "read"
    BY DEF BwRead, BwThiefAt
  <1>3. bwThief[t].spos[2] < BwSize
    <2>1. PICK x, i : x = PreyOf(bwThief, t) /\ i = bwThief[t].spos[2]
      OBVIOUS
    <2>2. x \in BlockIds /\ i \in 0 .. BwSize
      BY <2>1, <1>1, SeqParts DEF BwTypes, ThiefTyped, PreyOf, Positions
    <2>3. i < Low(bwBlock[x])
      BY <2>1, <1>1, <1>2 DEF Claims, Holds
    <2>4. Low(bwBlock[x]) \in 0 .. BwSize
      BY <2>2, <1>1, LowTyped DEF BwTypes, BlocksTyped
    <2>5. QED
      BY <2>1, <2>2, <2>3, <2>4, BwAssumption
  <1>4. /\ BwTypes' /\ \A u \in BwThieves : u # t => bwThief'[u] = bwThief[u]
        /\ bwThief'[t].pc = "count"
        /\ bwThief'[t].seq = bwThief[t].seq /\ bwThief'[t].spos = bwThief[t].spos
        /\ bwThief'[t].value = bwBlock[PreyOf(bwThief, t)].ring[bwThief[t].spos[2]]
    BY <1>1, <1>3, ReadEffect DEF OnlyThief
  <1>5. Bounds' /\ Shapes'
    BY <1>1, <1>2, ThiefShapes DEF Ends
  <1>6. Aims'
    BY <1>1, <1>4 DEF Aims
  <1>7. \A u \in BwThieves :
          /\ Holds(bwThief', u) <=> Holds(bwThief, u)
          /\ PreyOf(bwThief', u) = PreyOf(bwThief, u) /\ bwThief'[u].spos = bwThief[u].spos
    BY <1>2, <1>4 DEF Holds, PreyOf
  <1>8. Claims'
    BY <1>1, <1>2, <1>7 DEF Claims
  <1>9. \A x \in BlockIds : Holders(bwThief', x) = Holders(bwThief, x)
    BY <1>7 DEF Holders
  <1>10. Counted'
    BY <1>1, <1>2, <1>9 DEF Counted, BwNextIx
  <1>11. ClaimsKept
    BY <1>2, <1>4, <1>7 DEF ClaimsKept, Prize
  <1>12. SlotsKept
    BY <1>2 DEF SlotsKept
  <1>13. QED
    BY <1>4, <1>5, <1>6, <1>8, <1>10, <1>11, <1>12 DEF BwForm

(* The claim of a slot: the block is one the owner has left, and the slot  *)
(* is live until this moment.                                              *)
LEMMA ClaimForm ==
  ASSUME BwForm, NEW t \in BwThieves, BwClaim(t)
  PROVE  /\ BwForm' /\ UNCHANGED <<bwLast, bwStart, bwOwner, bwPushed, bwRefused, bwOut>>
         /\ ~Holds(bwThief, t) /\ Holds(bwThief', t)
         /\ \A u \in BwThieves : u # t =>
              /\ Holds(bwThief', u) <=> Holds(bwThief, u)
              /\ Prize(bwBlock', bwThief', u) = Prize(bwBlock, bwThief, u)
         /\ \E x \in BlockIds, k \in Slots :
              /\ LiveSlot(bwBlock[x], k) /\ Prize(bwBlock', bwThief', t) = bwBlock[x].ring[k]
              /\ \A y \in BlockIds : bwBlock'[y].ring = bwBlock[y].ring
              /\ \A y \in BlockIds : \A i \in Slots :
                   LiveSlot(bwBlock'[y], i) <=> LiveSlot(bwBlock[y], i) /\ ~(y = x /\ i = k)
  <1>1. BwTypes /\ Bounds /\ Shapes /\ Aims /\ Claims /\ Counted
    BY DEF BwForm
  <1>2. UNCHANGED <<bwLast, bwStart, bwOwner, bwPushed, bwRefused, bwOut>>
    BY DEF BwClaim
  <1>3. PICK x \in BlockIds, k \in Slots :
           /\ x = PreyOf(bwThief, t) /\ k = bwThief[t].spos[2]
           /\ BwTypes' /\ OnlyAt(x) /\ OnlyThief(t)
           /\ bwThief[t].pc = "cas" /\ bwThief'[t].pc = "read"
           /\ bwThief'[t].seq = bwThief[t].seq /\ bwThief'[t].spos = bwThief[t].spos
           /\ bwBlock[x].stealTail[2] = k
           /\ bwBlock'[x].head = bwBlock[x].head /\ bwBlock'[x].tail = bwBlock[x].tail
           /\ bwBlock'[x].stealTail = <<bwBlock[x].stealTail[1], k + 1>>
           /\ bwBlock'[x].count = bwBlock[x].count /\ bwBlock'[x].ring = bwBlock[x].ring
    BY <1>1, ClaimEffect
  <1>4. PICK s \in Window : BwIndex(s) = x
    BY <1>1, <1>3, WindowBlocks
  <1>5. bwBlock[x] \in Block /\ bwBlock'[x] \in Block
    BY <1>1, <1>3 DEF BwTypes, BlocksTyped
  <1>6. k \in Nat /\ k < BwSize /\ BwSize \in Nat
    BY BwAssumption DEF Slots
  <1>7. Granted(s) /\ ~Owned(s) /\ ~Halved(s) /\ ~Free(s) /\ GrantedShape(s, bwBlock[x])
    <2>1. Shape(s)
      BY <1>1 DEF Shapes
    <2>2. ~Owned(s) /\ ~Halved(s) /\ ~Free(s)
      BY <2>1, <1>3, <1>4, <1>6 DEF Shape, OwnedShape, HalvedShape, FreeShape
    <2>3. Granted(s)
      BY <2>2, <1>1, InSomeHand
    <2>4. QED
      BY <2>1, <2>2, <2>3, <1>4 DEF Shape
  <1>8. bwBlock[x].head[2] = BwSize /\ bwBlock[x].tail = BwSize /\ Low(bwBlock[x]) = k
        /\ Low(bwBlock'[x]) = k + 1
    BY <1>3, <1>5, <1>6, <1>7, LowTyped DEF GrantedShape
  <1>9. \A y \in BlockIds : y # x => bwBlock'[y] = bwBlock[y]
    BY <1>3 DEF OnlyAt
  <1>10. Bounds' /\ Shapes'
    <2>1. \A u \in Window : Ends(bwBlock[BwIndex(u)], bwBlock'[BwIndex(u)]) \/ Shape(u)'
      <3>1. SUFFICES ASSUME NEW u \in Window
                     PROVE  Ends(bwBlock[BwIndex(u)], bwBlock'[BwIndex(u)]) \/ Shape(u)'
        OBVIOUS
      <3>2. CASE u = s
        <4>1. GrantedShape(s, bwBlock'[x])
          BY <1>3, <1>7 DEF GrantedShape
        <4>2. ~Owned(s)' /\ ~Halved(s)' /\ ~Free(s)'
          BY <1>2, <1>7 DEF Owned, Halved, Free
        <4>3. QED
          BY <4>1, <4>2, <3>2, <1>4 DEF Shape
      <3>3. CASE u # s
        <4>1. BwIndex(u) # x /\ BwIndex(u) \in BlockIds
          BY <3>3, <1>1, <1>4, WindowBlocks
        <4>2. QED
          BY <4>1, <1>9 DEF Ends
      <3>4. QED
        BY <3>2, <3>3
    <2>2. \A y \in BlockIds : bwBlock'[y].tail = bwBlock[y].tail
      BY <1>3, <1>9
    <2>3. QED
      BY <2>1, <2>2, <1>1, <1>2, ThiefShapes
  <1>11. \A u \in BwThieves : u # t => bwThief'[u] = bwThief[u]
    BY <1>3 DEF OnlyThief
  <1>12. ~Holds(bwThief, t) /\ Holds(bwThief', t) /\ PreyOf(bwThief', t) = x
    BY <1>3 DEF Holds, PreyOf
  <1>13. \A u \in BwThieves : u # t =>
           /\ Holds(bwThief', u) <=> Holds(bwThief, u)
           /\ PreyOf(bwThief', u) = PreyOf(bwThief, u)
    BY <1>11 DEF Holds, PreyOf
  <1>14. \A u \in BwThieves : PreyOf(bwThief, u) \in BlockIds /\ bwThief[u].spos[2] \in Nat
    BY <1>1, SeqParts, BwAssumption DEF BwTypes, ThiefTyped, PreyOf, Positions
  <1>15. Aims'
    BY <1>1, <1>3, <1>11 DEF Aims
  <1>16. Claims'
    <2>1. ASSUME NEW u \in BwThieves, Holds(bwThief', u)
          PROVE  bwThief'[u].spos[2] < Low(bwBlock'[PreyOf(bwThief', u)])
      <3>1. CASE u = t
        BY <3>1, <1>3, <1>6, <1>8, <1>12
      <3>2. CASE u # t
        <4>1. bwThief[u].spos[2] < Low(bwBlock[PreyOf(bwThief, u)])
          BY <2>1, <3>2, <1>1, <1>13 DEF Claims
        <4>2. CASE PreyOf(bwThief, u) = x
          BY <4>1, <4>2, <3>2, <1>6, <1>8, <1>11, <1>13, <1>14
        <4>3. CASE PreyOf(bwThief, u) # x
          BY <4>1, <4>3, <3>2, <1>9, <1>11, <1>13, <1>14
        <4>4. QED
          BY <4>2, <4>3
      <3>3. QED
        BY <3>1, <3>2
    <2>2. ASSUME NEW u \in BwThieves, u # t, Holds(bwThief', u), PreyOf(bwThief', u) = x
          PROVE  bwThief'[u].spos[2] # k
      <3>1. bwThief[u].spos[2] < Low(bwBlock[x])
        BY <2>2, <1>1, <1>13 DEF Claims
      <3>2. QED
        BY <3>1, <2>2, <1>6, <1>8, <1>11, <1>14
    <2>3. ASSUME NEW u \in BwThieves, NEW w \in BwThieves, Holds(bwThief', u), Holds(bwThief', w),
                 PreyOf(bwThief', u) = PreyOf(bwThief', w), bwThief'[u].spos[2] = bwThief'[w].spos[2]
          PROVE  u = w
      <3>1. CASE u = t
        BY <3>1, <2>2, <2>3, <1>3, <1>12
      <3>2. CASE w = t
        BY <3>2, <2>2, <2>3, <1>3, <1>12
      <3>3. CASE u # t /\ w # t
        BY <3>3, <2>3, <1>1, <1>11, <1>13 DEF Claims
      <3>4. QED
        BY <3>1, <3>2, <3>3
    <2>4. QED
      BY <2>1, <2>3 DEF Claims
  <1>17. Counted'
    <2>1. ASSUME NEW y \in BlockIds, ~(y = BwNextIx' /\ bwOwner'.pc \in Half)
          PROVE  bwBlock'[y].count + Cardinality(Holders(bwThief', y)) = Low(bwBlock'[y])
      <3>1. bwBlock[y].count + Cardinality(Holders(bwThief, y)) = Low(bwBlock[y])
        BY <2>1, <1>1, <1>2 DEF Counted, BwNextIx
      <3>2. CASE y # x
        <4>1. Holders(bwThief', y) = Holders(bwThief, y)
          BY <3>2, <1>3, <1>12, <1>13 DEF Holders
        <4>2. QED
          BY <4>1, <3>1, <3>2, <1>9
      <3>3. CASE y = x
        <4>1. Holders(bwThief', x) = Holders(bwThief, x) \cup {t} /\ t \notin Holders(bwThief, x)
          BY <1>12, <1>13 DEF Holders
        <4>2. IsFiniteSet(Holders(bwThief, x))
          BY BwAssumption, FS_Subset DEF Holders
        <4>3. Cardinality(Holders(bwThief', x)) = Cardinality(Holders(bwThief, x)) + 1
          BY <4>1, <4>2, FS_AddElement
        <4>4. Cardinality(Holders(bwThief, x)) \in Nat /\ bwBlock[x].count \in Nat
          BY <4>2, <1>5, FS_CardinalityType, BlockFields
        <4>5. QED
          BY <4>3, <4>4, <3>1, <3>3, <1>3, <1>6, <1>8
      <3>4. QED
        BY <3>2, <3>3
    <2>2. QED
      BY <2>1 DEF Counted
  <1>18. \A y \in BlockIds : bwBlock'[y].ring = bwBlock[y].ring
    BY <1>3, <1>9
  <1>19. LiveSlot(bwBlock[x], k) /\ Prize(bwBlock', bwThief', t) = bwBlock[x].ring[k]
    BY <1>3, <1>6, <1>8, <1>12, <1>18 DEF LiveSlot, Prize
  <1>20. \A y \in BlockIds : \A i \in Slots :
           LiveSlot(bwBlock'[y], i) <=> LiveSlot(bwBlock[y], i) /\ ~(y = x /\ i = k)
    <2>1. SUFFICES ASSUME NEW y \in BlockIds, NEW i \in Slots
                   PROVE  LiveSlot(bwBlock'[y], i) <=> LiveSlot(bwBlock[y], i) /\ ~(y = x /\ i = k)
      OBVIOUS
    <2>2. i \in Nat
      BY BwAssumption DEF Slots
    <2>3. CASE y = x
      BY <2>2, <2>3, <1>3, <1>6, <1>8 DEF LiveSlot
    <2>4. CASE y # x
      BY <2>4, <1>9
    <2>5. QED
      BY <2>3, <2>4
  <1>21. \A u \in BwThieves : u # t => Prize(bwBlock', bwThief', u) = Prize(bwBlock, bwThief, u)
    BY <1>11, <1>13, <1>14, <1>18 DEF Prize
  <1>22. BwForm'
    BY <1>3, <1>10, <1>15, <1>16, <1>17 DEF BwForm
  <1>23. QED
    BY <1>2, <1>12, <1>13, <1>18, <1>19, <1>20, <1>21, <1>22

(* Counting oneself out lets go of the slot.                               *)
LEMMA CountForm ==
  ASSUME BwForm, NEW t \in BwThieves, BwCount(t)
  PROVE  /\ BwForm' /\ SlotsKept /\ UNCHANGED <<bwLast, bwStart, bwOwner, bwPushed, bwRefused>>
         /\ Holds(bwThief, t) /\ ~Holds(bwThief', t)
         /\ \A u \in BwThieves : u # t =>
              /\ Holds(bwThief', u) <=> Holds(bwThief, u)
              /\ Prize(bwBlock', bwThief', u) = Prize(bwBlock, bwThief, u)
         /\ \E v \in Values : /\ v = Prize(bwBlock, bwThief, t)
                              /\ bwOut' = [bwOut EXCEPT ![v] = @ + 1]
  <1>1. BwTypes /\ Bounds /\ Shapes /\ Aims /\ Claims /\ Counted
    BY DEF BwForm
  <1>2. UNCHANGED <<bwLast, bwStart, bwOwner, bwPushed, bwRefused>>
    BY DEF BwCount
  <1>3. PICK x \in BlockIds, v \in Values :
           /\ x = PreyOf(bwThief, t) /\ v = bwThief[t].value
           /\ BwTypes' /\ OnlyAt(x) /\ OnlyThief(t)
           /\ bwThief[t].pc = "count" /\ bwThief'[t] = BwResting
           /\ Ends(bwBlock[x], bwBlock'[x]) /\ bwBlock'[x].tail = bwBlock[x].tail
           /\ bwBlock'[x].count = bwBlock[x].count + 1 /\ bwBlock'[x].ring = bwBlock[x].ring
           /\ bwOut' = [bwOut EXCEPT ![v] = @ + 1]
    BY <1>1, CountEffect
  <1>4. \A y \in BlockIds :
          /\ Ends(bwBlock[y], bwBlock'[y]) /\ bwBlock'[y].tail = bwBlock[y].tail
          /\ bwBlock'[y].ring = bwBlock[y].ring
          /\ y # x => bwBlock'[y].count = bwBlock[y].count
          /\ bwBlock[y] \in Block /\ bwBlock'[y] \in Block
    BY <1>1, <1>3 DEF OnlyAt, Ends, BwTypes, BlocksTyped
  <1>5. \A y \in BlockIds : Low(bwBlock'[y]) = Low(bwBlock[y])
    BY <1>4, LowKept DEF Ends
  <1>6. Bounds' /\ Shapes'
    <2>1. \A s \in Window : BwIndex(s) \in BlockIds
      BY <1>1, WindowBlocks
    <2>2. QED
      BY <2>1, <1>1, <1>2, <1>4, ThiefShapes
  <1>7. \A u \in BwThieves : u # t => bwThief'[u] = bwThief[u]
    BY <1>3 DEF OnlyThief
  <1>8. Holds(bwThief, t) /\ ~Holds(bwThief', t) /\ bwThief'[t].pc = "idle"
    BY <1>3 DEF Holds, BwResting
  <1>9. \A u \in BwThieves : u # t =>
           /\ Holds(bwThief', u) <=> Holds(bwThief, u)
           /\ PreyOf(bwThief', u) = PreyOf(bwThief, u)
    BY <1>7 DEF Holds, PreyOf
  <1>10. \A u \in BwThieves : PreyOf(bwThief, u) \in BlockIds
    BY <1>1, SeqParts DEF BwTypes, ThiefTyped, PreyOf
  <1>11. Aims'
    BY <1>1, <1>7, <1>8 DEF Aims
  <1>12. Claims'
    <2>1. ASSUME NEW u \in BwThieves, Holds(bwThief', u)
          PROVE  u # t /\ bwThief'[u].spos[2] < Low(bwBlock'[PreyOf(bwThief', u)])
      <3>1. u # t
        BY <2>1, <1>8
      <3>2. bwThief[u].spos[2] < Low(bwBlock[PreyOf(bwThief, u)])
        BY <2>1, <3>1, <1>1, <1>9 DEF Claims
      <3>3. QED
        BY <3>1, <3>2, <1>5, <1>7, <1>9, <1>10
    <2>2. QED
      BY <2>1, <1>1, <1>7, <1>9 DEF Claims
  <1>13. Counted'
    <2>1. ASSUME NEW y \in BlockIds, ~(y = BwNextIx' /\ bwOwner'.pc \in Half)
          PROVE  bwBlock'[y].count + Cardinality(Holders(bwThief', y)) = Low(bwBlock'[y])
      <3>1. bwBlock[y].count + Cardinality(Holders(bwThief, y)) = Low(bwBlock[y])
        BY <2>1, <1>1, <1>2 DEF Counted, BwNextIx
      <3>2. CASE y # x
        <4>1. Holders(bwThief', y) = Holders(bwThief, y)
          BY <3>2, <1>3, <1>8, <1>9 DEF Holders
        <4>2. QED
          BY <4>1, <3>1, <3>2, <1>4, <1>5
      <3>3. CASE y = x
        <4>1. Holders(bwThief', x) = Holders(bwThief, x) \ {t} /\ t \in Holders(bwThief, x)
          BY <1>3, <1>8, <1>9 DEF Holders
        <4>2. IsFiniteSet(Holders(bwThief, x))
          BY BwAssumption, FS_Subset DEF Holders
        <4>3. Cardinality(Holders(bwThief', x)) = Cardinality(Holders(bwThief, x)) - 1
          BY <4>1, <4>2, FS_RemoveElement
        <4>4. Cardinality(Holders(bwThief, x)) \in Nat /\ bwBlock[x].count \in Nat
          BY <4>2, <1>4, FS_CardinalityType, BlockFields
        <4>5. QED
          BY <4>3, <4>4, <3>1, <3>3, <1>3, <1>5
      <3>4. QED
        BY <3>2, <3>3
    <2>2. QED
      BY <2>1 DEF Counted
  <1>14. SlotsKept
    BY <1>4, <1>5, SlotsStay
  <1>15. \A u \in BwThieves : u # t => Prize(bwBlock', bwThief', u) = Prize(bwBlock, bwThief, u)
    BY <1>4, <1>7, <1>9, <1>10 DEF Prize
  <1>16. v = Prize(bwBlock, bwThief, t)
    BY <1>3 DEF Prize
  <1>17. BwForm'
    BY <1>3, <1>6, <1>11, <1>12, <1>13 DEF BwForm
  <1>18. QED
    BY <1>2, <1>3, <1>8, <1>9, <1>14, <1>15, <1>16, <1>17

-----------------------------------------------------------------------------
(* Where the values are.                                                   *)
LEMMA KeptWhere ==
  /\ SlotsKept => \A v : InSlot(bwBlock', v) <=> InSlot(bwBlock, v)
  /\ ClaimsKept => \A v : InClaim(bwBlock', bwThief', v) <=> InClaim(bwBlock, bwThief, v)
  <1>1. ASSUME SlotsKept, NEW v
        PROVE  InSlot(bwBlock', v) <=> InSlot(bwBlock, v)
    BY <1>1 DEF SlotsKept, InSlot
  <1>2. ASSUME ClaimsKept, NEW v
        PROVE  InClaim(bwBlock', bwThief', v) <=> InClaim(bwBlock, bwThief, v)
    BY <1>2 DEF ClaimsKept, InClaim
  <1>3. QED
    BY <1>1, <1>2

(* Nothing is live in a free block.                                        *)
LEMMA FreeDead ==
  ASSUME NEW s, NEW b \in Block, FreeShape(s, b), NEW i \in Slots
  PROVE  ~LiveSlot(b, i)
  <1>1. Low(b) = b.head[2] /\ b.head[2] \in Int /\ b.tail \in Int /\ i \in Int
    BY LowTyped, BlockFields, BwAssumption DEF FreeShape, Slots
  <1>2. QED
    BY <1>1 DEF LiveSlot, FreeShape

(* Live slots are of the blocks up to the owner's, unless it is on its way *)
(* back or has the next block ready.                                       *)
LEMMA AboveDead ==
  ASSUME BwForm, bwOwner.pc \in {"idle", "put", "publish", "get"}, NEW s \in Window, s > bwLast,
         NEW i \in Slots
  PROVE  ~LiveSlot(bwBlock[BwIndex(s)], i)
  <1>1. Free(s) /\ BwIndex(s) \in BlockIds /\ Shape(s) /\ BwTypes
    BY WindowBlocks DEF BwForm, Shapes, Free
  <1>2. FreeShape(s, bwBlock[BwIndex(s)]) /\ bwBlock[BwIndex(s)] \in Block
    BY <1>1 DEF Shape, BwTypes, BlocksTyped
  <1>3. QED
    BY <1>2, FreeDead

(* Two live slots hold two values.                                         *)
LEMMA LiveDistinct ==
  ASSUME BwForm, Order, NEW x \in BlockIds, NEW y \in BlockIds, NEW i \in Slots, NEW j \in Slots,
         LiveSlot(bwBlock[x], i), LiveSlot(bwBlock[y], j),
         bwBlock[x].ring[i] = bwBlock[y].ring[j]
  PROVE  x = y /\ i = j
  <1>1. PICK s \in Window, u \in Window : BwIndex(s) = x /\ BwIndex(u) = y
    BY WindowBlocks DEF BwForm
  <1>2. s \in Nat /\ u \in Nat /\ i \in Nat /\ j \in Nat
    BY WindowBlocks, BwAssumption DEF BwForm, Slots
  <1>3. bwBlock[x].ring[i] \in Nat
    BY BlockFields, BwAssumption DEF BwForm, BwTypes, BlocksTyped, Values
  <1>4. ~Before(s, i, u, j) /\ ~Before(u, j, s, i)
    BY <1>1, <1>3 DEF Order
  <1>5. s = u /\ i = j
    BY <1>2, <1>4 DEF Before
  <1>6. QED
    BY <1>1, <1>5

(* Live values are values pushed.                                          *)
LEMMA SlotValues ==
  ASSUME BwTypes, NEW x \in BlockIds, NEW i \in Slots
  PROVE  bwBlock[x].ring[i] \in Values
  BY BlockFields DEF BwTypes, BlocksTyped

LEMMA PrizeTyped ==
  ASSUME BwTypes, Claims, NEW t \in BwThieves, Holds(bwThief, t)
  PROVE  Prize(bwBlock, bwThief, t) \in Values
  <1>1. PICK x, i : x = PreyOf(bwThief, t) /\ i = bwThief[t].spos[2]
    OBVIOUS
  <1>2. x \in BlockIds /\ i \in 0 .. BwSize /\ bwThief[t].value \in Values
    BY <1>1, SeqParts DEF BwTypes, ThiefTyped, PreyOf, Positions
  <1>3. i < Low(bwBlock[x])
    BY <1>1 DEF Claims
  <1>4. Low(bwBlock[x]) \in 0 .. BwSize
    BY <1>2, LowTyped DEF BwTypes, BlocksTyped
  <1>5. i \in Slots
    BY <1>2, <1>3, <1>4, BwAssumption DEF Slots
  <1>6. QED
    BY <1>1, <1>2, <1>5, SlotValues DEF Prize

(* A step that moves no value keeps every value in its place.              *)
HandKept ==
  /\ bwOwner'.pc \in Pushing <=> bwOwner.pc \in Pushing
  /\ bwOwner.pc \in Pushing => bwOwner'.value = bwOwner.value
LEMMA QuietStep ==
  ASSUME BwInv, BwForm', Hand', SlotsKept, ClaimsKept, HandKept,
         UNCHANGED <<bwPushed, bwRefused, bwOut>>,
         \A s \in Window' : s \notin Window =>
            \A i \in Slots : ~LiveSlot(bwBlock'[BwIndex(s)], i)
  PROVE  BwInv'
  <1>1. BwForm /\ Somewhere /\ Nowhere /\ Single /\ Order
    BY DEF BwInv, Places
  <1>2. \A v : InSlot(bwBlock', v) <=> InSlot(bwBlock, v)
    BY KeptWhere
  <1>3. \A v : InClaim(bwBlock', bwThief', v) <=> InClaim(bwBlock, bwThief, v)
    BY KeptWhere
  <1>4. \A v : InHand(v)' <=> InHand(v)
    BY DEF InHand, HandKept
  <1>5. Somewhere'
    BY <1>1, <1>2, <1>3, <1>4 DEF Somewhere
  <1>6. Nowhere'
    BY <1>1, <1>2, <1>3, <1>4 DEF Nowhere
  <1>7. Single'
    BY <1>1 DEF Single, ClaimsKept
  <1>8. Order'
    <2>1. ASSUME NEW s \in Window', NEW u \in Window', NEW i \in Slots, NEW j \in Slots,
                 LiveSlot(bwBlock'[BwIndex(s)], i), LiveSlot(bwBlock'[BwIndex(u)], j),
                 Before(s, i, u, j)
          PROVE  bwBlock'[BwIndex(s)].ring[i] < bwBlock'[BwIndex(u)].ring[j]
      <3>1. s \in Window /\ u \in Window
        BY <2>1
      <3>2. BwIndex(s) \in BlockIds /\ BwIndex(u) \in BlockIds
        BY <3>1, <1>1, WindowBlocks DEF BwForm
      <3>3. /\ LiveSlot(bwBlock[BwIndex(s)], i) /\ LiveSlot(bwBlock[BwIndex(u)], j)
            /\ bwBlock'[BwIndex(s)].ring[i] = bwBlock[BwIndex(s)].ring[i]
            /\ bwBlock'[BwIndex(u)].ring[j] = bwBlock[BwIndex(u)].ring[j]
        BY <2>1, <3>2 DEF SlotsKept
      <3>4. QED
        BY <2>1, <3>1, <3>3, <1>1 DEF Order
    <2>2. QED
      BY <2>1 DEF Order, Before
  <1>9. QED
    BY <1>5, <1>6, <1>7, <1>8 DEF BwInv, Places

-----------------------------------------------------------------------------
(* Every step keeps the invariant.                                         *)
LEMMA PushStep ==
  ASSUME BwInv, BwPush
  PROVE  BwInv' /\ SlotsKept /\ ClaimsKept
  <1>1. BwForm /\ BwTypes /\ Hand /\ Somewhere /\ Nowhere /\ Single /\ Order
    BY DEF BwInv, BwForm, Places
  <1>2. /\ bwOwner.pc = "idle" /\ bwOwner'.pc = "put" /\ bwPushed' = bwPushed + 1
        /\ bwOwner'.value = bwPushed + 1 /\ BwTypes'
    BY <1>1, PushEffect
  <1>3. UNCHANGED <<bwBlock, bwLast, bwStart, bwThief, bwRefused, bwOut>>
    BY DEF BwPush
  <1>4. BwForm' /\ SlotsKept /\ ClaimsKept
    BY <1>1, <1>2, <1>3, CallForm
  <1>5. bwPushed \in Nat /\ bwPushed + 1 \in Values /\ bwRefused \in SUBSET (1 .. bwPushed)
    BY <1>1, <1>2, BwAssumption DEF BwTypes, BooksTyped, Values
  <1>6. \A v : InHand(v)' <=> v = bwPushed + 1
    BY <1>2 DEF InHand, Pushing
  <1>7. \A v : ~InHand(v)
    BY <1>2 DEF InHand, Pushing
  <1>8. Hand'
    BY <1>2, <1>5 DEF Hand, Pushing, Popping
  <1>9. Somewhere'
    BY <1>1, <1>2, <1>3, <1>5, <1>6, <1>7 DEF Somewhere
  <1>10. Nowhere'
    <2>1. ASSUME NEW v \in Values
          PROVE  /\ v \in 1 .. bwPushed => v \in 1 .. (bwPushed + 1) /\ v # bwPushed + 1
      BY <1>5
    <2>2. QED
      BY <2>1, <1>1, <1>2, <1>3, <1>5, <1>6 DEF Nowhere
  <1>11. Single'
    BY <1>1, <1>3 DEF Single
  <1>12. Order'
    BY <1>1, <1>3 DEF Order, Window
  <1>13. QED
    BY <1>4, <1>8, <1>9, <1>10, <1>11, <1>12 DEF BwInv, Places

LEMMA RefuseStep ==
  ASSUME BwInv, BwAdvancePut, Refuse
  PROVE  BwInv' /\ SlotsKept /\ ClaimsKept
  <1>1. BwForm /\ BwTypes /\ Hand /\ Somewhere /\ Nowhere /\ Single /\ Order
    BY DEF BwInv, BwForm, Places
  <1>2. /\ bwOwner.pc = "put" /\ bwOwner'.pc = "idle" /\ BwTypes'
        /\ bwOwner.value = bwPushed /\ bwPushed > 0
    BY <1>1, RefuseEffect
  <1>3. UNCHANGED <<bwBlock, bwLast, bwStart, bwThief, bwPushed, bwOut>>
        /\ bwRefused' = bwRefused \cup {bwPushed}
    BY <1>2 DEF BwAdvancePut, Refuse
  <1>4. BwForm' /\ SlotsKept /\ ClaimsKept
    BY <1>1, <1>2, <1>3, CallForm
  <1>5. \A v : InHand(v) <=> v = bwPushed
    BY <1>2 DEF InHand, Pushing
  <1>6. \A v : ~InHand(v)'
    BY <1>2 DEF InHand, Pushing
  <1>7. Hand'
    BY <1>2 DEF Hand, Pushing, Popping
  <1>8. Somewhere'
    BY <1>1, <1>3, <1>5 DEF Somewhere
  <1>9. Nowhere'
    BY <1>1, <1>3, <1>5, <1>6 DEF Nowhere
  <1>10. Single'
    BY <1>1, <1>3 DEF Single
  <1>11. Order'
    BY <1>1, <1>3 DEF Order, Window
  <1>12. QED
    BY <1>4, <1>7, <1>8, <1>9, <1>10, <1>11 DEF BwInv, Places

LEMMA PutStep ==
  ASSUME BwInv, BwPut
  PROVE  BwInv' /\ SlotsKept /\ ClaimsKept
  <1>1. BwForm /\ BwTypes /\ Hand
    BY DEF BwInv, BwForm
  <1>2. BwForm' /\ SlotsKept /\ ClaimsKept
    BY <1>1, PutForm
  <1>3. UNCHANGED <<bwLast, bwStart, bwPushed, bwRefused, bwOut>>
    BY DEF BwPut
  <1>4. /\ bwOwner.pc = "put" /\ bwOwner'.pc = "publish" /\ bwOwner'.value = bwOwner.value
        /\ bwBlock'[BwHere].tail = bwBlock[BwHere].tail
        /\ bwBlock'[BwHere].ring[bwBlock[BwHere].tail] = bwOwner.value
    BY <1>1, PutEffect
  <1>5. Hand'
    BY <1>1, <1>3, <1>4 DEF Hand, Pushing, Popping, BwHere
  <1>6. HandKept
    BY <1>4 DEF HandKept, Pushing
  <1>7. Window' = Window
    BY <1>3 DEF Window
  <1>8. QED
    BY <1>2, <1>3, <1>5, <1>6, <1>7, QuietStep

(* The owner's quiet steps on the way between two blocks.                  *)
LEMMA MoveStep ==
  ASSUME BwInv, \/ BwGrant \/ BwReclaim \/ BwReclaimClose \/ BwReclaimCount \/ BwForward
                \/ BwReduceGeneration \/ BwTakeover \/ BwBack
  PROVE  BwInv' /\ SlotsKept /\ ClaimsKept /\ bwOwner'.got = bwOwner.got
         /\ UNCHANGED <<bwPushed, bwRefused, bwOut>>
  <1>1. BwForm /\ BwTypes /\ Bounds /\ Hand
    BY DEF BwInv, BwForm
  <1>2. BwForm' /\ SlotsKept /\ ClaimsKept
    BY <1>1, GrantForm, ReclaimForm, CloseForm, RecountForm, ForwardForm, ReduceForm, TakeoverForm,
       BackForm
  <1>3. UNCHANGED <<bwStart, bwPushed, bwRefused, bwOut>>
    BY DEF BwGrant, BwReclaim, BwReclaimClose, BwReclaimCount, BwForward, BwReduceGeneration,
       BwTakeover, BwBack
  <1>4. /\ bwOwner'.value = bwOwner.value /\ bwOwner'.got = bwOwner.got
        /\ \/ bwOwner.pc \in Leaving /\ bwOwner'.pc \in {"put", "reclaim", "close", "recount", "forward"}
           \/ bwOwner.pc \in Popping /\ bwOwner'.pc \in Popping
    <2>1. CASE BwGrant
      BY <2>1, <1>1, GrantEffect DEF Leaving
    <2>2. CASE BwReclaim
      BY <2>2, <1>1, ReclaimEffect DEF Leaving
    <2>3. CASE BwReclaimClose
      BY <2>3, <1>1, CloseEffect DEF Leaving
    <2>4. CASE BwReclaimCount
      BY <2>4, <1>1, RecountEffect DEF Leaving
    <2>5. CASE BwForward
      BY <2>5, <1>1, ForwardEffect DEF Leaving
    <2>6. CASE BwReduceGeneration
      BY <2>6, <1>1, ReduceEffect DEF Popping
    <2>7. CASE BwTakeover
      <3>1. bwLast > 0
        BY <2>7, <1>1 DEF BwTakeover, BwOwnerAt, Bounds, Going, BwTypes, BooksTyped
      <3>2. QED
        BY <3>1, <2>7, <1>1, TakeoverEffect DEF Popping
    <2>8. CASE BwBack
      <3>1. bwLast > 0
        BY <2>8, <1>1 DEF BwBack, BwOwnerAt, Bounds, Going, BwTypes, BooksTyped
      <3>2. QED
        BY <3>1, <2>8, <1>1, BackEffect DEF Popping
    <2>9. QED
      BY <2>1, <2>2, <2>3, <2>4, <2>5, <2>6, <2>7, <2>8
  <1>5. Hand'
    BY <1>1, <1>3, <1>4 DEF Hand, Pushing, Popping, Leaving
  <1>6. HandKept
    BY <1>4 DEF HandKept, Pushing, Popping, Leaving
  <1>7. Window' = Window
    BY <1>3 DEF Window
  <1>8. QED
    BY <1>2, <1>3, <1>4, <1>5, <1>6, <1>7, QuietStep

LEMMA ExtendStep ==
  ASSUME BwInv, BwAdvancePut, Extend
  PROVE  BwInv' /\ SlotsKept /\ ClaimsKept
  <1>1. BwForm /\ BwTypes /\ Bounds /\ Hand
    BY DEF BwInv, BwForm
  <1>2. BwForm' /\ SlotsKept /\ ClaimsKept
    BY <1>1, ExtendForm
  <1>3. UNCHANGED <<bwBlock, bwLast, bwThief, bwPushed, bwRefused, bwOut>>
    BY DEF BwAdvancePut, Extend
  <1>4. /\ bwOwner.pc = "put" /\ bwOwner'.pc = "grant"
        /\ bwOwner'.value = bwOwner.value /\ bwOwner'.got = bwOwner.got
    BY <1>1, ExtendEffect
  <1>5. Hand'
    BY <1>1, <1>3, <1>4 DEF Hand, Pushing, Popping
  <1>6. HandKept
    BY <1>4 DEF HandKept, Pushing
  <1>7. ASSUME NEW s \in Window', s \notin Window, NEW i \in Slots
        PROVE  ~LiveSlot(bwBlock'[BwIndex(s)], i)
    <2>1. /\ bwStart \in Nat /\ bwLast \in Nat /\ BwBlocks \in Nat
          /\ \/ bwLast + 1 = bwStart + BwBlocks /\ bwStart' = bwStart + 1
             \/ bwStart' = bwStart
      BY <1>1, ComeRound, BwAssumption DEF Extend, BwTypes, BooksTyped
    <2>2. s \in Nat /\ s > bwLast
      BY <2>1, <1>7 DEF Window
    <2>3. Free(s)' /\ Shape(s)' /\ BwTypes'
      BY <2>2, <1>2, <1>3, <1>4, <1>7 DEF Free, BwForm, Shapes
    <2>4. BwIndex(s) \in BlockIds
      BY <2>2, SeqParts
    <2>5. FreeShape(s, bwBlock'[BwIndex(s)]) /\ bwBlock'[BwIndex(s)] \in Block
      BY <2>3, <2>4 DEF Shape, BwTypes, BlocksTyped
    <2>6. QED
      BY <2>5, FreeDead
  <1>8. QED
    BY <1>2, <1>3, <1>5, <1>6, <1>7, QuietStep

LEMMA AskStep ==
  ASSUME BwInv, BwPop \/ BwNone
  PROVE  BwInv' /\ SlotsKept /\ ClaimsKept
  <1>1. BwForm /\ BwTypes /\ Hand
    BY DEF BwInv, BwForm
  <1>2. UNCHANGED <<bwBlock, bwLast, bwStart, bwThief, bwPushed, bwRefused, bwOut>>
    BY DEF BwPop, BwNone
  <1>3. /\ BwTypes'
        /\ \/ bwOwner.pc = "idle" /\ bwOwner'.pc = "get" /\ bwOwner'.got = -1
           \/ bwOwner.pc = "get" /\ bwOwner'.pc = "idle"
    BY <1>1, PopEffect, NoneEffect
  <1>4. BwForm' /\ SlotsKept /\ ClaimsKept
    BY <1>1, <1>2, <1>3, CallForm
  <1>5. Hand'
    BY <1>3 DEF Hand, Pushing, Popping
  <1>6. HandKept
    BY <1>3 DEF HandKept, Pushing
  <1>7. Window' = Window
    BY <1>2 DEF Window
  <1>8. QED
    BY <1>2, <1>4, <1>5, <1>6, <1>7, QuietStep

LEMMA LookStep ==
  ASSUME BwInv, NEW t \in BwThieves, Roams(t) \/ BwRead(t)
  PROVE  BwInv' /\ SlotsKept /\ ClaimsKept
         /\ UNCHANGED <<bwBlock, bwLast, bwStart, bwOwner, bwPushed, bwRefused, bwOut>>
  <1>1. BwForm /\ BwTypes /\ Hand
    BY DEF BwInv, BwForm
  <1>2. UNCHANGED <<bwBlock, bwLast, bwStart, bwOwner, bwPushed, bwRefused, bwOut>>
    BY DEF Roams, BwSteal, BwLook, BwLookTail, BwConflict, BwAdvanceSteal, BwRead
  <1>3. BwForm' /\ SlotsKept /\ ClaimsKept
    BY <1>1, RoamsForm, ReadForm
  <1>4. Hand'
    BY <1>1, <1>2 DEF Hand, BwHere
  <1>5. HandKept
    BY <1>2 DEF HandKept
  <1>6. Window' = Window
    BY <1>2 DEF Window
  <1>7. QED
    BY <1>2, <1>3, <1>4, <1>5, <1>6, QuietStep

(* A value enters the queue: it is the newest, in the last live slot.      *)
LEMMA PublishSlots ==
  ASSUME BwInv, BwPublish
  PROVE  \E h \in BlockIds, k \in Slots :
           /\ h = BwIndex(bwLast) /\ bwBlock[h].ring[k] = bwPushed /\ k = bwBlock[h].tail
           /\ \A y \in BlockIds : bwBlock'[y].ring = bwBlock[y].ring
           /\ \A y \in BlockIds : \A i \in Slots :
                LiveSlot(bwBlock'[y], i) <=> LiveSlot(bwBlock[y], i) \/ (y = h /\ i = k)
  <1>1. BwForm /\ BwTypes /\ Bounds /\ Shapes /\ Hand
    BY DEF BwInv, BwForm
  <1>2. PICK h : h = BwHere
    OBVIOUS
  <1>3. bwBlock[h].tail < BwSize /\ bwOwner.pc = "publish"
    BY <1>1, <1>2 DEF BwPublish, BwOwnerAt, Shapes
  <1>4. /\ h \in BlockIds /\ BwTypes'
        /\ OnlyAt(h) /\ Ends(bwBlock[h], bwBlock'[h])
        /\ bwBlock'[h].tail = bwBlock[h].tail + 1 /\ bwBlock'[h].ring = bwBlock[h].ring
    BY <1>1, <1>2, <1>3, PublishEffect
  <1>5. bwBlock[h] \in Block /\ bwBlock'[h] \in Block
    BY <1>1, <1>4 DEF BwTypes, BlocksTyped
  <1>6. PICK k \in Slots : k = bwBlock[h].tail
    BY <1>3, <1>5, BlockFields, BwAssumption DEF Slots
  <1>7. bwBlock[h].ring[k] = bwPushed
    BY <1>1, <1>2, <1>3, <1>6 DEF Hand, Pushing
  <1>8. Low(bwBlock'[h]) = Low(bwBlock[h])
    BY <1>4, <1>5, LowKept DEF Ends
  <1>9. Low(bwBlock[h]) <= k /\ Low(bwBlock[h]) \in Int
    <2>1. bwLast \in Window /\ Owned(bwLast)
      BY <1>1, <1>3, HereInWindow DEF Owned, AtHome
    <2>2. OwnedShape(bwLast, bwBlock[h])
      BY <2>1, <1>1, <1>2 DEF Shapes, Shape, BwHere
    <2>3. QED
      BY <2>2, <1>5, <1>6, LowTyped, BlockFields, BwAssumption DEF OwnedShape
  <1>10. ASSUME NEW y \in BlockIds, NEW i \in Slots
         PROVE  LiveSlot(bwBlock'[y], i) <=> LiveSlot(bwBlock[y], i) \/ (y = h /\ i = k)
    <2>1. CASE y = h
      <3>1. i \in Nat /\ k \in Nat
        BY BwAssumption DEF Slots
      <3>2. QED
        BY <3>1, <2>1, <1>4, <1>6, <1>8, <1>9 DEF LiveSlot
    <2>2. CASE y # h
      BY <2>2, <1>4 DEF OnlyAt
    <2>3. QED
      BY <2>1, <2>2
  <1>11. \A y \in BlockIds : bwBlock'[y].ring = bwBlock[y].ring
    BY <1>4 DEF OnlyAt
  <1>12. h = BwIndex(bwLast)
    BY <1>2 DEF BwHere
  <1>13. QED
    BY <1>4, <1>6, <1>7, <1>10, <1>11, <1>12

LEMMA PublishStep ==
  ASSUME BwInv, BwPublish
  PROVE  /\ BwInv' /\ ClaimsKept /\ UNCHANGED <<bwOut, bwPushed, bwRefused>>
         /\ bwOwner'.got = bwOwner.got /\ InHand(bwPushed) /\ bwPushed > 0
         /\ \A v : InSlot(bwBlock', v) <=> InSlot(bwBlock, v) \/ v = bwPushed
  <1>1. BwForm /\ BwTypes /\ Bounds /\ Hand /\ Somewhere /\ Nowhere /\ Single /\ Order
    BY DEF BwInv, BwForm, Places
  <1>2. PICK h \in BlockIds, k \in Slots :
          /\ h = BwIndex(bwLast) /\ bwBlock[h].ring[k] = bwPushed /\ k = bwBlock[h].tail
          /\ \A y \in BlockIds : bwBlock'[y].ring = bwBlock[y].ring
          /\ \A y \in BlockIds : \A i \in Slots :
               LiveSlot(bwBlock'[y], i) <=> LiveSlot(bwBlock[y], i) \/ (y = h /\ i = k)
    BY PublishSlots
  <1>3. UNCHANGED <<bwLast, bwStart, bwThief, bwPushed, bwRefused, bwOut>> /\ bwOwner.pc = "publish"
    BY DEF BwPublish, BwOwnerAt
  <1>4. bwOwner'.pc = "idle" /\ bwOwner'.got = bwOwner.got
    <2>1. bwBlock[BwHere].tail < BwSize
      BY <1>1, <1>3 DEF BwForm, Shapes
    <2>2. QED
      BY <2>1, <1>1, PublishEffect
  <1>5. BwForm' /\ ClaimsKept
    BY <1>1, PublishForm
  <1>6. bwOwner.value = bwPushed /\ bwPushed > 0 /\ bwPushed \in Values
    BY <1>1, <1>3 DEF Hand, Pushing, BwTypes, BooksTyped
  <1>7. \A v : InHand(v) <=> v = bwPushed
    BY <1>3, <1>6 DEF InHand, Pushing
  <1>8. \A v : ~InHand(v)'
    BY <1>4 DEF InHand, Pushing
  <1>9. \A v : InSlot(bwBlock', v) <=> InSlot(bwBlock, v) \/ v = bwPushed
    BY <1>2 DEF InSlot
  <1>10. \A v : InClaim(bwBlock', bwThief', v) <=> InClaim(bwBlock, bwThief, v)
    BY <1>5, KeptWhere
  <1>11. Hand'
    BY <1>4 DEF Hand, Pushing, Popping
  <1>12. Somewhere'
    BY <1>1, <1>3, <1>7, <1>9, <1>10 DEF Somewhere
  <1>13. Nowhere'
    <2>1. bwPushed \in 1 .. bwPushed /\ bwOut[bwPushed] \in Nat
      BY <1>1, <1>6, BwAssumption DEF Values, BwTypes, BooksTyped
    <2>2. ~InClaim(bwBlock, bwThief, bwPushed) /\ ~(bwOut[bwPushed] > 0) /\ bwPushed \notin bwRefused
      BY <1>1, <1>6, <1>7 DEF Nowhere
    <2>3. bwOut[bwPushed] = 0
      BY <2>1, <2>2
    <2>4. QED
      BY <2>1, <2>2, <2>3, <1>1, <1>3, <1>8, <1>9, <1>10 DEF Nowhere
  <1>14. Single'
    BY <1>1, <1>5 DEF Single, ClaimsKept
  <1>15. Order'
    <2>1. ASSUME NEW s \in Window, NEW u \in Window, NEW i \in Slots, NEW j \in Slots,
                 LiveSlot(bwBlock'[BwIndex(s)], i), LiveSlot(bwBlock'[BwIndex(u)], j),
                 Before(s, i, u, j)
          PROVE  bwBlock'[BwIndex(s)].ring[i] < bwBlock'[BwIndex(u)].ring[j]
      <3>1. PICK x, y : x = BwIndex(s) /\ y = BwIndex(u)
        OBVIOUS
      <3>2. x \in BlockIds /\ y \in BlockIds /\ s \in Nat /\ u \in Nat /\ i \in Nat /\ j \in Nat
            /\ bwLast \in Window /\ bwLast \in Nat /\ k \in Nat
        BY <3>1, <1>1, WindowBlocks, HereInWindow, BwAssumption DEF Slots
      <3>3. LiveSlot(bwBlock[x], i)
        <4>1. SUFFICES ASSUME x = h /\ i = k
                       PROVE  FALSE
          BY <3>1, <3>2, <2>1, <1>2
        <4>2. s = bwLast
          BY <4>1, <3>1, <3>2, <1>1, <1>2, WindowBlocks
        <4>3. LiveSlot(bwBlock[y], j) \/ (y = h /\ j = k)
          BY <3>1, <3>2, <2>1, <1>2
        <4>4. CASE u > bwLast
          <5>1. ~LiveSlot(bwBlock[y], j)
            BY <4>4, <3>1, <1>1, <1>3, AboveDead
          <5>2. y # h
            BY <4>4, <3>1, <3>2, <1>1, <1>2, WindowBlocks
          <5>3. QED
            BY <5>1, <5>2, <4>3
        <4>5. CASE u = s /\ i < j
          <5>1. y = h /\ j > k
            BY <4>1, <4>5, <3>1
          <5>2. ~LiveSlot(bwBlock[h], j)
            <6>1. bwBlock[h].tail = k
              BY <1>2
            <6>2. QED
              BY <6>1, <5>1, <3>2 DEF LiveSlot
          <5>3. QED
            BY <5>1, <5>2, <4>3, <3>2
        <4>6. QED
          BY <4>2, <4>4, <4>5, <2>1 DEF Before
      <3>4. CASE LiveSlot(bwBlock[y], j)
        BY <3>1, <3>2, <3>3, <3>4, <2>1, <1>1, <1>2 DEF Order
      <3>5. CASE y = h /\ j = k
        <4>1. InSlot(bwBlock, bwBlock[x].ring[i]) /\ bwBlock[x].ring[i] \in Values
          BY <3>2, <3>3, <1>1, SlotValues DEF InSlot
        <4>2. bwBlock[x].ring[i] \in 1 .. bwPushed /\ bwBlock[x].ring[i] # bwPushed
          BY <4>1, <1>1, <1>7 DEF Nowhere
        <4>3. bwBlock[x].ring[i] < bwPushed
          BY <4>2, <1>6, BwAssumption DEF Values
        <4>4. bwBlock'[x].ring[i] = bwBlock[x].ring[i] /\ bwBlock'[y].ring[j] = bwPushed
          BY <3>2, <3>5, <1>2
        <4>5. QED
          BY <4>3, <4>4, <3>1
      <3>6. QED
        BY <3>1, <3>2, <3>4, <3>5, <2>1, <1>2
    <2>2. Window' = Window
      BY <1>3 DEF Window
    <2>3. QED
      BY <2>1, <2>2 DEF Order, Before
  <1>16. QED
    BY <1>3, <1>4, <1>5, <1>6, <1>7, <1>9, <1>11, <1>12, <1>13, <1>14, <1>15 DEF BwInv, Places

(* A live slot is emptied, all others stay.                                *)
LEMMA SlotTaken ==
  ASSUME BwForm, Order, NEW x \in BlockIds, NEW k \in Slots, LiveSlot(bwBlock[x], k),
         UNCHANGED <<bwStart>>,
         \A y \in BlockIds : bwBlock'[y].ring = bwBlock[y].ring,
         \A y \in BlockIds : \A i \in Slots :
           LiveSlot(bwBlock'[y], i) <=> LiveSlot(bwBlock[y], i) /\ ~(y = x /\ i = k)
  PROVE  /\ InSlot(bwBlock, bwBlock[x].ring[k])
         /\ \A v : InSlot(bwBlock', v) <=> InSlot(bwBlock, v) /\ v # bwBlock[x].ring[k]
         /\ Order'
  <1>1. InSlot(bwBlock, bwBlock[x].ring[k])
    BY DEF InSlot
  <1>2. ASSUME NEW v, InSlot(bwBlock', v)
        PROVE  InSlot(bwBlock, v) /\ v # bwBlock[x].ring[k]
    <2>1. PICK y \in BlockIds, i \in Slots : LiveSlot(bwBlock'[y], i) /\ bwBlock'[y].ring[i] = v
      BY <1>2 DEF InSlot
    <2>2. LiveSlot(bwBlock[y], i) /\ bwBlock[y].ring[i] = v /\ ~(y = x /\ i = k)
      BY <2>1
    <2>3. v # bwBlock[x].ring[k]
      BY <2>2, LiveDistinct
    <2>4. QED
      BY <2>2, <2>3 DEF InSlot
  <1>3. ASSUME NEW v, InSlot(bwBlock, v), v # bwBlock[x].ring[k]
        PROVE  InSlot(bwBlock', v)
    <2>1. PICK y \in BlockIds, i \in Slots : LiveSlot(bwBlock[y], i) /\ bwBlock[y].ring[i] = v
      BY <1>3 DEF InSlot
    <2>2. LiveSlot(bwBlock'[y], i) /\ bwBlock'[y].ring[i] = v
      BY <2>1, <1>3
    <2>3. QED
      BY <2>2 DEF InSlot
  <1>4. Order'
    <2>1. Window' = Window
      BY DEF Window
    <2>2. \A s \in Window : BwIndex(s) \in BlockIds
      BY WindowBlocks DEF BwForm
    <2>3. QED
      BY <2>1, <2>2 DEF Order, Before
  <1>5. QED
    BY <1>1, <1>2, <1>3, <1>4

(* The owner takes the last live slot, which holds the newest value.       *)
LEMMA GetSlots ==
  ASSUME BwInv, BwGet
  PROVE  \E h \in BlockIds, k \in Slots :
           /\ h = BwIndex(bwLast) /\ k = bwBlock[h].tail - 1 /\ LiveSlot(bwBlock[h], k)
           /\ bwOwner'.got = bwBlock[h].ring[k]
           /\ bwOut' = [bwOut EXCEPT ![bwBlock[h].ring[k]] = @ + 1]
           /\ \A y \in BlockIds : bwBlock'[y].ring = bwBlock[y].ring
           /\ \A y \in BlockIds : \A i \in Slots :
                LiveSlot(bwBlock'[y], i) <=> LiveSlot(bwBlock[y], i) /\ ~(y = h /\ i = k)
  <1>1. BwForm /\ BwTypes /\ Bounds /\ Shapes
    BY DEF BwInv, BwForm
  <1>2. PICK h : h = BwHere
    OBVIOUS
  <1>3. /\ bwOwner.pc = "get" /\ h \in BlockIds /\ BwTypes'
        /\ OnlyAt(h) /\ Ends(bwBlock[h], bwBlock'[h]) /\ bwBlock[h].tail - 1 \in Slots
        /\ bwBlock[h].tail > 0 /\ bwBlock[h].head[2] # bwBlock[h].tail
        /\ bwBlock'[h].tail = bwBlock[h].tail - 1 /\ bwBlock'[h].ring = bwBlock[h].ring
        /\ bwOwner'.got = bwBlock[h].ring[bwBlock[h].tail - 1]
        /\ bwOut' = [bwOut EXCEPT ![bwBlock[h].ring[bwBlock[h].tail - 1]] = @ + 1]
    BY <1>1, <1>2, GetEffect
  <1>4. bwBlock[h] \in Block /\ bwBlock'[h] \in Block
    BY <1>1, <1>3 DEF BwTypes, BlocksTyped
  <1>5. PICK k \in Slots : k = bwBlock[h].tail - 1
    BY <1>3
  <1>6. Low(bwBlock'[h]) = Low(bwBlock[h])
    BY <1>3, <1>4, LowKept DEF Ends
  <1>7. OwnedShape(bwLast, bwBlock[h])
    <2>1. bwLast \in Window /\ Owned(bwLast)
      BY <1>1, <1>3, HereInWindow DEF Owned, AtHome
    <2>2. QED
      BY <2>1, <1>1, <1>2 DEF Shapes, Shape, BwHere
  <1>8. Low(bwBlock[h]) <= k /\ Low(bwBlock[h]) \in Int /\ k \in Nat /\ bwBlock[h].tail = k + 1
    BY <1>3, <1>4, <1>5, <1>7, LowTyped, BlockFields, BwAssumption DEF OwnedShape
  <1>9. LiveSlot(bwBlock[h], k)
    BY <1>8 DEF LiveSlot
  <1>10. ASSUME NEW y \in BlockIds, NEW i \in Slots
         PROVE  LiveSlot(bwBlock'[y], i) <=> LiveSlot(bwBlock[y], i) /\ ~(y = h /\ i = k)
    <2>1. CASE y = h
      <3>1. i \in Nat
        BY BwAssumption DEF Slots
      <3>2. QED
        BY <3>1, <2>1, <1>3, <1>5, <1>6, <1>8 DEF LiveSlot
    <2>2. CASE y # h
      BY <2>2, <1>3 DEF OnlyAt
    <2>3. QED
      BY <2>1, <2>2
  <1>11. \A y \in BlockIds : bwBlock'[y].ring = bwBlock[y].ring
    BY <1>3 DEF OnlyAt
  <1>12. h = BwIndex(bwLast)
    BY <1>2 DEF BwHere
  <1>13. QED
    BY <1>3, <1>5, <1>9, <1>10, <1>11, <1>12

LEMMA GetStep ==
  ASSUME BwInv, BwGet
  PROVE  /\ BwInv' /\ ClaimsKept /\ UNCHANGED <<bwPushed, bwRefused>>
         /\ \E v \in Values :
              /\ InSlot(bwBlock, v) /\ bwOwner'.got = v /\ bwOwner.got = -1
              /\ bwOut' = [bwOut EXCEPT ![v] = @ + 1]
              /\ \A u : InSlot(bwBlock', u) <=> InSlot(bwBlock, u) /\ u # v
              /\ \A u : InSlot(bwBlock, u) => u <= v
  <1>1. BwForm /\ BwTypes /\ Bounds /\ Hand /\ Somewhere /\ Nowhere /\ Single /\ Order
    BY DEF BwInv, BwForm, Places
  <1>2. PICK h \in BlockIds, k \in Slots :
           /\ h = BwIndex(bwLast) /\ k = bwBlock[h].tail - 1 /\ LiveSlot(bwBlock[h], k)
           /\ bwOwner'.got = bwBlock[h].ring[k]
           /\ bwOut' = [bwOut EXCEPT ![bwBlock[h].ring[k]] = @ + 1]
           /\ \A y \in BlockIds : bwBlock'[y].ring = bwBlock[y].ring
           /\ \A y \in BlockIds : \A i \in Slots :
                LiveSlot(bwBlock'[y], i) <=> LiveSlot(bwBlock[y], i) /\ ~(y = h /\ i = k)
    BY GetSlots
  <1>3. UNCHANGED <<bwLast, bwStart, bwThief, bwPushed, bwRefused>>
    BY DEF BwGet
  <1>4. bwOwner.pc = "get" /\ bwOwner'.pc = "idle"
    BY <1>1, GetEffect
  <1>5. BwForm' /\ ClaimsKept
    BY <1>1, GetForm
  <1>6. PICK v \in Values : v = bwBlock[h].ring[k]
    BY <1>1, SlotValues
  <1>7. /\ InSlot(bwBlock, v) /\ \A u : InSlot(bwBlock', u) <=> InSlot(bwBlock, u) /\ u # v
        /\ Order'
    BY <1>1, <1>2, <1>3, <1>6, SlotTaken
  <1>8. \A u : ~InHand(u) /\ ~InHand(u)'
    BY <1>4 DEF InHand, Pushing
  <1>9. \A u : InClaim(bwBlock', bwThief', u) <=> InClaim(bwBlock, bwThief, u)
    BY <1>5, KeptWhere
  <1>10. Hand'
    BY <1>4 DEF Hand, Pushing, Popping
  <1>11. /\ bwOut[v] = 0 /\ v \in 1 .. bwPushed /\ ~InClaim(bwBlock, bwThief, v) /\ v \notin bwRefused
    BY <1>1, <1>7 DEF Nowhere
  <1>12. bwOut'[v] = 1 /\ \A u \in Values : u # v => bwOut'[u] = bwOut[u]
    BY <1>1, <1>2, <1>6, <1>11 DEF BwTypes, BooksTyped
  <1>13. Somewhere'
    <2>1. \A u \in 1 .. bwPushed : u \in Values
      BY <1>1, BwAssumption DEF BwTypes, BooksTyped, Values
    <2>2. QED
      BY <2>1, <1>1, <1>3, <1>7, <1>8, <1>9, <1>12 DEF Somewhere
  <1>14. Nowhere'
    <2>1. SUFFICES ASSUME NEW u \in Values
                   PROVE  /\ bwOut'[u] <= 1
                          /\ InSlot(bwBlock', u) \/ InClaim(bwBlock', bwThief', u) \/ bwOut'[u] > 0
                               => u \in 1 .. bwPushed
                          /\ InSlot(bwBlock', u) => ~InClaim(bwBlock', bwThief', u)
                          /\ InSlot(bwBlock', u) \/ InClaim(bwBlock', bwThief', u) => bwOut'[u] = 0
                          /\ InSlot(bwBlock', u) \/ InClaim(bwBlock', bwThief', u) \/ bwOut'[u] > 0
                               => u \notin bwRefused
      BY <1>3, <1>8 DEF Nowhere
    <2>2. CASE u = v
      BY <2>2, <1>7, <1>9, <1>11, <1>12
    <2>3. CASE u # v
      BY <2>3, <1>1, <1>7, <1>9, <1>12 DEF Nowhere
    <2>4. QED
      BY <2>2, <2>3
  <1>15. Single'
    BY <1>1, <1>5 DEF Single, ClaimsKept
  <1>16. ASSUME NEW u, InSlot(bwBlock, u)
         PROVE  u <= v
    <2>1. PICK y \in BlockIds, j \in Slots : LiveSlot(bwBlock[y], j) /\ bwBlock[y].ring[j] = u
      BY <1>16 DEF InSlot
    <2>2. PICK s \in Window : BwIndex(s) = y
      BY <1>1, WindowBlocks
    <2>3. s \in Nat /\ bwLast \in Nat /\ bwLast \in Window /\ j \in Nat /\ k \in Nat
      BY <1>1, WindowBlocks, HereInWindow, BwAssumption DEF Slots
    <2>4. s <= bwLast
      BY <2>1, <2>2, <2>3, <1>1, <1>4, AboveDead
    <2>5. u \in Nat /\ v \in Nat
      BY <2>1, <1>1, SlotValues, BwAssumption DEF Values
    <2>6. CASE s = bwLast
      <3>1. y = h /\ j <= k
        <4>1. y = h /\ j < bwBlock[h].tail /\ bwBlock[h].tail \in Nat
          BY <2>1, <2>2, <2>6, <1>1, <1>2, BlockFields, BwAssumption
             DEF LiveSlot, BwTypes, BlocksTyped
        <4>2. QED
          BY <4>1, <2>3, <1>2
      <3>2. CASE j = k
        BY <3>1, <3>2, <2>1, <2>5, <1>6
      <3>3. CASE j < k
        <4>1. u < v
          BY <3>1, <3>3, <2>1, <2>2, <2>3, <2>6, <1>1, <1>2, <1>6 DEF Order, Before
        <4>2. QED
          BY <4>1, <2>5
      <3>4. QED
        BY <3>1, <3>2, <3>3, <2>3
    <2>7. CASE s < bwLast
      <3>1. u < v
        BY <2>1, <2>2, <2>3, <2>7, <1>1, <1>2, <1>6 DEF Order, Before
      <3>2. QED
        BY <3>1, <2>5
    <2>8. QED
      BY <2>3, <2>4, <2>6, <2>7
  <1>17. bwOwner.got = -1
    BY <1>1, <1>4 DEF Hand, Popping
  <1>18. BwInv'
    BY <1>5, <1>7, <1>10, <1>13, <1>14, <1>15 DEF BwInv, Places
  <1>19. QED
    BY <1>2, <1>3, <1>5, <1>6, <1>7, <1>16, <1>17, <1>18

(* A thief's claim moves one live value into its hands.                    *)
LEMMA ClaimStep ==
  ASSUME BwInv, NEW t \in BwThieves, BwClaim(t)
  PROVE  /\ BwInv' /\ UNCHANGED <<bwOwner, bwOut, bwPushed, bwRefused>>
         /\ \E v \in Values :
              /\ InSlot(bwBlock, v)
              /\ \A u : InSlot(bwBlock', u) <=> InSlot(bwBlock, u) /\ u # v
              /\ \A u : InClaim(bwBlock', bwThief', u) <=> InClaim(bwBlock, bwThief, u) \/ u = v
  <1>1. BwForm /\ BwTypes /\ Bounds /\ Hand /\ Somewhere /\ Nowhere /\ Single /\ Order
    BY DEF BwInv, BwForm, Places
  <1>2. /\ BwForm' /\ UNCHANGED <<bwLast, bwStart, bwOwner, bwPushed, bwRefused, bwOut>>
        /\ ~Holds(bwThief, t) /\ Holds(bwThief', t)
        /\ \A w \in BwThieves : w # t =>
             /\ Holds(bwThief', w) <=> Holds(bwThief, w)
             /\ Prize(bwBlock', bwThief', w) = Prize(bwBlock, bwThief, w)
    BY <1>1, ClaimForm
  <1>3. PICK x \in BlockIds, k \in Slots :
              /\ LiveSlot(bwBlock[x], k) /\ Prize(bwBlock', bwThief', t) = bwBlock[x].ring[k]
              /\ \A y \in BlockIds : bwBlock'[y].ring = bwBlock[y].ring
              /\ \A y \in BlockIds : \A i \in Slots :
                   LiveSlot(bwBlock'[y], i) <=> LiveSlot(bwBlock[y], i) /\ ~(y = x /\ i = k)
    BY <1>1, ClaimForm
  <1>4. PICK v \in Values : v = bwBlock[x].ring[k]
    BY <1>1, SlotValues
  <1>5. /\ InSlot(bwBlock, v) /\ \A u : InSlot(bwBlock', u) <=> InSlot(bwBlock, u) /\ u # v
        /\ Order'
    BY <1>1, <1>2, <1>3, <1>4, SlotTaken
  <1>6. \A u : InClaim(bwBlock', bwThief', u) <=> InClaim(bwBlock, bwThief, u) \/ u = v
    BY <1>2, <1>3, <1>4 DEF InClaim
  <1>7. \A u : InHand(u)' <=> InHand(u)
    BY <1>2 DEF InHand
  <1>8. /\ bwOut[v] = 0 /\ v \in 1 .. bwPushed /\ ~InClaim(bwBlock, bwThief, v) /\ v \notin bwRefused
        /\ ~InHand(v)
    BY <1>1, <1>5 DEF Nowhere
  <1>9. Hand'
    <2>1. \A y \in BlockIds : bwBlock'[y].tail = bwBlock[y].tail
      <3>1. Aims
        BY <1>1 DEF BwForm
      <3>2. QED
        BY <3>1, <1>1, ClaimEffect DEF OnlyAt
    <2>2. BwHere \in BlockIds /\ BwHere' = BwHere
      BY <1>1, <1>2, SeqParts DEF BwHere, BwTypes, BooksTyped
    <2>3. QED
      BY <2>1, <2>2, <1>1, <1>2, <1>3 DEF Hand
  <1>10. Somewhere'
    BY <1>1, <1>2, <1>5, <1>6, <1>7 DEF Somewhere
  <1>11. Nowhere'
    <2>1. SUFFICES ASSUME NEW u \in Values
                   PROVE  /\ bwOut[u] <= 1
                          /\ InSlot(bwBlock', u) \/ InClaim(bwBlock', bwThief', u) \/ bwOut[u] > 0
                               => u \in 1 .. bwPushed
                          /\ InSlot(bwBlock', u) => ~InClaim(bwBlock', bwThief', u)
                          /\ InSlot(bwBlock', u) \/ InClaim(bwBlock', bwThief', u) => bwOut[u] = 0
                          /\ InSlot(bwBlock', u) \/ InClaim(bwBlock', bwThief', u) \/ bwOut[u] > 0
                               => u \notin bwRefused
                          /\ InSlot(bwBlock', u) \/ InClaim(bwBlock', bwThief', u) \/ bwOut[u] > 0
                             \/ u \in bwRefused => ~InHand(u)
      BY <1>2, <1>7 DEF Nowhere
    <2>2. CASE u = v
      BY <2>2, <1>5, <1>6, <1>8
    <2>3. CASE u # v
      BY <2>3, <1>1, <1>5, <1>6 DEF Nowhere
    <2>4. QED
      BY <2>2, <2>3
  <1>12. Single'
    <2>1. \A w \in BwThieves : w # t /\ Holds(bwThief', w) => Prize(bwBlock', bwThief', w) # v
      BY <1>2, <1>8 DEF InClaim
    <2>2. QED
      BY <2>1, <1>1, <1>2, <1>3, <1>4 DEF Single
  <1>13. BwInv'
    BY <1>2, <1>5, <1>9, <1>10, <1>11, <1>12 DEF BwInv, Places
  <1>14. QED
    BY <1>2, <1>5, <1>6, <1>13

(* Counting itself out, a thief hands its value out.                       *)
LEMMA CountStep ==
  ASSUME BwInv, NEW t \in BwThieves, BwCount(t)
  PROVE  /\ BwInv' /\ SlotsKept /\ UNCHANGED <<bwOwner, bwPushed, bwRefused>>
         /\ \E v \in Values :
              /\ InClaim(bwBlock, bwThief, v) /\ bwOut' = [bwOut EXCEPT ![v] = @ + 1]
              /\ \A u : InClaim(bwBlock', bwThief', u) <=> InClaim(bwBlock, bwThief, u) /\ u # v
  <1>1. BwForm /\ BwTypes /\ Bounds /\ Hand /\ Somewhere /\ Nowhere /\ Single /\ Order
    BY DEF BwInv, BwForm, Places
  <1>2. /\ BwForm' /\ SlotsKept /\ UNCHANGED <<bwLast, bwStart, bwOwner, bwPushed, bwRefused>>
        /\ Holds(bwThief, t) /\ ~Holds(bwThief', t)
        /\ \A w \in BwThieves : w # t =>
             /\ Holds(bwThief', w) <=> Holds(bwThief, w)
             /\ Prize(bwBlock', bwThief', w) = Prize(bwBlock, bwThief, w)
    BY <1>1, CountForm
  <1>3. PICK v \in Values : /\ v = Prize(bwBlock, bwThief, t)
                            /\ bwOut' = [bwOut EXCEPT ![v] = @ + 1]
    BY <1>1, CountForm
  <1>4. InClaim(bwBlock, bwThief, v)
    BY <1>2, <1>3 DEF InClaim
  <1>5. \A u : InClaim(bwBlock', bwThief', u) <=> InClaim(bwBlock, bwThief, u) /\ u # v
    <2>1. \A w \in BwThieves : w # t /\ Holds(bwThief, w) => Prize(bwBlock, bwThief, w) # v
      BY <1>1, <1>2, <1>3 DEF Single
    <2>2. QED
      BY <2>1, <1>2, <1>3 DEF InClaim
  <1>6. \A u : InSlot(bwBlock', u) <=> InSlot(bwBlock, u)
    BY <1>2, KeptWhere
  <1>7. \A u : InHand(u)' <=> InHand(u)
    BY <1>2 DEF InHand
  <1>8. /\ bwOut[v] = 0 /\ v \in 1 .. bwPushed /\ ~InSlot(bwBlock, v) /\ v \notin bwRefused
        /\ ~InHand(v)
    BY <1>1, <1>4 DEF Nowhere
  <1>9. bwOut'[v] = 1 /\ \A u \in Values : u # v => bwOut'[u] = bwOut[u]
    BY <1>1, <1>3, <1>8 DEF BwTypes, BooksTyped
  <1>10. Hand'
    <2>1. \A y \in BlockIds : bwBlock'[y].tail = bwBlock[y].tail /\ bwBlock'[y].ring = bwBlock[y].ring
      BY <1>1, CountEffect DEF OnlyAt
    <2>2. BwHere \in BlockIds /\ BwHere' = BwHere
      BY <1>1, <1>2, SeqParts DEF BwHere, BwTypes, BooksTyped
    <2>3. QED
      BY <2>1, <2>2, <1>1, <1>2 DEF Hand
  <1>11. Somewhere'
    <2>1. \A u \in 1 .. bwPushed : u \in Values
      BY <1>1, BwAssumption DEF BwTypes, BooksTyped, Values
    <2>2. QED
      BY <2>1, <1>1, <1>2, <1>5, <1>6, <1>7, <1>9 DEF Somewhere
  <1>12. Nowhere'
    <2>1. SUFFICES ASSUME NEW u \in Values
                   PROVE  /\ bwOut'[u] <= 1
                          /\ InSlot(bwBlock', u) \/ InClaim(bwBlock', bwThief', u) \/ bwOut'[u] > 0
                               => u \in 1 .. bwPushed
                          /\ InSlot(bwBlock', u) => ~InClaim(bwBlock', bwThief', u)
                          /\ InSlot(bwBlock', u) \/ InClaim(bwBlock', bwThief', u) => bwOut'[u] = 0
                          /\ InSlot(bwBlock', u) \/ InClaim(bwBlock', bwThief', u) \/ bwOut'[u] > 0
                               => u \notin bwRefused
                          /\ InSlot(bwBlock', u) \/ InClaim(bwBlock', bwThief', u) \/ bwOut'[u] > 0
                             \/ u \in bwRefused => ~InHand(u)
      BY <1>2, <1>7 DEF Nowhere
    <2>2. CASE u = v
      BY <2>2, <1>5, <1>6, <1>8, <1>9
    <2>3. CASE u # v
      BY <2>3, <1>1, <1>5, <1>6, <1>9 DEF Nowhere
    <2>4. QED
      BY <2>2, <2>3
  <1>13. Single'
    BY <1>1, <1>2 DEF Single
  <1>14. Order'
    <2>1. Window' = Window
      BY <1>2 DEF Window
    <2>2. \A s \in Window : BwIndex(s) \in BlockIds
      BY <1>1, WindowBlocks
    <2>3. QED
      BY <2>1, <2>2, <1>1, <1>2 DEF Order, Before, SlotsKept
  <1>15. BwInv'
    BY <1>2, <1>10, <1>11, <1>12, <1>13, <1>14 DEF BwInv, Places
  <1>16. QED
    BY <1>2, <1>3, <1>4, <1>5, <1>15

-----------------------------------------------------------------------------
LEMMA InitBlocks ==
  ASSUME BwInit
  PROVE  /\ BlocksTyped
         /\ bwBlock[0].head = <<0, 0>> /\ bwBlock[0].tail = 0 /\ bwBlock[0].stealTail = <<0, BwSize>>
         /\ bwBlock[0].count = 0
         /\ \A x \in BlockIds : x # 0 =>
              /\ bwBlock[x].head = <<BwMaxGen, BwSize>> /\ bwBlock[x].tail = BwSize
              /\ bwBlock[x].stealTail = <<BwMaxGen, BwSize>> /\ bwBlock[x].count = BwSize
  <1>1. /\ <<BwMaxGen, BwSize>> \in Positions /\ <<0, 0>> \in Positions /\ <<0, BwSize>> \in Positions
        /\ 0 \in 0 .. BwSize /\ BwSize \in 0 .. BwSize /\ BwSize \in Nat /\ 0 \in Nat /\ 0 \in BlockIds
    BY BwAssumption DEF Positions, BlockIds
  <1>2. PICK a : a = BwUnused
    OBVIOUS
  <1>3. /\ a \in Block /\ a.head = <<BwMaxGen, BwSize>> /\ a.tail = BwSize
        /\ a.stealTail = <<BwMaxGen, BwSize>> /\ a.count = BwSize
    <2>1. [i \in 0 .. (BwSize - 1) |-> 0] \in [Slots -> Values]
      BY BwAssumption DEF Slots, Values
    <2>2. QED
      BY <2>1, <1>1, <1>2 DEF BwUnused, Block
  <1>4. PICK c : c = BwReset(a, 0)
    OBVIOUS
  <1>5. c \in Block /\ c.head = <<0, 0>> /\ c.tail = 0 /\ c.stealTail = <<0, BwSize>> /\ c.count = 0
    BY <1>1, <1>3, <1>4 DEF BwReset, Block
  <1>6. bwBlock = [x \in BlockIds |-> IF x = 0 THEN c ELSE a]
    BY <1>2, <1>4 DEF BwInit, BlockIds
  <1>7. BlocksTyped /\ bwBlock[0] = c /\ \A x \in BlockIds : x # 0 => bwBlock[x] = a
    BY <1>1, <1>3, <1>5, <1>6 DEF BlocksTyped
  <1>8. QED
    BY <1>3, <1>5, <1>7

LEMMA InitInv ==
  BwInit => BwInv
  <1> SUFFICES ASSUME BwInit
               PROVE  BwInv
    OBVIOUS
  <1>1. /\ BlocksTyped
        /\ bwBlock[0].head = <<0, 0>> /\ bwBlock[0].tail = 0 /\ bwBlock[0].stealTail = <<0, BwSize>>
        /\ bwBlock[0].count = 0
        /\ \A x \in BlockIds : x # 0 =>
             /\ bwBlock[x].head = <<BwMaxGen, BwSize>> /\ bwBlock[x].tail = BwSize
             /\ bwBlock[x].stealTail = <<BwMaxGen, BwSize>> /\ bwBlock[x].count = BwSize
    BY InitBlocks
  <1>2. /\ bwLast = 0 /\ bwStart = 0 /\ bwPushed = 0 /\ bwRefused = {}
        /\ bwOwner = [pc |-> "idle", value |-> 0, got |-> 0]
        /\ bwThief = [t \in BwThieves |-> BwResting] /\ bwOut = [v \in Values |-> 0]
    BY DEF BwInit, Values
  <1>3. bwOwner.pc = "idle" /\ \A t \in BwThieves : bwThief[t].pc = "idle"
    BY <1>2 DEF BwResting
  <1>4. BwTypes
    <2>1. 0 \in Values
      BY BwAssumption DEF Values
    <2>2. ThiefTyped
      BY <1>2, RestingTyped DEF ThiefTyped
    <2>3. BooksTyped
      BY <2>1, <1>2 DEF BooksTyped, OwnerPC
    <2>4. QED
      BY <2>2, <2>3, <1>1 DEF BwTypes
  <1>5. \A s \in BlockIds : BwIndex(s) = s /\ BwGen(s) = 0
    <2>1. SUFFICES ASSUME NEW s \in BlockIds
                   PROVE  BwIndex(s) = s /\ BwGen(s) = 0
      OBVIOUS
    <2>2. s \in 0 .. (BwBlocks - 1) /\ s \in Int /\ 0 \in Int /\ s = BwBlocks * 0 + s
          /\ BwBlocks \in Nat /\ BwBlocks > 0
      BY BwAssumption DEF BlockIds
    <2>3. (s % BwBlocks) = s /\ (s \div BwBlocks) = 0
      BY <2>2, DivModIs
    <2>4. QED
      BY <2>3 DEF BwIndex, BwGen
  <1>6. Window = BlockIds /\ 0 \in BlockIds /\ 0 < BwBlocks
    BY <1>2, BwAssumption DEF Window, BlockIds
  <1>7. Bounds
    BY <1>2, <1>3, <1>5, <1>6, BwAssumption DEF Bounds, Leaving, Going
  <1>8. Shapes
    <2>1. ASSUME NEW s \in Window
          PROVE  Shape(s)
      <3>1. s \in BlockIds /\ s \in Nat /\ BwIndex(s) = s /\ BwGen(s) = 0
        BY <1>5, <1>6, BwAssumption DEF BlockIds
      <3>2. CASE s = 0
        <4>1. ~Granted(s) /\ ~Halved(s) /\ ~Free(s)
          BY <3>2, <1>2, <1>3 DEF Granted, Halved, Free, Going
        <4>2. OwnedShape(s, bwBlock[s])
          BY <3>1, <3>2, <1>1 DEF OwnedShape
        <4>3. QED
          BY <4>1, <4>2, <3>1 DEF Shape
      <3>3. CASE s # 0
        <4>1. ~Granted(s) /\ ~Halved(s) /\ ~Owned(s)
          BY <3>1, <3>3, <1>2, <1>3 DEF Granted, Halved, Owned, Half, AtHome
        <4>2. FreeShape(s, bwBlock[s])
          BY <3>1, <3>3, <1>1, PrevOfZero, BwAssumption DEF FreeShape
        <4>3. QED
          BY <4>1, <4>2, <3>1 DEF Shape
      <3>4. QED
        BY <3>2, <3>3
    <2>2. QED
      BY <2>1, <1>3 DEF Shapes
  <1>9. \A t \in BwThieves : ~Holds(bwThief, t)
    BY <1>3 DEF Holds
  <1>10. Aims /\ Claims
    BY <1>3, <1>9 DEF Aims, Claims
  <1>11. \A x \in BlockIds : bwBlock[x] \in Block
    BY <1>1 DEF BlocksTyped
  <1>12. Low(bwBlock[0]) = 0 /\ \A x \in BlockIds : x # 0 => Low(bwBlock[x]) = BwSize
    BY <1>1, <1>6, <1>11, LowTyped
  <1>13. Counted
    <2>1. ASSUME NEW x \in BlockIds
          PROVE  bwBlock[x].count + Cardinality(Holders(bwThief, x)) = Low(bwBlock[x])
      <3>1. Holders(bwThief, x) = {}
        BY <1>9 DEF Holders
      <3>2. Cardinality(Holders(bwThief, x)) = 0
        BY <3>1, FS_EmptySet
      <3>3. QED
        BY <3>2, <1>1, <1>12, BwAssumption
    <2>2. QED
      BY <2>1 DEF Counted
  <1>14. \A x \in BlockIds : \A i \in Slots : ~LiveSlot(bwBlock[x], i)
    BY <1>1, <1>12, BwAssumption DEF LiveSlot, Slots
  <1>15. /\ \A v : ~InSlot(bwBlock, v)
         /\ \A v : ~InClaim(bwBlock, bwThief, v)
         /\ \A v : ~InHand(v)
    BY <1>3, <1>9, <1>14 DEF InSlot, InClaim, InHand, Pushing
  <1>16. Hand
    BY <1>3 DEF Hand, Pushing, Popping
  <1>17. Somewhere
    BY <1>2 DEF Somewhere
  <1>18. Nowhere /\ Single
    BY <1>2, <1>9, <1>15 DEF Nowhere, Single
  <1>19. Order
    BY <1>5, <1>6, <1>14 DEF Order
  <1>20. QED
    BY <1>4, <1>7, <1>8, <1>10, <1>13, <1>16, <1>17, <1>18, <1>19 DEF BwInv, BwForm, Places

(* The steps that move no value.                                           *)
Moves == \/ BwGrant \/ BwReclaim \/ BwReclaimClose \/ BwReclaimCount \/ BwForward
         \/ BwReduceGeneration \/ BwTakeover \/ BwBack
LEMMA StepKinds ==
  ASSUME BwNext
  PROVE  \/ BwPush \/ BwPop \/ BwNone \/ BwPut \/ BwPublish \/ BwGet \/ Moves
         \/ BwAdvancePut /\ Refuse
         \/ BwAdvancePut /\ Extend
         \/ \E t \in BwThieves : (Roams(t) \/ BwRead(t)) \/ BwClaim(t) \/ BwCount(t)
  <1>1. BwAdvancePut => Refuse \/ Extend
    BY DEF BwAdvancePut, Refuse, Extend
  <1>2. QED
    BY <1>1 DEF BwNext, BwOwnerStep, BwThiefStep, Moves, Roams

LEMMA NextInv ==
  BwInv /\ [BwNext]_bwVars => BwInv'
  <1> SUFFICES ASSUME BwInv, [BwNext]_bwVars
               PROVE  BwInv'
    OBVIOUS
  <1>1. CASE BwNext
    BY <1>1, StepKinds, PushStep, AskStep, PutStep, PublishStep, GetStep, MoveStep, RefuseStep,
       ExtendStep, LookStep, ClaimStep, CountStep DEF Moves
  <1>2. CASE UNCHANGED bwVars
    <2>1. BwForm /\ Hand /\ Somewhere /\ Nowhere /\ Single /\ Order
      BY DEF BwInv, Places
    <2>2. BwTypes' /\ Bounds' /\ Aims'
      BY <2>1, <1>2 DEF BwForm, bwVars, BwTypes, BlocksTyped, ThiefTyped, BooksTyped, Bounds, Aims
    <2>3. Shapes'
      BY <2>1, <1>2 DEF BwForm, bwVars, Shapes, Shape, Window, BwHere, Owned, Granted, Halved, Free
    <2>4. Claims' /\ Counted'
      BY <2>1, <1>2 DEF BwForm, bwVars, Claims, Counted, BwNextIx
    <2>5. Hand' /\ Somewhere' /\ Nowhere' /\ Single' /\ Order'
      BY <2>1, <1>2 DEF bwVars, Hand, BwHere, Somewhere, Nowhere, Single, Order, Window, InHand
    <2>6. QED
      BY <2>2, <2>3, <2>4, <2>5 DEF BwInv, BwForm, Places
  <1>3. QED
    BY <1>1, <1>2

(* The inductive invariant: every block is in one hand and has the ends of *)
(* that hand, every claim is counted or held, every value pushed is in one *)
(* place, and live values rise towards the owner (push_back, pop_back,     *)
(* steal_front).                                                           *)
THEOREM BwInductive == BwSpec => []BwInv
  BY InitInv, NextInv, PTL DEF BwSpec

-----------------------------------------------------------------------------
(* What the definitions of Bwos say of the places.                         *)
LEMMA HeldIs ==
  ASSUME NEW b \in Block
  PROVE  BwHeldIn(b) = {b.ring[i] : i \in {j \in Slots : LiveSlot(b, j)}}
  BY DEF BwHeldIn, LiveSlot, Low, Slots

LEMMA LiveIs ==
  ASSUME NEW blocks \in [BlockIds -> Block]
  PROVE  \A v : v \in UNION {BwHeldIn(blocks[x]) : x \in DOMAIN blocks} <=> InSlot(blocks, v)
  <1>1. \A x \in BlockIds : BwHeldIn(blocks[x]) = {blocks[x].ring[i] : i \in {j \in Slots : LiveSlot(blocks[x], j)}}
    BY HeldIs
  <1>2. DOMAIN blocks = BlockIds
    OBVIOUS
  <1>3. QED
    BY <1>1, <1>2 DEF InSlot

LEMMA LiveNow ==
  /\ BlocksTyped => \A v : v \in BwLive <=> InSlot(bwBlock, v)
  /\ BlocksTyped' => \A v : v \in BwLive' <=> InSlot(bwBlock', v)
  BY LiveIs DEF BlocksTyped, BwLive

LEMMA ClaimedNow ==
  /\ \A v : v \in BwClaimed <=> InClaim(bwBlock, bwThief, v)
  /\ \A v : v \in BwClaimed' <=> InClaim(bwBlock', bwThief', v)
  <1>1. \A t \in BwThieves : \A v :
          v \in BwClaimedBy(t) <=> Holds(bwThief, t) /\ Prize(bwBlock, bwThief, t) = v
    BY DEF BwClaimedBy, Holds, Prize, BwPrey, PreyOf
  <1>2. \A t \in BwThieves : \A v :
          v \in BwClaimedBy(t)' <=> Holds(bwThief', t) /\ Prize(bwBlock', bwThief', t) = v
    BY DEF BwClaimedBy, Holds, Prize, BwPrey, PreyOf
  <1>3. QED
    BY <1>1, <1>2 DEF BwClaimed, InClaim

LEMMA HandedNow ==
  /\ BooksTyped => \A v : v \in BwHandedOut <=> v \in Values /\ bwOut[v] > 0
  /\ BooksTyped' => \A v : v \in BwHandedOut' <=> v \in Values /\ bwOut'[v] > 0
  BY DEF BooksTyped, BwHandedOut

(* As many thieves hold a claim as there are values claimed.               *)
LEMMA ClaimCount ==
  ASSUME BwInv
  PROVE  /\ IsFiniteSet(BwClaimed)
         /\ Cardinality({t \in BwThieves : BwClaimedBy(t) # {}}) = Cardinality(BwClaimed)
  <1>1. PICK H : H = {t \in BwThieves : BwClaimedBy(t) # {}}
    OBVIOUS
  <1>2. H = {t \in BwThieves : Holds(bwThief, t)}
    BY <1>1 DEF BwClaimedBy, Holds
  <1>3. IsFiniteSet(H)
    BY <1>1, BwAssumption, FS_Subset
  <1>4. PICK f : f = [t \in H |-> Prize(bwBlock, bwThief, t)]
    OBVIOUS
  <1>5. \A v : v \in BwClaimed <=> \E t \in H : f[t] = v
    BY <1>2, <1>4, ClaimedNow DEF InClaim
  <1>6. f \in [H -> BwClaimed]
    BY <1>4, <1>5
  <1>7. f \in Surjection(H, BwClaimed)
    BY <1>5, <1>6 DEF Surjection
  <1>8. f \in Injection(H, BwClaimed)
    BY <1>2, <1>4, <1>6 DEF Injection, IsInjective, BwInv, Places, Single
  <1>9. IsFiniteSet(BwClaimed) /\ Cardinality(BwClaimed) = Cardinality(H)
    BY <1>3, <1>7, <1>8, FS_Surjection
  <1>10. QED
    BY <1>1, <1>9

(* Four sets that share nothing are as large as their union.               *)
LEMMA FourParts ==
  ASSUME NEW A, NEW B, NEW C, NEW D, IsFiniteSet(A), IsFiniteSet(B), IsFiniteSet(C), IsFiniteSet(D),
         A \cap B = {}, (A \cup B) \cap C = {}, (A \cup B \cup C) \cap D = {}
  PROVE  Cardinality(A \cup B \cup C \cup D)
           = Cardinality(A) + Cardinality(B) + Cardinality(C) + Cardinality(D)
  <1>1. IsFiniteSet(A \cup B) /\ Cardinality(A \cup B) = Cardinality(A) + Cardinality(B) - Cardinality({})
    BY FS_Union
  <1>2. /\ IsFiniteSet(A \cup B \cup C)
        /\ Cardinality(A \cup B \cup C) = Cardinality(A \cup B) + Cardinality(C) - Cardinality({})
    BY <1>1, FS_Union
  <1>3. Cardinality(A \cup B \cup C \cup D) = Cardinality(A \cup B \cup C) + Cardinality(D) - Cardinality({})
    BY <1>2, FS_Union
  <1>4. /\ Cardinality(A) \in Nat /\ Cardinality(B) \in Nat /\ Cardinality(C) \in Nat
        /\ Cardinality(D) \in Nat /\ Cardinality({}) = 0
    BY FS_CardinalityType, FS_EmptySet
  <1>5. QED
    BY <1>1, <1>2, <1>3, <1>4

LEMMA ExactHolds ==
  BwInv => BwExact
  <1> SUFFICES ASSUME BwInv, bwOwner.pc = "idle"
               PROVE  /\ BwLive \cup BwClaimed \cup BwHandedOut \cup bwRefused = 1 .. bwPushed
                      /\ Cardinality(BwLive) + Cardinality(BwHandedOut) + Cardinality(bwRefused)
                           + Cardinality({t \in BwThieves : BwClaimedBy(t) # {}}) = bwPushed
                      /\ \A v \in DOMAIN bwOut : bwOut[v] <= 1
    BY DEF BwExact
  <1>1. BwForm /\ BwTypes /\ BlocksTyped /\ BooksTyped /\ Claims /\ Somewhere /\ Nowhere
    BY DEF BwInv, BwForm, BwTypes, Places
  <1>2. \A v : v \in BwLive <=> InSlot(bwBlock, v)
    BY <1>1, LiveNow
  <1>3. \A v : v \in BwClaimed <=> InClaim(bwBlock, bwThief, v)
    BY ClaimedNow
  <1>4. \A v : v \in BwHandedOut <=> v \in Values /\ bwOut[v] > 0
    BY <1>1, HandedNow
  <1>5. \A v : ~InHand(v)
    BY DEF InHand, Pushing
  <1>6. \A v : InSlot(bwBlock, v) => v \in Values
    BY <1>1, SlotValues DEF InSlot
  <1>7. \A v : InClaim(bwBlock, bwThief, v) => v \in Values
    BY <1>1, PrizeTyped DEF InClaim
  <1>8. bwPushed \in Nat /\ bwRefused \in SUBSET (1 .. bwPushed) /\ \A v \in 1 .. bwPushed : v \in Values
    BY <1>1, BwAssumption DEF BooksTyped, Values
  <1>9. BwLive \cup BwClaimed \cup BwHandedOut \cup bwRefused = 1 .. bwPushed
    <2>1. ASSUME NEW v \in 1 .. bwPushed
          PROVE  v \in BwLive \cup BwClaimed \cup BwHandedOut \cup bwRefused
      BY <1>1, <1>2, <1>3, <1>4, <1>5, <1>8 DEF Somewhere
    <2>2. ASSUME NEW v \in BwLive \cup BwClaimed \cup BwHandedOut \cup bwRefused
          PROVE  v \in 1 .. bwPushed
      BY <1>1, <1>2, <1>3, <1>4, <1>6, <1>7, <1>8 DEF Nowhere
    <2>3. QED
      BY <2>1, <2>2
  <1>10. /\ BwLive \cap BwHandedOut = {}
         /\ (BwLive \cup BwHandedOut) \cap bwRefused = {}
         /\ (BwLive \cup BwHandedOut \cup bwRefused) \cap BwClaimed = {}
    <2>1. \A v \in Values : bwOut[v] = 0 => ~(bwOut[v] > 0)
      OBVIOUS
    <2>2. BwLive \cap BwHandedOut = {}
      BY <2>1, <1>1, <1>2, <1>4, <1>6 DEF Nowhere
    <2>3. (BwLive \cup BwHandedOut) \cap bwRefused = {}
      BY <1>1, <1>2, <1>4, <1>6 DEF Nowhere
    <2>4. (BwLive \cup BwHandedOut \cup bwRefused) \cap BwClaimed = {}
      BY <2>1, <1>1, <1>2, <1>3, <1>4, <1>6, <1>7 DEF Nowhere
    <2>5. QED
      BY <2>2, <2>3, <2>4
  <1>11. IsFiniteSet(1 .. bwPushed) /\ Cardinality(1 .. bwPushed) = bwPushed
    BY <1>8, FS_Interval
  <1>12. /\ IsFiniteSet(BwLive) /\ IsFiniteSet(BwHandedOut) /\ IsFiniteSet(bwRefused)
         /\ IsFiniteSet(BwClaimed)
    <2>1. /\ BwLive \in SUBSET (1 .. bwPushed) /\ BwHandedOut \in SUBSET (1 .. bwPushed)
          /\ bwRefused \in SUBSET (1 .. bwPushed) /\ BwClaimed \in SUBSET (1 .. bwPushed)
      BY <1>9
    <2>2. QED
      BY <2>1, <1>11, FS_Subset
  <1>13. BwLive \cup BwHandedOut \cup bwRefused \cup BwClaimed = 1 .. bwPushed
    BY <1>9
  <1>14. Cardinality(1 .. bwPushed) = Cardinality(BwLive) + Cardinality(BwHandedOut)
                                      + Cardinality(bwRefused) + Cardinality(BwClaimed)
    <2>1. PICK A, B, C, D : A = BwLive /\ B = BwHandedOut /\ C = bwRefused /\ D = BwClaimed
      OBVIOUS
    <2>2. /\ IsFiniteSet(A) /\ IsFiniteSet(B) /\ IsFiniteSet(C) /\ IsFiniteSet(D)
          /\ A \cap B = {} /\ (A \cup B) \cap C = {} /\ (A \cup B \cup C) \cap D = {}
      BY <2>1, <1>10, <1>12
    <2>3. Cardinality(A \cup B \cup C \cup D)
            = Cardinality(A) + Cardinality(B) + Cardinality(C) + Cardinality(D)
      BY <2>2, FourParts
    <2>4. QED
      BY <2>1, <2>3, <1>13
  <1>15. Cardinality({t \in BwThieves : BwClaimedBy(t) # {}}) = Cardinality(BwClaimed)
    BY ClaimCount
  <1>16. \A v \in DOMAIN bwOut : bwOut[v] <= 1
    BY <1>1 DEF Nowhere, BooksTyped
  <1>17. QED
    BY <1>9, <1>11, <1>14, <1>15, <1>16

(* Between the owner's calls every value pushed is in exactly one place,   *)
(* whatever the thieves are doing: nothing is lost, handed out twice, or   *)
(* overwritten before a thief that has claimed it has read it (push_back,  *)
(* pop_back, steal_front, Block::drop).                                    *)
THEOREM BwExactAlways == BwSpec => []BwExact
  BY BwInductive, ExactHolds, PTL

-----------------------------------------------------------------------------
(* The block queue implements StealQueue.                                  *)
Taken == BwHandedOut \cup BwClaimed
Stays == BwLive' = BwLive /\ bwOwner'.got = bwOwner.got /\ Taken' = Taken

(* What is live and what is taken, before and after a step, by place.      *)
LEMMA Seen ==
  ASSUME BwInv, BwInv'
  PROVE  /\ \A v : v \in BwLive <=> InSlot(bwBlock, v)
         /\ \A v : v \in BwLive' <=> InSlot(bwBlock', v)
         /\ \A v : v \in Taken <=> (v \in Values /\ bwOut[v] > 0) \/ InClaim(bwBlock, bwThief, v)
         /\ \A v : v \in Taken' <=> (v \in Values /\ bwOut'[v] > 0) \/ InClaim(bwBlock', bwThief', v)
  <1>1. BlocksTyped /\ BooksTyped
    BY DEF BwInv, BwForm, BwTypes
  <1>2. BlocksTyped' /\ BooksTyped'
    BY DEF BwInv, BwForm, BwTypes
  <1>3. QED
    BY <1>1, <1>2, LiveNow, ClaimedNow, HandedNow DEF Taken

(* A step that keeps slots, claims and what is handed out is no step of    *)
(* StealQueue's.                                                           *)
LEMMA KeptStays ==
  ASSUME BwInv, BwInv', SlotsKept, ClaimsKept, UNCHANGED bwOut
  PROVE  BwLive' = BwLive /\ Taken' = Taken
  <1>1. /\ \A v : InSlot(bwBlock', v) <=> InSlot(bwBlock, v)
        /\ \A v : InClaim(bwBlock', bwThief', v) <=> InClaim(bwBlock, bwThief, v)
    BY KeptWhere
  <1>2. \A v : v \in BwLive' <=> v \in BwLive
    BY <1>1, Seen
  <1>3. \A v : v \in Taken' <=> v \in Taken
    BY <1>1, Seen
  <1>4. QED
    BY <1>2, <1>3

(* One more value handed out.                                              *)
LEMMA OneMoreOut ==
  ASSUME BwInv, NEW v \in Values, bwOut' = [bwOut EXCEPT ![v] = @ + 1]
  PROVE  \A u \in Values : bwOut'[u] > 0 <=> bwOut[u] > 0 \/ u = v
  <1>1. bwOut \in [Values -> Nat]
    BY DEF BwInv, BwForm, BwTypes, BooksTyped
  <1>2. QED
    BY <1>1

LEMMA StepStays ==
  ASSUME BwInv,
         \/ BwPush \/ BwPut \/ Moves
         \/ BwAdvancePut /\ Refuse
         \/ BwAdvancePut /\ Extend
         \/ \E t \in BwThieves : Roams(t) \/ BwRead(t)
  PROVE  Stays
  <1>1. BwForm /\ BwTypes /\ Hand
    BY DEF BwInv, BwForm
  <1>2. BwInv' /\ SlotsKept /\ ClaimsKept
    BY PushStep, PutStep, MoveStep, RefuseStep, ExtendStep, LookStep DEF Moves
  <1>3. UNCHANGED bwOut
    <2>1. Moves => UNCHANGED bwOut
      BY MoveStep DEF Moves
    <2>2. ASSUME NEW t \in BwThieves, Roams(t) \/ BwRead(t)
          PROVE  UNCHANGED bwOut
      BY <2>2, LookStep
    <2>3. QED
      BY <2>1, <2>2 DEF BwPush, BwPut, BwAdvancePut
  <1>4. bwOwner'.got = bwOwner.got
    <2>1. Moves => bwOwner'.got = bwOwner.got
      BY MoveStep DEF Moves
    <2>2. ASSUME NEW t \in BwThieves, Roams(t) \/ BwRead(t)
          PROVE  bwOwner'.got = bwOwner.got
      BY <2>2, LookStep
    <2>3. QED
      BY <2>1, <2>2, <1>1, PushEffect, PutEffect, RefuseEffect, ExtendEffect
  <1>5. QED
    BY <1>2, <1>3, <1>4, KeptStays DEF Stays

LEMMA PublishPushes ==
  ASSUME BwInv, BwPublish
  PROVE  BwPromise!Push
  <1>1. /\ BwInv' /\ ClaimsKept /\ UNCHANGED <<bwOut, bwPushed, bwRefused>>
        /\ bwOwner'.got = bwOwner.got /\ InHand(bwPushed) /\ bwPushed > 0
        /\ \A v : InSlot(bwBlock', v) <=> InSlot(bwBlock, v) \/ v = bwPushed
    BY PublishStep
  <1>2. BwTypes /\ Claims /\ Nowhere /\ bwPushed \in Nat /\ bwPushed \in Values
    BY BwAssumption DEF BwInv, BwForm, Places, BwTypes, BooksTyped, Values
  <1>3. \A v : InSlot(bwBlock, v) => v \in Values
    BY <1>2, SlotValues DEF InSlot
  <1>4. \A v : InClaim(bwBlock, bwThief, v) => v \in Values
    BY <1>2, PrizeTyped DEF InClaim
  <1>5. ~InSlot(bwBlock, bwPushed)
    BY <1>1, <1>2 DEF Nowhere
  <1>6. BwLive' = BwLive \cup {bwPushed} /\ bwPushed \in BwLive' \ BwLive
    BY <1>1, <1>5, Seen
  <1>7. ASSUME NEW u \in BwLive \cup Taken
        PROVE  u < bwPushed
    <2>1. u \in Values /\ (InSlot(bwBlock, u) \/ InClaim(bwBlock, bwThief, u) \/ bwOut[u] > 0)
      BY <1>1, <1>3, <1>4, Seen
    <2>2. u \in 1 .. bwPushed /\ ~InHand(u)
      BY <2>1, <1>2 DEF Nowhere
    <2>3. u # bwPushed
      BY <2>2, <1>1
    <2>4. QED
      BY <2>2, <2>3, <1>2
  <1>8. Taken' = Taken
    <2>1. \A v : InClaim(bwBlock', bwThief', v) <=> InClaim(bwBlock, bwThief, v)
      BY <1>1, KeptWhere
    <2>2. \A v : v \in Taken' <=> v \in Taken
      BY <2>1, <1>1, Seen
    <2>3. QED
      BY <2>2
  <1>9. QED
    BY <1>1, <1>2, <1>6, <1>7, <1>8 DEF BwPromise!Push, Taken

LEMMA GetPops ==
  ASSUME BwInv, BwGet
  PROVE  BwPromise!Pop
  <1>1. BwInv' /\ ClaimsKept
    BY GetStep
  <1>2. PICK v \in Values :
          /\ InSlot(bwBlock, v) /\ bwOwner'.got = v /\ bwOwner.got = -1
          /\ bwOut' = [bwOut EXCEPT ![v] = @ + 1]
          /\ \A u : InSlot(bwBlock', u) <=> InSlot(bwBlock, u) /\ u # v
          /\ \A u : InSlot(bwBlock, u) => u <= v
    BY GetStep
  <1>3. \A u \in Values : bwOut'[u] > 0 <=> bwOut[u] > 0 \/ u = v
    BY <1>2, OneMoreOut
  <1>4. v \in BwLive /\ (\A u \in BwLive : u <= v) /\ BwLive' = BwLive \ {v}
    BY <1>1, <1>2, Seen
  <1>5. Taken' = Taken \cup {v}
    <2>1. \A u : InClaim(bwBlock', bwThief', u) <=> InClaim(bwBlock, bwThief, u)
      BY <1>1, KeptWhere
    <2>2. \A u : u \in Taken' <=> u \in Taken \cup {v}
      BY <2>1, <1>1, <1>3, Seen
    <2>3. QED
      BY <2>2
  <1>6. QED
    BY <1>2, <1>4, <1>5 DEF BwPromise!Pop, Taken

LEMMA ClaimSteals ==
  ASSUME BwInv, NEW t \in BwThieves, BwClaim(t)
  PROVE  BwPromise!Steal
  <1>1. BwInv' /\ UNCHANGED <<bwOwner, bwOut, bwPushed, bwRefused>>
    BY ClaimStep
  <1>2. PICK v \in Values :
          /\ InSlot(bwBlock, v)
          /\ \A u : InSlot(bwBlock', u) <=> InSlot(bwBlock, u) /\ u # v
          /\ \A u : InClaim(bwBlock', bwThief', u) <=> InClaim(bwBlock, bwThief, u) \/ u = v
    BY ClaimStep
  <1>3. v \in BwLive /\ BwLive' = BwLive \ {v}
    BY <1>1, <1>2, Seen
  <1>4. Taken' = Taken \cup {v}
    <2>1. \A u : u \in Taken' <=> u \in Taken \cup {v}
      BY <1>1, <1>2, Seen
    <2>2. QED
      BY <2>1
  <1>5. QED
    BY <1>1, <1>3, <1>4 DEF BwPromise!Steal, Taken

LEMMA CountStays ==
  ASSUME BwInv, NEW t \in BwThieves, BwCount(t)
  PROVE  Stays
  <1>1. BwInv' /\ SlotsKept /\ UNCHANGED <<bwOwner, bwPushed, bwRefused>>
    BY CountStep
  <1>2. PICK v \in Values :
          /\ InClaim(bwBlock, bwThief, v) /\ bwOut' = [bwOut EXCEPT ![v] = @ + 1]
          /\ \A u : InClaim(bwBlock', bwThief', u) <=> InClaim(bwBlock, bwThief, u) /\ u # v
    BY CountStep
  <1>3. \A u \in Values : bwOut'[u] > 0 <=> bwOut[u] > 0 \/ u = v
    BY <1>2, OneMoreOut
  <1>4. \A u : InSlot(bwBlock', u) <=> InSlot(bwBlock, u)
    BY <1>1, KeptWhere
  <1>5. BwLive' = BwLive
    <2>1. \A u : u \in BwLive' <=> u \in BwLive
      BY <1>1, <1>4, Seen
    <2>2. QED
      BY <2>1
  <1>6. Taken' = Taken
    <2>1. \A u : u \in Taken' <=> u \in Taken
      BY <1>1, <1>2, <1>3, Seen
    <2>2. QED
      BY <2>1
  <1>7. QED
    BY <1>1, <1>5, <1>6 DEF Stays

LEMMA PopAsks ==
  ASSUME BwInv, BwPop
  PROVE  BwPromise!Ask
  <1>1. BwInv' /\ SlotsKept /\ ClaimsKept /\ UNCHANGED bwOut
    BY AskStep DEF BwPop
  <1>2. bwOwner'.got = -1
    BY PopEffect DEF BwInv, BwForm
  <1>3. BwLive' = BwLive /\ Taken' = Taken
    BY <1>1, KeptStays
  <1>4. QED
    BY <1>2, <1>3 DEF BwPromise!Ask, Taken

(* "None" is answered only when nothing is live: the owner is in the first *)
(* block of the window and that one is drained.                            *)
LEMMA NoneFindsNothing ==
  ASSUME BwInv, BwNone
  PROVE  BwPromise!Empty
  <1>1. BwInv' /\ SlotsKept /\ ClaimsKept /\ UNCHANGED bwOut
    BY AskStep DEF BwNone
  <1>2. BwForm /\ BwTypes /\ Bounds /\ Shapes /\ Hand
    BY DEF BwInv, BwForm
  <1>3. /\ bwOwner.pc = "get" /\ bwOwner'.got = 0 /\ bwStart = bwLast
        /\ bwBlock[BwHere].tail = 0 \/ bwBlock[BwHere].head[2] = bwBlock[BwHere].tail
    BY <1>2, NoneEffect
  <1>4. bwOwner.got = -1
    BY <1>2, <1>3 DEF Hand, Popping
  <1>5. BwLive' = BwLive /\ Taken' = Taken
    BY <1>1, KeptStays
  <1>6. ASSUME NEW v \in BwLive
        PROVE  FALSE
    <2>1. PICK x \in BlockIds, i \in Slots : LiveSlot(bwBlock[x], i)
      BY <1>1, Seen DEF InSlot
    <2>2. PICK s \in Window : BwIndex(s) = x
      BY <1>2, WindowBlocks
    <2>3. s \in Nat /\ bwLast \in Nat /\ bwLast \in Window /\ s >= bwLast
      BY <1>2, <1>3, WindowBlocks, HereInWindow, BwAssumption DEF Window
    <2>4. s = bwLast
      BY <2>1, <2>2, <2>3, <1>2, <1>3, AboveDead
    <2>5. x = BwHere /\ Owned(bwLast) /\ bwBlock[x] \in Block
      BY <2>2, <2>4, <1>2, <1>3 DEF BwHere, Owned, AtHome, BwTypes, BlocksTyped
    <2>6. OwnedShape(bwLast, bwBlock[x])
      BY <2>3, <2>5, <1>2 DEF Shapes, Shape, BwHere
    <2>7. Low(bwBlock[x]) = bwBlock[x].head[2] /\ bwBlock[x].head[2] \in Nat /\ i \in Nat
          /\ bwBlock[x].tail \in Nat
      BY <2>5, <2>6, LowTyped, BlockFields, BwAssumption DEF OwnedShape, Slots
    <2>8. QED
      BY <2>1, <2>5, <2>7, <1>3 DEF LiveSlot
  <1>7. BwLive = {}
    BY <1>6
  <1>8. QED
    BY <1>3, <1>4, <1>5, <1>7 DEF BwPromise!Empty, Taken

(* A push is refused only while the next block holds something: it is the  *)
(* first of the window, come round, and thieves have not emptied it.       *)
LEMMA RefusedFull ==
  ASSUME BwInv, BwAdvancePut, Refuse
  PROVE  BwHeldIn(bwBlock[BwNextIx]) # {}
  <1>1. BwForm /\ BwTypes /\ Bounds /\ Shapes /\ Hand
    BY DEF BwInv, BwForm
  <1>2. bwOwner.pc = "put"
    BY DEF BwAdvancePut, BwOwnerAt
  <1>3. bwBlock[BwNextIx].stealTail # <<BwPrevGen(BwNextGen), BwSize>>
    BY DEF Refuse, BwIsWritable
  <1>4. bwStart \in Nat /\ bwLast \in Nat /\ BwBlocks \in Nat /\ bwStart <= bwLast
    BY <1>1, BwAssumption DEF BwTypes, BooksTyped, Bounds
  <1>5. bwLast + 1 = bwStart + BwBlocks
    <2>1. ASSUME bwLast + 1 < bwStart + BwBlocks
          PROVE  FALSE
      <3>1. bwLast + 1 \in Window /\ Free(bwLast + 1)
        BY <2>1, <1>2, <1>4 DEF Window, Free
      <3>2. FreeShape(bwLast + 1, bwBlock[BwNextIx])
        BY <3>1, <1>1 DEF Shapes, Shape, BwNextIx
      <3>3. QED
        BY <3>2, <1>3 DEF FreeShape, BwNextGen
    <2>2. bwLast + 1 <= bwStart + BwBlocks
      BY <1>1, ComeRound
    <2>3. QED
      BY <2>1, <2>2, <1>4
  <1>6. PICK h : h = BwNextIx
    OBVIOUS
  <1>7. h = BwIndex(bwStart) /\ BwNextGen = BwGen(bwStart) + 1 /\ bwStart < bwLast
    BY <1>1, <1>5, <1>6, ComeRound
  <1>8. bwStart \in Window /\ Granted(bwStart) /\ h \in BlockIds
    BY <1>1, <1>2, <1>4, <1>7, WindowBlocks, BwAssumption DEF Window, Granted
  <1>9. GrantedShape(bwStart, bwBlock[h]) /\ bwBlock[h] \in Block
    BY <1>1, <1>7, <1>8 DEF Shapes, Shape, BwTypes, BlocksTyped
  <1>10. BwPrevGen(BwNextGen) = BwGen(bwStart)
    <2>1. BwGen(bwStart) \in Nat /\ BwGen(bwLast) \in Nat /\ BwGen(bwStart) <= BwGen(bwLast)
      BY <1>4, SeqParts, GenRises
    <2>2. BwGen(bwStart) \in 0 .. BwMaxGen
      BY <2>1, <1>1, BwAssumption DEF Bounds
    <2>3. QED
      BY <2>2, <1>7, PrevOfNext
  <1>11. bwBlock[h].stealTail[2] # BwSize
    BY <1>3, <1>6, <1>9, <1>10, BlockFields DEF GrantedShape
  <1>12. PICK k \in Slots : k = bwBlock[h].stealTail[2]
    BY <1>9, <1>11, BlockFields, BwAssumption DEF Slots
  <1>13. LiveSlot(bwBlock[h], k)
    BY <1>9, <1>12, LowTyped, BwAssumption DEF GrantedShape, LiveSlot, Slots
  <1>14. bwBlock[h].ring[k] \in BwHeldIn(bwBlock[h])
    BY <1>9, <1>13, HeldIs
  <1>15. QED
    BY <1>6, <1>14

LEMMA StepSound ==
  ASSUME BwInv, [BwNext]_bwVars
  PROVE  [BwPromise!Next]_(BwPromise!sqVars)
  <1>1. Stays => UNCHANGED BwPromise!sqVars
    BY DEF Stays, Taken, BwPromise!sqVars
  <1>2. CASE BwNext
    BY <1>1, <1>2, StepKinds, StepStays, PublishPushes, GetPops, ClaimSteals, CountStays, PopAsks,
       NoneFindsNothing DEF BwPromise!Next
  <1>3. CASE UNCHANGED bwVars
    <2>1. Stays
      BY <1>3 DEF bwVars, Stays, Taken, BwLive, BwClaimed, BwClaimedBy, BwHandedOut, BwPrey
    <2>2. QED
      BY <2>1, <1>1
  <1>4. QED
    BY <1>2, <1>3

LEMMA StepFullOnly ==
  ASSUME BwInv, [BwNext]_bwVars
  PROVE  [bwRefused' # bwRefused => BwHeldIn(bwBlock[BwNextIx]) # {}]_bwVars
  <1>1. CASE BwNext
    <2>1. CASE BwAdvancePut /\ Refuse
      BY <2>1, RefusedFull
    <2>2. CASE ~(BwAdvancePut /\ Refuse)
      <3>1. bwRefused' = bwRefused
        <4>1. ASSUME NEW t \in BwThieves, Roams(t) \/ BwRead(t)
              PROVE  bwRefused' = bwRefused
          BY <4>1, LookStep
        <4>2. Moves => bwRefused' = bwRefused
          BY MoveStep DEF Moves
        <4>3. QED
          BY <4>1, <4>2, <2>2, <1>1, StepKinds
             DEF BwPush, BwPop, BwNone, BwPut, BwPublish, BwGet, Extend, BwClaim, BwCount
      <3>2. QED
        BY <3>1
    <2>3. QED
      BY <2>1, <2>2
  <1>2. CASE UNCHANGED bwVars
    BY <1>2
  <1>3. QED
    BY <1>1, <1>2

LEMMA InitSound ==
  BwInit => BwPromise!Init
  <1> SUFFICES ASSUME BwInit
               PROVE  BwPromise!Init
    OBVIOUS
  <1>1. BwInv
    BY InitInv
  <1>2. BlocksTyped /\ BooksTyped /\ Nowhere
    BY <1>1 DEF BwInv, BwForm, BwTypes, Places
  <1>3. bwPushed = 0 /\ bwOwner.got = 0
    BY DEF BwInit
  <1>4. \A v : v \notin 1 .. bwPushed
    BY <1>3
  <1>5. BwTypes /\ Claims
    BY <1>1 DEF BwInv, BwForm
  <1>6. BwLive = {}
    <2>1. \A v : InSlot(bwBlock, v) => v \in Values
      BY <1>5, SlotValues DEF InSlot
    <2>2. QED
      BY <2>1, <1>2, <1>4, LiveNow DEF Nowhere
  <1>7. BwClaimed = {}
    <2>1. \A v : InClaim(bwBlock, bwThief, v) => v \in Values
      BY <1>5, PrizeTyped DEF InClaim
    <2>2. QED
      BY <2>1, <1>2, <1>4, ClaimedNow DEF Nowhere
  <1>8. BwHandedOut = {}
    BY <1>2, <1>4, HandedNow DEF Nowhere
  <1>9. QED
    BY <1>3, <1>6, <1>7, <1>8 DEF BwPromise!Init

(* The block queue implements StealQueue, whatever the number of blocks,   *)
(* slots and thieves: pops are last in first out and answer "none" only    *)
(* when nothing is left, a steal takes one value at its compare-and-swap;  *)
(* and a push is refused only while the next block holds something nobody  *)
(* has claimed (push_back, pop_back, steal_front, is_writable).            *)
THEOREM BwSoundAlways == BwSpec => BwSound
  <1>1. BwInv /\ [BwNext]_bwVars => [BwPromise!Next]_(BwPromise!sqVars)
    BY StepSound
  <1>2. BwInv /\ [BwNext]_bwVars => [bwRefused' # bwRefused => BwHeldIn(bwBlock[BwNextIx]) # {}]_bwVars
    BY StepFullOnly
  <1>3. BwSpec => BwPromise!Spec
    BY <1>1, InitSound, BwInductive, PTL DEF BwSpec, BwPromise!Spec
  <1>4. BwSpec => BwFullOnly
    BY <1>2, BwInductive, PTL DEF BwSpec, BwFullOnly
  <1>5. QED
    BY <1>3, <1>4 DEF BwSound, BwImplements

=============================================================================
