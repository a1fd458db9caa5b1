-------------------------------- MODULE Bwos --------------------------------
(***************************************************************************)
(* The block-based work-stealing queue of a worker                         *)
(* (rskynet-core/src/bwos.rs).  The owner pushes and pops at the tail of   *)
(* the block it is in; thieves take from the head of the blocks it has     *)
(* left.  Each load or store that another thread can observe is a step of  *)
(* its own; what only the owner touches (head) moves with the step next to *)
(* it.  Memory is sequentially consistent here.  Beyond MAX_GENERATION     *)
(* next_sequence panics and the process dies: nothing happens after that.  *)
(*                                                                         *)
(* A position <<g, i>> is the code's (generation << SLOT_BITS) | slot.     *)
(***************************************************************************)
EXTENDS Integers, FiniteSets

CONSTANTS BwThieves,
          BwBlocks,    \* num_blocks, a power of two
          BwSize,      \* block_size
          BwMaxGen,    \* MAX_GENERATION
          BwMaxPush    \* bound: values pushed

ASSUME BwAssumption ==
  /\ IsFiniteSet(BwThieves)
  /\ BwBlocks \in Nat /\ BwBlocks >= 2
  /\ BwSize \in Nat \ {0}
  /\ BwMaxGen \in Nat
  /\ BwMaxPush \in Nat

VARIABLES
  bwBlock,   \* per physical block [head, tail, stealTail, count, ring]
  bwLast,    \* last_block: the sequence number of the block the owner is in
  bwStart,   \* start_block: the oldest block that may hold something
  bwOwner,   \* the owner's [pc, value, got]; got = -1 while a pop is under way
  bwThief,   \* per thief [pc, seq, spos, value]
  bwPushed,  \* values pushed so far; the n-th value is n
  bwRefused, \* history: values handed back because the queue was full
  bwOut      \* history: how often each value was handed out

bwVars == <<bwBlock, bwLast, bwStart, bwOwner, bwThief, bwPushed, bwRefused, bwOut>>

BwIndex(seq) == seq % BwBlocks
BwGen(seq) == seq \div BwBlocks
BwNextSequence(seq) == BwGen(seq + 1) <= BwMaxGen   \* next_sequence does not panic
BwPrevGen(g) == (g - 1) % (BwMaxGen + 1)     \* wrapping_sub in 56 bits

\* Block::new: a block nobody has used looks emptied by the generation before 0.
BwUnused == [head |-> <<BwMaxGen, BwSize>>, tail |-> BwSize, stealTail |-> <<BwMaxGen, BwSize>>,
             count |-> BwSize, ring |-> [i \in 0 .. BwSize - 1 |-> 0]]
BwReset(b, g) == [b EXCEPT !.head = <<g, 0>>, !.tail = 0, !.stealTail = <<g, BwSize>>, !.count = 0]

BwResting == [pc |-> "idle", seq |-> 0, spos |-> <<0, 0>>, value |-> 0]

BwInit ==
  /\ bwBlock = [b \in 0 .. BwBlocks - 1 |-> IF b = 0 THEN BwReset(BwUnused, 0) ELSE BwUnused]
  /\ bwLast = 0
  /\ bwStart = 0
  /\ bwOwner = [pc |-> "idle", value |-> 0, got |-> 0]
  /\ bwThief = [t \in BwThieves |-> BwResting]
  /\ bwPushed = 0
  /\ bwRefused = {}
  /\ bwOut = [v \in 0 .. BwMaxPush |-> 0]

BwHere == BwIndex(bwLast)
BwNextIx == BwIndex(bwLast + 1)
BwNextGen == BwGen(bwLast + 1)

BwOwnerAt(pc) == bwOwner.pc = pc
BwOwnerTo(pc) == bwOwner' = [bwOwner EXCEPT !.pc = pc]

-----------------------------------------------------------------------------
(* push_back *)
BwPush ==
  /\ BwOwnerAt("idle")
  /\ bwPushed < BwMaxPush
  /\ bwPushed' = bwPushed + 1
  /\ bwOwner' = [bwOwner EXCEPT !.pc = "put", !.value = bwPushed + 1]
  /\ UNCHANGED <<bwBlock, bwLast, bwStart, bwThief, bwRefused, bwOut>>

\* put: the slot is written, then the tail that shows it.
BwPut ==
  /\ BwOwnerAt("put")
  /\ \E back \in {bwBlock[BwHere].tail} :
       /\ back < BwSize
       /\ bwBlock' = [bwBlock EXCEPT ![BwHere].ring[back] = bwOwner.value]
  /\ BwOwnerTo("publish")
  /\ UNCHANGED <<bwLast, bwStart, bwThief, bwPushed, bwRefused, bwOut>>
BwPublish ==
  /\ BwOwnerAt("publish")
  /\ bwBlock' = [bwBlock EXCEPT ![BwHere].tail = @ + 1]
  /\ bwOwner' = [bwOwner EXCEPT !.pc = "idle", !.value = 0]
  /\ UNCHANGED <<bwLast, bwStart, bwThief, bwPushed, bwRefused, bwOut>>

BwIsWritable(b, g) == bwBlock[b].stealTail = <<BwPrevGen(g), BwSize>>

\* advance_put_index on a full block: the value is handed back, or the start moves out of the way of the block about to be reused.
BwAdvancePut ==
  /\ BwOwnerAt("put")
  /\ bwBlock[BwHere].tail >= BwSize
  /\ BwNextSequence(bwLast)
  /\ \/ /\ ~BwIsWritable(BwNextIx, BwNextGen)
        /\ bwRefused' = bwRefused \cup {bwOwner.value}
        /\ bwOwner' = [bwOwner EXCEPT !.pc = "idle", !.value = 0]
        /\ UNCHANGED <<bwStart>>
     \/ /\ BwIsWritable(BwNextIx, BwNextGen)
        /\ bwStart' = IF BwNextIx = BwIndex(bwStart) THEN bwStart + 1 ELSE bwStart
        /\ BwOwnerTo("grant")
        /\ UNCHANGED <<bwRefused>>
  /\ UNCHANGED <<bwBlock, bwLast, bwThief, bwPushed, bwOut>>

\* grant: head and steal_tail trade places; the block is the thieves' now.
BwSwapEnds(b) == [b EXCEPT !.head = b.stealTail, !.stealTail = b.head]
BwGrant ==
  /\ BwOwnerAt("grant")
  /\ bwBlock' = [bwBlock EXCEPT ![BwHere] = BwSwapEnds(@)]
  /\ BwOwnerTo("reclaim")
  /\ UNCHANGED <<bwLast, bwStart, bwThief, bwPushed, bwRefused, bwOut>>

\* Mutant: the block is reset while a thief is still reading its slot.
BwSettledSoon(b) == TRUE
\* reclaim spins until every thief of the last round has counted itself.
BwSettled(b) == b.count = b.head[2]
BwReclaim ==
  /\ BwOwnerAt("reclaim")
  /\ BwSettled(bwBlock[BwNextIx])
  /\ bwBlock' = [bwBlock EXCEPT ![BwNextIx].head = <<BwNextGen, 0>>, ![BwNextIx].tail = 0]
  /\ BwOwnerTo("close")
  /\ UNCHANGED <<bwLast, bwStart, bwThief, bwPushed, bwRefused, bwOut>>
BwReclaimClose ==
  /\ BwOwnerAt("close")
  /\ bwBlock' = [bwBlock EXCEPT ![BwNextIx].stealTail = <<BwNextGen, BwSize>>]
  /\ BwOwnerTo("recount")
  /\ UNCHANGED <<bwLast, bwStart, bwThief, bwPushed, bwRefused, bwOut>>
BwReclaimCount ==
  /\ BwOwnerAt("recount")
  /\ bwBlock' = [bwBlock EXCEPT ![BwNextIx].count = 0]
  /\ BwOwnerTo("forward")
  /\ UNCHANGED <<bwLast, bwStart, bwThief, bwPushed, bwRefused, bwOut>>
BwForward ==
  /\ BwOwnerAt("forward")
  /\ bwLast' = bwLast + 1
  /\ BwOwnerTo("put")
  /\ UNCHANGED <<bwBlock, bwStart, bwThief, bwPushed, bwRefused, bwOut>>

-----------------------------------------------------------------------------
(* pop_back *)
BwPop ==
  /\ BwOwnerAt("idle")
  /\ bwOwner' = [bwOwner EXCEPT !.pc = "get", !.got = -1]
  /\ UNCHANGED <<bwBlock, bwLast, bwStart, bwThief, bwPushed, bwRefused, bwOut>>

BwDrained(b) == b.tail = 0 \/ b.head[2] = b.tail

BwGet ==
  /\ BwOwnerAt("get")
  /\ ~BwDrained(bwBlock[BwHere])
  /\ \E v \in {bwBlock[BwHere].ring[bwBlock[BwHere].tail - 1]} :
       /\ bwOwner' = [bwOwner EXCEPT !.pc = "idle", !.got = v]
       /\ bwOut' = [bwOut EXCEPT ![v] = @ + 1]
  /\ bwBlock' = [bwBlock EXCEPT ![BwHere].tail = @ - 1]
  /\ UNCHANGED <<bwLast, bwStart, bwThief, bwPushed, bwRefused>>

\* advance_get_index: nothing before the start, or back into the block before.
BwNone ==
  /\ BwOwnerAt("get")
  /\ BwDrained(bwBlock[BwHere])
  /\ bwStart = bwLast
  /\ bwOwner' = [bwOwner EXCEPT !.pc = "idle", !.got = 0]
  /\ UNCHANGED <<bwBlock, bwLast, bwStart, bwThief, bwPushed, bwRefused, bwOut>>
\* Mutant: the generation of the block left behind is not taken back.
BwKeepGeneration ==
  /\ BwOwnerAt("get")
  /\ BwDrained(bwBlock[BwHere])
  /\ bwStart # bwLast
  /\ BwOwnerTo("takeover")
  /\ UNCHANGED <<bwBlock, bwLast, bwStart, bwThief, bwPushed, bwRefused, bwOut>>
BwReduceGeneration ==
  /\ BwOwnerAt("get")
  /\ BwDrained(bwBlock[BwHere])
  /\ bwStart # bwLast
  /\ bwBlock' = [bwBlock EXCEPT ![BwHere].stealTail = <<BwPrevGen(@[1]), @[2]>>]
  /\ BwOwnerTo("takeover")
  /\ UNCHANGED <<bwLast, bwStart, bwThief, bwPushed, bwRefused, bwOut>>
\* Mutant: the owner goes back without taking the thieves' boundary over.
BwTakeoverBlind ==
  /\ BwOwnerAt("takeover")
  /\ BwOwnerTo("back")
  /\ UNCHANGED <<bwBlock, bwLast, bwStart, bwThief, bwPushed, bwRefused, bwOut>>
BwTakeover ==
  /\ BwOwnerAt("takeover")
  /\ bwBlock' = [bwBlock EXCEPT ![BwIndex(bwLast - 1)] = BwSwapEnds(@)]
  /\ BwOwnerTo("back")
  /\ UNCHANGED <<bwLast, bwStart, bwThief, bwPushed, bwRefused, bwOut>>
BwBack ==
  /\ BwOwnerAt("back")
  /\ bwLast' = bwLast - 1
  /\ BwOwnerTo("get")
  /\ UNCHANGED <<bwBlock, bwStart, bwThief, bwPushed, bwRefused, bwOut>>

-----------------------------------------------------------------------------
(* steal_front *)
BwThiefAt(t, pc) == bwThief[t].pc = pc
BwThiefTo(t, pc) == bwThief' = [bwThief EXCEPT ![t].pc = pc]
BwPrey(t) == BwIndex(bwThief[t].seq)

BwSteal(t) ==
  /\ BwThiefAt(t, "idle")
  /\ bwThief' = [bwThief EXCEPT ![t] = [BwResting EXCEPT !.pc = "look", !.seq = bwStart]]
  /\ UNCHANGED <<bwBlock, bwLast, bwStart, bwOwner, bwPushed, bwRefused, bwOut>>

BwSameGeneration(t, spos) == spos[1] = BwGen(bwThief[t].seq)

\* Loading steal_tail: another generation ends the search, an emptied block
\* sends the thief on, anything else is worth a look at the tail.
BwLook(t) ==
  /\ BwThiefAt(t, "look")
  /\ \E spos \in {bwBlock[BwPrey(t)].stealTail} :
       bwThief' = [bwThief EXCEPT ![t] =
         IF ~BwSameGeneration(t, spos) THEN BwResting
         ELSE [@ EXCEPT !.pc = IF spos[2] = BwSize THEN "next" ELSE "tail", !.spos = spos]]
  /\ UNCHANGED <<bwBlock, bwLast, bwStart, bwOwner, bwPushed, bwRefused, bwOut>>
BwLookTail(t) ==
  /\ BwThiefAt(t, "tail")
  /\ bwThief' = [bwThief EXCEPT ![t] =
       IF @.spos[2] = bwBlock[BwPrey(t)].tail THEN BwResting ELSE [@ EXCEPT !.pc = "cas"]]
  /\ UNCHANGED <<bwBlock, bwLast, bwStart, bwOwner, bwPushed, bwRefused, bwOut>>
BwUnmoved(t) == bwBlock[BwPrey(t)].stealTail = bwThief[t].spos
BwClaim(t) ==
  /\ BwThiefAt(t, "cas")
  /\ BwUnmoved(t)
  /\ bwBlock' = [bwBlock EXCEPT ![BwPrey(t)].stealTail = <<@[1], @[2] + 1>>]
  /\ BwThiefTo(t, "read")
  /\ UNCHANGED <<bwLast, bwStart, bwOwner, bwPushed, bwRefused, bwOut>>
BwConflict(t) ==
  /\ BwThiefAt(t, "cas")
  /\ ~BwUnmoved(t)
  /\ BwThiefTo(t, "look")
  /\ UNCHANGED <<bwBlock, bwLast, bwStart, bwOwner, bwPushed, bwRefused, bwOut>>
BwRead(t) ==
  /\ BwThiefAt(t, "read")
  /\ bwThief' = [bwThief EXCEPT ![t].pc = "count",
                                ![t].value = bwBlock[BwPrey(t)].ring[bwThief[t].spos[2]]]
  /\ UNCHANGED <<bwBlock, bwLast, bwStart, bwOwner, bwPushed, bwRefused, bwOut>>
\* Mutant: a thief forgets to count itself out.
BwCountNot(t) ==
  /\ BwThiefAt(t, "count")
  /\ bwOut' = [bwOut EXCEPT ![bwThief[t].value] = @ + 1]
  /\ bwThief' = [bwThief EXCEPT ![t] = BwResting]
  /\ UNCHANGED <<bwBlock, bwLast, bwStart, bwOwner, bwPushed, bwRefused>>
BwCount(t) ==
  /\ BwThiefAt(t, "count")
  /\ bwBlock' = [bwBlock EXCEPT ![BwPrey(t)].count = @ + 1]
  /\ bwOut' = [bwOut EXCEPT ![bwThief[t].value] = @ + 1]
  /\ bwThief' = [bwThief EXCEPT ![t] = BwResting]
  /\ UNCHANGED <<bwLast, bwStart, bwOwner, bwPushed, bwRefused>>
\* advance_steal_index
BwAdvanceSteal(t) ==
  /\ BwThiefAt(t, "next")
  /\ BwNextSequence(bwThief[t].seq)
  /\ bwThief' = [bwThief EXCEPT ![t] =
       IF bwThief[t].seq + 1 < bwLast THEN [@ EXCEPT !.pc = "look", !.seq = bwThief[t].seq + 1]
       ELSE BwResting]
  /\ UNCHANGED <<bwBlock, bwLast, bwStart, bwOwner, bwPushed, bwRefused, bwOut>>

BwOwnerStep ==
  \/ BwPut \/ BwPublish \/ BwAdvancePut \/ BwGrant \/ BwReclaim \/ BwReclaimClose
  \/ BwReclaimCount \/ BwForward \/ BwGet \/ BwNone \/ BwReduceGeneration \/ BwTakeover \/ BwBack
BwThiefStep(t) ==
  \/ BwLook(t) \/ BwLookTail(t) \/ BwClaim(t) \/ BwConflict(t) \/ BwRead(t) \/ BwCount(t)
  \/ BwAdvanceSteal(t)

BwNext == BwPush \/ BwPop \/ BwOwnerStep \/ \E t \in BwThieves : BwSteal(t) \/ BwThiefStep(t)

\* A worker inside a queue operation keeps running: nothing in it waits but
\* the spin of reclaim, and that for threads that are running too.
BwFair == WF_bwVars(BwOwnerStep) /\ \A t \in BwThieves : WF_bwVars(BwThiefStep(t))

BwSpec == BwInit /\ [][BwNext]_bwVars /\ BwFair
-----------------------------------------------------------------------------
\* The values a block holds, as Block::drop finds them.
BwHeldIn(b) ==
  LET low == IF b.head[2] < b.stealTail[2] THEN b.head[2] ELSE b.stealTail[2]
  IN {b.ring[i] : i \in {j \in 0 .. BwSize - 1 : low <= j /\ j < b.tail}}
BwLive == UNION {BwHeldIn(bwBlock[b]) : b \in DOMAIN bwBlock}

\* What thieves have claimed and not yet handed out: the slot before the read,
\* the value after it.
BwClaimedBy(t) == CASE bwThief[t].pc = "read" -> {bwBlock[BwPrey(t)].ring[bwThief[t].spos[2]]}
                    [] bwThief[t].pc = "count" -> {bwThief[t].value}
                    [] OTHER -> {}
BwClaimed == UNION {BwClaimedBy(t) : t \in BwThieves}
BwHandedOut == {v \in DOMAIN bwOut : bwOut[v] > 0}

\* Between the owner's calls every value pushed is in exactly one place: in a
\* live interval of a block, claimed by one thief, handed out once, or
\* refused.  In particular a slot a thief has claimed is not overwritten before it
\* is read, and Block::drop would drop exactly what nobody took.
BwExact ==
  bwOwner.pc = "idle" =>
    /\ BwLive \cup BwClaimed \cup BwHandedOut \cup bwRefused = 1 .. bwPushed
    /\ Cardinality(BwLive) + Cardinality(BwHandedOut) + Cardinality(bwRefused)
         + Cardinality({t \in BwThieves : BwClaimedBy(t) # {}}) = bwPushed
    /\ \A v \in DOMAIN bwOut : bwOut[v] <= 1

\* The queue does what StealQueue promises: pops are last in first out, "none"
\* is answered only when nothing is left, and a steal takes one value whole,
\* at the step of its compare-and-swap.
BwPromise == INSTANCE StealQueue WITH
  live <- BwLive, got <- bwOwner.got, taken <- BwHandedOut \cup BwClaimed
BwImplements == BwPromise!Spec

\* A push is refused only while the next block still holds something nobody
\* has claimed: going back and forth over a block boundary, the generations
\* taken back included, never leaves an emptied block unusable.
BwFullOnly ==
  [][bwRefused' # bwRefused => BwHeldIn(bwBlock[BwNextIx]) # {}]_bwVars

\* Every push and every pop returns, the spin of reclaim included.
BwReturns == (bwOwner.pc # "idle") ~> (bwOwner.pc = "idle")

\* The block queue implements the abstract one and refuses a push only when full
\* (push_back, pop_back, steal_front).
BwSound == BwImplements /\ BwFullOnly
=============================================================================
