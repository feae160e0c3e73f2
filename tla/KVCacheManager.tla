--------------------------- MODULE KVCacheManager ---------------------------
(***************************************************************************)
(* The pool of KV-cache blocks (csrc/scheduler/kv_cache_manager.cpp).      *)
(*                                                                         *)
(* The manager owns NumBlocks physical blocks of BlockSize token slots.    *)
(* A request that runs holds a block table: the sequence of blocks whose   *)
(* slots store the keys and values of its tokens, in token order.  The     *)
(* entry of an id absent from req_to_allocated_blocks_ is <<>>: the code   *)
(* never stores an empty vector there.                                     *)
(***************************************************************************)
EXTENDS Integers, SequencesExt

CONSTANTS
    Ids,        \* request ids
    NumBlocks,  \* num_blocks_
    BlockSize   \* num_block_slots_

ASSUME NumBlocksAssumption == NumBlocks \in Nat
ASSUME BlockSizeAssumption == BlockSize \in Nat \ {0}

VARIABLES
    freeBlocks,      \* free_blocks_, taken from and returned to at its end
    allocatedBlocks  \* req_to_allocated_blocks_: the block table of each id

kvVars == <<freeBlocks, allocatedBlocks>>

Blocks == 0 .. (NumBlocks - 1)

KVTypeOK ==
    /\ freeBlocks \in Seq(Blocks)
    /\ allocatedBlocks \in [Ids -> Seq(Blocks)]

KVInit ==
    /\ freeBlocks = [i \in 1 .. NumBlocks |-> i - 1]
    /\ allocatedBlocks = [id \in Ids |-> <<>>]

-----------------------------------------------------------------------------

\* The blocks that cover the first "slots" tokens of a request.
NumRequiredBlocks(slots) == (slots + BlockSize - 1) \div BlockSize

\* How many blocks the table of id lacks to cover "slots" tokens.
NumBlocksToAllocate(id, slots) ==
    NumRequiredBlocks(slots) - Len(allocatedBlocks[id])

\* What allocate_slots asserts of its caller.
AllocateContract(id, slots) ==
    /\ slots > 0
    /\ NumBlocksToAllocate(id, slots) >= 0

\* The condition under which allocate_slots returns true.
CanAllocate(id, slots) == NumBlocksToAllocate(id, slots) <= Len(freeBlocks)

\* allocate_slots when it returns true, "slots" being the computed and the
\* newly scheduled tokens together.  When it returns false nothing changes.
AllocateSlots(id, slots) ==
    LET k    == NumBlocksToAllocate(id, slots)
        kept == Len(freeBlocks) - k
    IN  /\ CanAllocate(id, slots)
        /\ allocatedBlocks' = [allocatedBlocks EXCEPT
              ![id] = @ \o SubSeq(freeBlocks, kept + 1, Len(freeBlocks))]
        /\ freeBlocks' = SubSeq(freeBlocks, 1, kept)

\* variant: the entry of the map stays.
ReleaseBlocksKeepingTable(id) ==
    freeBlocks' = freeBlocks \o allocatedBlocks[id] /\ UNCHANGED allocatedBlocks

\* variant: the blocks do not come back to the free list.
ReleaseBlocksLosingThem(id) ==
    allocatedBlocks' = [allocatedBlocks EXCEPT ![id] = <<>>] /\ UNCHANGED freeBlocks

\* variant: one block at a time.
ReleaseLastBlock(id) ==
    /\ freeBlocks' = Append(freeBlocks, Last(allocatedBlocks[id]))
    /\ allocatedBlocks' = [allocatedBlocks EXCEPT ![id] = Front(@)]

\* release_blocks.  Its .at() throws when id has no table.
ReleaseBlocks(id) ==
    /\ freeBlocks' = freeBlocks \o allocatedBlocks[id]
    /\ allocatedBlocks' = [allocatedBlocks EXCEPT ![id] = <<>>]

Allocate(id) ==
    \E slots \in 1 .. (NumBlocks * BlockSize) :
        AllocateContract(id, slots) /\ AllocateSlots(id, slots)

Release(id) == allocatedBlocks[id] # <<>> /\ ReleaseBlocks(id)

\* Any caller that keeps the contract of the two operations.
KVNext == \E id \in Ids : Allocate(id) \/ Release(id)

KVSpec == KVInit /\ [][KVNext]_kvVars

-----------------------------------------------------------------------------

\* No block appears twice: not in the free list, not in a table, and not in
\* two of these at once.  A block held twice would let two requests overwrite
\* each other's keys and values.
ExclusiveBlocks ==
    /\ IsInjective(freeBlocks)
    /\ \A id \in Ids :
          /\ IsInjective(allocatedBlocks[id])
          /\ ToSet(allocatedBlocks[id]) \cap ToSet(freeBlocks) = {}
    /\ \A id1, id2 \in Ids : id1 # id2 =>
          ToSet(allocatedBlocks[id1]) \cap ToSet(allocatedBlocks[id2]) = {}

\* No block is lost: whatever is not free belongs to some request, so that
\* allocations and releases in any order never shrink the pool.
NoLeakedBlock ==
    Blocks \subseteq
        ToSet(freeBlocks) \cup UNION {ToSet(allocatedBlocks[id]) : id \in Ids}

\* A block table only ever grows at its end or is given back as a whole, and
\* one operation touches one table: the slots where a request stored its keys
\* and values never move under it.
TableGrowsOrGoes(id) ==
    \/ IsPrefix(allocatedBlocks[id], allocatedBlocks'[id])
    \/ allocatedBlocks'[id] = <<>>

TablesStable ==
    [][ /\ \A id \in Ids : TableGrowsOrGoes(id)
        /\ \A id1, id2 \in Ids :
              (/\ allocatedBlocks'[id1] # allocatedBlocks[id1]
               /\ allocatedBlocks'[id2] # allocatedBlocks[id2]) => id1 = id2 ]_kvVars
=============================================================================
