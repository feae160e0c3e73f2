----------------------------- MODULE ModelInput -----------------------------
(***************************************************************************)
(* How the entries of a step are flattened into the arrays the kernels     *)
(* read: prepare_model_input (csrc/executor/model_input.cpp).  The arrays  *)
(* are functions on 0 .. n-1, as in the code.  A token is a pair           *)
(* <<id, position>>; an entry is one of Scheduler's ScheduledRequests.     *)
(***************************************************************************)
EXTENDS Integers, SequencesExt, FiniteSetsExt

\* Row i (from 0) of the batch.
Entry(batch, i) == batch[i + 1]

NumReqs(batch) == Len(batch)

\* query_start_loc: where the tokens of each entry start; one more at the end.
QueryStartLoc(batch) ==
    LET start[i \in 0 .. Len(batch)] ==
            IF i = 0 THEN 0 ELSE start[i - 1] + Entry(batch, i - 1).count
    IN  start

NumTokens(batch) == QueryStartLoc(batch)[Len(batch)]

\* The entry that token t of the batch belongs to, and its place in there.
EntryOfToken(batch, t) ==
    Max({i \in 0 .. Len(batch) - 1 : QueryStartLoc(batch)[i] <= t})

\* positions
PositionOf(batch, t) ==
    LET i == EntryOfToken(batch, t)
    IN  Entry(batch, i).offset + t - QueryStartLoc(batch)[i]

Positions(batch) == [t \in 0 .. NumTokens(batch) - 1 |-> PositionOf(batch, t)]

\* token_ids
TokenIds(batch) ==
    [t \in 0 .. NumTokens(batch) - 1 |->
        <<Entry(batch, EntryOfToken(batch, t)).id, PositionOf(batch, t)>>]

\* variant: the place within the chunk instead of the position.
SlotOfChunk(e, position, blockSize) ==
    e.blocks[position \div blockSize + 1] * blockSize + ((position - e.offset) % blockSize)

\* The slot for a position of an entry, by the entry's block table.
SlotOf(e, position, blockSize) ==
    e.blocks[position \div blockSize + 1] * blockSize + (position % blockSize)

\* slot_mapping
SlotMapping(batch, blockSize) ==
    [t \in 0 .. NumTokens(batch) - 1 |->
        SlotOf(Entry(batch, EntryOfToken(batch, t)), PositionOf(batch, t), blockSize)]

\* seq_lens
SeqLens(batch) ==
    [i \in 0 .. Len(batch) - 1 |-> Entry(batch, i).offset + Entry(batch, i).count]

\* block_table_stride
MaxNumBlocks(batch) == Max({Len(batch[i].blocks) : i \in DOMAIN batch})

\* block_table: a row per entry, padded with 0.
BlockTable(batch) ==
    LET stride == MaxNumBlocks(batch)
    IN  [k \in 0 .. Len(batch) * stride - 1 |->
            LET row == Entry(batch, k \div stride).blocks
                col == k % stride
            IN  IF col < Len(row) THEN row[col + 1] ELSE 0]

\* sampling_request_indices: the entries that ask for a sample, in order.
SamplingRequestIndices(batch) ==
    LET upTo[n \in 0 .. Len(batch)] ==
            IF n = 0 THEN <<>>
            ELSE IF Entry(batch, n - 1).sample THEN Append(upTo[n - 1], n - 1)
            ELSE upTo[n - 1]
    IN  upTo[Len(batch)]

\* variant: the first token of the entry.
FirstTokenOf(batch, i) == QueryStartLoc(batch)[i]

LastTokenOf(batch, i) == QueryStartLoc(batch)[i + 1] - 1

\* logits_indices: the last token of every entry that asks for a sample.
LogitsIndices(batch) ==
    [k \in DOMAIN SamplingRequestIndices(batch) |->
        LastTokenOf(batch, SamplingRequestIndices(batch)[k])]

PrepareModelInput(batch, blockSize) ==
    [tokenIds         |-> TokenIds(batch),
     positions        |-> Positions(batch),
     slotMapping      |-> SlotMapping(batch, blockSize),
     queryStartLoc    |-> QueryStartLoc(batch),
     seqLens          |-> SeqLens(batch),
     blockTable       |-> BlockTable(batch),
     blockTableStride |-> MaxNumBlocks(batch),
     logitsIndices    |-> LogitsIndices(batch),
     samplingRequests |-> SamplingRequestIndices(batch)]
=============================================================================
