----------------------------- MODULE BatchBuffer -----------------------------
(***************************************************************************)
(* The buffer a step's arrays are copied to (csrc/executor/                *)
(* batch_buffer.cpp).  create() sizes it once for the largest step; every  *)
(* upload() packs the arrays of one step into it and the sampled tokens    *)
(* come back in its first words.  Sizes and offsets are in words of        *)
(* sizeof(int); kAlignment is Alignment words.                             *)
(***************************************************************************)
EXTENDS Integers, SequencesExt

CONSTANT Alignment

ASSUME AlignmentAssumption == Alignment \in Nat \ {0}

AlignUp(size) == ((size + Alignment - 1) \div Alignment) * Alignment

SampleParamsSize == 3

\* max_block_table_stride
LongestTable(maxModelLen, blockSize) == (maxModelLen + blockSize - 1) \div blockSize

\* variant: a single row of the block table.
ReservedOneTable(maxTokens, maxSeqs, maxModelLen, blockSize) ==
    <<maxTokens, maxTokens, maxTokens, maxSeqs + 1, maxSeqs,
      LongestTable(maxModelLen, blockSize), maxSeqs, maxSeqs * SampleParamsSize>>

\* What create() reserves, in the order of upload(): token_ids, positions,
\* slot_mapping, query_start_loc, seq_lens, block_table, logits_indices,
\* sample_params.
Reserved(maxTokens, maxSeqs, maxModelLen, blockSize) ==
    <<maxTokens, maxTokens, maxTokens, maxSeqs + 1, maxSeqs,
      maxSeqs * LongestTable(maxModelLen, blockSize), maxSeqs,
      maxSeqs * SampleParamsSize>>

\* buffer_size of create(); upload_size of upload() before each array.  An empty
\* array takes no place.
PackedSize(sizes) ==
    LET packed[i \in 0 .. Len(sizes)] ==
            IF i = 0 THEN 0
            ELSE IF sizes[i] = 0 THEN packed[i - 1]
            ELSE AlignUp(packed[i - 1]) + sizes[i]
    IN  packed[Len(sizes)]

\* The arrays of one upload.
Uploaded(input, numReqs) ==
    LET numTokens   == input.queryStartLoc[numReqs]
        numSampling == Len(input.logitsIndices)
    IN  <<numTokens, numTokens, numTokens, numReqs + 1, numReqs,
          numReqs * input.blockTableStride, numSampling, numSampling * SampleParamsSize>>

\* sampled_token_ids overwrite the words from 0 on, while the sampler reads
\* sample_params: only token_ids, which the embedding has read, may be hit.
SampledOverTokenIds(input, numReqs) ==
    Len(input.logitsIndices) <= input.queryStartLoc[numReqs]
=============================================================================
