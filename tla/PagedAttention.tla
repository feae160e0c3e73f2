--------------------------- MODULE PagedAttention ---------------------------
(***************************************************************************)
(* Which keys each query row reads in the paged attention kernel           *)
(* (csrc/ops/paged_attention.cu).                                          *)
(*                                                                         *)
(* A query row is one head of a group on one token of a request: a request *)
(* with n query tokens has n * GroupSize rows.  The grid is a line of      *)
(* tiles of TileRows rows; each tile finds its request by binary search,   *)
(* is cut into warps of WarpRows rows, and walks over the keys in steps of *)
(* TileKeys.  The arithmetic on the values is left out.                    *)
(***************************************************************************)
EXTENDS Integers, FiniteSets

CONSTANTS
    GroupSize,  \* query heads per key/value head
    WarpRows,   \* kMmaM
    TileRows,   \* kBr, four warps in the code
    TileKeys    \* kBc

ASSUME GroupSizeAssumption == GroupSize \in Nat \ {0}
ASSUME WarpRowsAssumption == WarpRows \in Nat \ {0}
ASSUME TileRowsAssumption == TileRows \in Nat \ {0} /\ TileRows % WarpRows = 0
ASSUME TileKeysAssumption == TileKeys \in Nat \ {0}

NumSeqs(input) == Cardinality(DOMAIN input.seqLens)

\* The first tile of request r.
FirstTile(input, r) == (input.queryStartLoc[r] * GroupSize) \div TileRows + r

\* The grid of launch_paged_attention.
NumTiles(input) ==
    (input.queryStartLoc[NumSeqs(input)] * GroupSize) \div TileRows + NumSeqs(input)

\* variant: takes the request after the one that starts at this very tile.
SearchRequestStrict(input, tile) ==
    LET search[range \in (0 .. NumSeqs(input)) \X (0 .. NumSeqs(input))] ==
            LET lo  == range[1]
                hi  == range[2]
                mid == (lo + hi) \div 2
            IN  IF lo + 1 >= hi THEN lo
                ELSE IF FirstTile(input, mid) < tile THEN search[<<mid, hi>>]
                ELSE search[<<lo, mid>>]
    IN  search[<<0, NumSeqs(input)>>]

\* The binary search at the head of the kernel.
SearchRequest(input, tile) ==
    LET search[range \in (0 .. NumSeqs(input)) \X (0 .. NumSeqs(input))] ==
            LET lo  == range[1]
                hi  == range[2]
                mid == (lo + hi) \div 2
            IN  IF lo + 1 >= hi THEN lo
                ELSE IF FirstTile(input, mid) <= tile THEN search[<<mid, hi>>]
                ELSE search[<<lo, mid>>]
    IN  search[<<0, NumSeqs(input)>>]

QueryLen(input, r) == input.queryStartLoc[r + 1] - input.queryStartLoc[r]

PrefixLen(input, r) == input.seqLens[r] - QueryLen(input, r)

\* q_start_idx: the first row of a tile, counted within its request.
FirstRow(input, tile) ==
    (tile - FirstTile(input, SearchRequest(input, tile))) * TileRows

\* Rows past the end of the request are computed and never stored.
RowsOfTile(input, tile) ==
    {row \in FirstRow(input, tile) .. FirstRow(input, tile) + TileRows - 1 :
        row < QueryLen(input, SearchRequest(input, tile)) * GroupSize}

\* kv_len: how many keys the tile loads.
KeyLen(input, tile) ==
    LET r    == SearchRequest(input, tile)
        seen == PrefixLen(input, r) + (FirstRow(input, tile) + TileRows - 1) \div GroupSize + 1
    IN  IF seen < input.seqLens[r] THEN seen ELSE input.seqLens[r]

\* The first row of the warp that computes a row of a tile.
FirstRowOfWarp(input, tile, row) ==
    row - ((row - FirstRow(input, tile)) % WarpRows)

\* variant: masks only where the keys run out.
NeedsMaskAtEnd(input, tile, row, keyStart) == keyStart + TileKeys > KeyLen(input, tile)

\* need_causal_mask: a warp skips the mask when all its rows see the whole step.
NeedsMask(input, tile, row, keyStart) ==
    LET r == SearchRequest(input, tile)
    IN  \/ PrefixLen(input, r) + FirstRowOfWarp(input, tile, row) \div GroupSize
              < keyStart + TileKeys
        \/ keyStart + TileKeys > KeyLen(input, tile)

\* The keys that enter the softmax of a row.
AttendedKeys(input, tile, row) ==
    LET position == PrefixLen(input, SearchRequest(input, tile)) + row \div GroupSize
        len      == KeyLen(input, tile)
        Step(key) == (key \div TileKeys) * TileKeys
    IN  {key \in 0 .. Step(len - 1) + TileKeys - 1 :
            NeedsMask(input, tile, row, Step(key)) => key <= position /\ key < len}

\* load_kv_async: the slot of a key, by shift and mask of a power-of-two block.
SlotOfKey(input, r, key, blockSize) ==
    input.blockTable[r * input.blockTableStride + key \div blockSize] * blockSize
        + (key % blockSize)

-----------------------------------------------------------------------------

\* Every row of every request is computed by exactly one tile of the grid.
TilesCoverRows(input) ==
    \A r \in DOMAIN input.seqLens :
        \A row \in 0 .. QueryLen(input, r) * GroupSize - 1 :
            Cardinality({tile \in 0 .. NumTiles(input) - 1 :
                /\ SearchRequest(input, tile) = r
                /\ row \in RowsOfTile(input, tile)}) = 1

\* Every row attends to the tokens up to its own and to no other.
RowsSeeTheirPast(input) ==
    \A tile \in 0 .. NumTiles(input) - 1 : \A row \in RowsOfTile(input, tile) :
        AttendedKeys(input, tile, row) =
            0 .. PrefixLen(input, SearchRequest(input, tile)) + row \div GroupSize
=============================================================================
