------------------------------- MODULE Q8Matmul -------------------------------
(* fortai_cuda_q8_matmul_device_f32 of backend/cuda/fortai_cuda_backend.cu: the  *)
(* product of a quantized weight matrix with a batch of activation columns.      *)
(*                                                                               *)
(* The activations are packed in one of two layouts, then one of three kernels   *)
(* divides the output cells and the quantized blocks of the inner dimension      *)
(* among thread blocks.  A cell's value is abstracted to how often each block    *)
(* of the inner dimension has been added to it.                                  *)
EXTENDS Integers, Sequences, FiniteSets

CONSTANTS
    RowSizes, BlockSizes, Batches,   \* weight rows, blocks per row, activation columns
    Lanes,          \* threads of a warp (32)
    RowTile,        \* rows of an output tile (128)
    HalfFragment,   \* rows between the two a tensor-core lane holds (8)
    TokenTile,      \* columns of an output tile (64)
    Group,          \* blocks of a packed activation row (4)
    BlocksPerTile,  \* blocks of a K tile (8)
    MmqBatch,       \* smallest batch of the tiled kernels (16)
    MmaBatch,       \* smallest batch of the tensor-core kernel (32)
    GridBlocks      \* resident blocks of stream-K (36)

ASSUME ProductAssumption ==
    /\ RowSizes \subseteq Nat \ {0} /\ BlockSizes \subseteq Nat \ {0}
    /\ Batches \subseteq Nat \ {0}
    /\ Lanes \in Nat \ {0} /\ RowTile \in Nat \ {0} /\ HalfFragment \in Nat \ {0}
    /\ TokenTile \in Nat \ {0} /\ Group \in Nat \ {0} /\ BlocksPerTile \in Nat \ {0}
    /\ MmqBatch \in Nat /\ MmaBatch \in Nat /\ GridBlocks \in Nat \ {0}
    /\ TokenTile % 2 = 0 /\ RowTile % (2 * HalfFragment) = 0

VARIABLES
    progress,    \* "idle", "running", "done", "failed"
    shape,       \* shape, environment and path of the call
    activation,  \* address -> <<group, token>> packed there
    parts,       \* kernel launches still to run
    running,     \* thread blocks of the first of them still to run
    product,     \* cell -> [set, sum]
    fixup        \* thread block -> tile it left unfinished and its partial sums

productVars == <<progress, shape, activation, parts, running, product, fixup>>

CeilDiv(a, b) == (a + b - 1) \div b
LeastOf(a, b) == IF a < b THEN a ELSE b

NoShape == [rows |-> 0, blocks |-> 0, batch |-> 0, tokens |-> TokenTile,
           streamK |-> FALSE, path |-> "plain"]
NoTile == -1

Cells == (0..(shape.rows - 1)) \X (0..(shape.batch - 1))
InnerBlocks == 0..(shape.blocks - 1)
Zero == [set |-> TRUE, sum |-> [b \in InnerBlocks |-> 0]]

---------------------------------------------------------------------------
(* Path and launches.                                                        *)

use_mmq(rows, blocks, batch) ==
    rows >= RowTile /\ blocks >= BlocksPerTile /\ batch >= MmqBatch /\ blocks % Group = 0

mma_path(rows, blocks, batch) ==
    rows >= RowTile /\ batch >= MmaBatch /\ blocks % BlocksPerTile = 0

PathOf(rows, blocks, batch, mma_available) ==
    IF ~use_mmq(rows, blocks, batch) THEN "plain"
    ELSE IF mma_available /\ mma_path(rows, blocks, batch) THEN "mma" ELSE "dp4a"

\* Columns of a tile: 64, or 128 and 96 by environment.
TileTokens == {TokenTile, 2 * TokenTile, (3 * TokenTile) \div 2}

row_tiles(c) == CeilDiv(c.rows, RowTile)
k_tiles(c) == CeilDiv(c.blocks, BlocksPerTile)
tile_count(c, batch) == row_tiles(c) * CeilDiv(batch, c.tokens)

grid_blocks(c) ==
    IF c.streamK THEN LeastOf(tile_count(c, c.batch) * k_tiles(c), GridBlocks)
    ELSE tile_count(c, c.batch)

needs_fixup(c) ==
    /\ c.path = "mma" /\ c.streamK /\ k_tiles(c) > 1
    /\ tile_count(c, c.batch) % grid_blocks(c) # 0
needs_zero(c) == c.path = "dp4a" /\ k_tiles(c) > 1

split_token_tail(c) ==
    /\ c.path = "mma" /\ ~c.streamK /\ c.rows % RowTile = 0
    /\ c.batch > c.tokens /\ c.batch % c.tokens # 0

\* Columns per tile of the kernel launched: the split launches and the scalar
\* kernel have no 96-column form.
KernelTokens(c) ==
    CASE c.path = "dp4a" -> TokenTile
      [] c.path = "mma" /\ split_token_tail(c) ->
            IF c.tokens = 2 * TokenTile THEN c.tokens ELSE TokenTile
      [] OTHER -> c.tokens

PartWithOwnStride(offset, batch, stride, tokens, grid) ==   \* mutant: the tail's stride is its own batch
    [offset |-> offset, batch |-> batch, stride |-> batch, tokens |-> tokens, grid |-> grid]
Part(offset, batch, stride, tokens, grid) ==
    [offset |-> offset, batch |-> batch, stride |-> stride, tokens |-> tokens, grid |-> grid]

full_batch(c) == (c.batch \div c.tokens) * c.tokens

Launches(c) ==
    IF c.path = "plain" THEN <<Part(0, c.batch, c.batch, 1, 1)>>
    ELSE IF split_token_tail(c)
    THEN LET tail == c.batch - full_batch(c) IN
         <<Part(0, full_batch(c), c.batch, KernelTokens(c), tile_count(c, full_batch(c))),
           Part(full_batch(c), tail, c.batch, KernelTokens(c), tile_count(c, tail))>>
    ELSE <<Part(0, c.batch, c.batch, KernelTokens(c), grid_blocks(c))>>

\* qwen_quantize_q8_batch: token-major; qwen_quantize_q8_mmq_batch: group-major.
qwen_quantize_q8_batch(c) ==
    [a \in 0..(c.batch * c.blocks - 1) |-> <<a % c.blocks, a \div c.blocks>>]
qwen_quantize_q8_mmq_batch(c) ==
    [a \in 0..(c.batch * (c.blocks \div Group) - 1) |-> <<a \div c.batch, a % c.batch>>]

ProductInit ==
    /\ progress = "idle" /\ shape = NoShape /\ activation = <<>> /\ parts = <<>>
    /\ running = {} /\ product = <<>> /\ fixup = <<>>

\* Validation, scratch, quantization and the first launch.
Matmul ==
    /\ progress = "idle"
    /\ \E rows \in RowSizes, blocks \in BlockSizes, batch \in Batches,
          tokens \in TileTokens, streamK, mma_available \in BOOLEAN :
        /\ shape' = [rows |-> rows, blocks |-> blocks, batch |-> batch, tokens |-> tokens,
                    streamK |-> streamK, path |-> PathOf(rows, blocks, batch, mma_available)]
        /\ shape'.path = "plain" => tokens = TokenTile /\ ~streamK /\ ~mma_available
    /\ activation' = IF shape'.path = "plain" THEN qwen_quantize_q8_batch(shape')
                     ELSE qwen_quantize_q8_mmq_batch(shape')
    /\ parts' = Launches(shape')
    /\ running' = 0..(parts'[1].grid - 1)
    /\ product' = [c \in Cells' |-> [Zero' EXCEPT !.set = needs_zero(shape')]]
    /\ fixup' = [b \in 0..(grid_blocks(shape') - 1) |-> [tile |-> NoTile, sum |-> <<>>]]
    /\ progress' = "running"

---------------------------------------------------------------------------
(* The kernels.                                                              *)

\* What block b of the inner dimension contributes to a column, when the packed
\* row the kernel reads is the one it means.
Reads(address, group, token) ==
    address \in DOMAIN activation /\ activation[address] = <<group, token>>

\* launch_mma_part: the pointer of a part is offset by one 36-byte block per
\* column, while a packed row has Group blocks.
part_activation(part) == part.offset \div Group

Contribution(part, token, ks) ==
    [b \in InnerBlocks |->
        IF /\ b \div BlocksPerTile \in ks
           /\ Reads(part_activation(part) + (b \div Group) * part.stride + token,
                    b \div Group, part.offset + token)
        THEN 1 ELSE 0]

Plus(cell, sum) == [cell EXCEPT !.sum = [b \in InnerBlocks |-> cell.sum[b] + sum[b]]]

\* q8_gemm_batch: a thread block per cell, taken in one step as the cells are
\* disjoint; thread t of a block takes blocks t, t + 128, ...
threads(blocks) ==
    IF blocks > 3 * Lanes THEN 4 * Lanes ELSE IF blocks >= Lanes THEN 2 * Lanes ELSE Lanes

q8_gemm_batch ==
    /\ product' = [c \in Cells |->
           [set |-> TRUE,
            sum |-> [b \in InnerBlocks |->
                        IF /\ b % (4 * Lanes) < threads(shape.blocks)
                           /\ Reads(c[2] * shape.blocks + b, b, c[2]) THEN 1 ELSE 0]]]
    /\ UNCHANGED fixup

\* Cells of an output tile, relative to the part: rows and columns.
RowBase(tile) == (tile % row_tiles(shape)) * RowTile
TokenBase(part, tile) == (tile \div row_tiles(shape)) * part.tokens
PartTiles(part) == row_tiles(shape) * CeilDiv(part.batch, part.tokens)

InTile(part, tile, row, token) ==
    /\ row \in RowBase(tile)..(RowBase(tile) + RowTile - 1)
    /\ token \in TokenBase(part, tile)..(TokenBase(part, tile) + part.tokens - 1)
    /\ token < part.batch

\* q8_gemm_batch_mmq_layout: K tiles are dealt to the grid and added atomically.
q8_gemm_batch_mmq_layout(part, index) ==
    LET units == {u \in 0..(PartTiles(part) * k_tiles(shape) - 1) : u % part.grid = index}
        Ks(row, token) == {u % k_tiles(shape) : u \in {v \in units :
                               InTile(part, v \div k_tiles(shape), row, token)}}
    IN  /\ product' = [c \in Cells |->
                     IF Ks(c[1], c[2]) = {} THEN product[c]
                     ELSE LET sum == Contribution(part, c[2], Ks(c[1], c[2]))
                          IN  IF k_tiles(shape) = 1 THEN [set |-> TRUE, sum |-> sum]
                              ELSE Plus(product[c], sum)]
        /\ UNCHANGED fixup

\* fortai_mma_accumulate: columns whose fragments the kernel computes.
Computed(part, column) ==
    column < (IF part.tokens >= 2 * TokenTile THEN part.tokens ELSE TokenTile)

\* fortai_mma_write_back: a lane holds two rows and two columns and writes all
\* four cells or none.
Written(part, tile, row, token) ==
    LET r == row - RowBase(tile)
        j == token - TokenBase(part, tile)
        first == r - (IF r % (2 * HalfFragment) >= HalfFragment THEN HalfFragment ELSE 0)
    IN  /\ Computed(part, j)
        /\ RowBase(tile) + first + HalfFragment < shape.rows
        /\ TokenBase(part, tile) + (j - (j % 2)) + 1 < part.batch

\* q8_gemm_batch_mmq_mma_layout: each block takes a range of units; the chunk
\* with which it stops inside a tile goes to its fixup slot.
UnitStart(part, index) == (index * PartTiles(part) * k_tiles(shape)) \div part.grid

StopsInside(tile, stop) == stop < (tile + 1) * k_tiles(shape)

q8_gemm_batch_mmq_mma_layout(part, index) ==
    LET start == UnitStart(part, index)
        stop == UnitStart(part, index + 1)
        tiles == {u \div k_tiles(shape) : u \in start..(stop - 1)}
        Ks(tile) == {u % k_tiles(shape) : u \in {v \in start..(stop - 1) :
                                                   v \div k_tiles(shape) = tile}}
        Partial(tile) == StopsInside(tile, stop)
        Hits(tile, c) == /\ InTile(part, tile, c[1], c[2] - part.offset)
                         /\ Written(part, tile, c[1], c[2] - part.offset)
        Sum(tile, c) == Contribution(part, c[2] - part.offset, Ks(tile))
        left == {t \in tiles : Partial(t)}
    IN  /\ product' = [c \in Cells |->
                     IF \E t \in tiles : ~Partial(t) /\ Hits(t, c)
                     THEN [set |-> TRUE,
                           sum |-> Sum(CHOOSE t \in tiles : ~Partial(t) /\ Hits(t, c), c)]
                     ELSE product[c]]
        /\ fixup' = IF left = {} THEN fixup
                    ELSE LET t == CHOOSE t \in left : TRUE
                         IN  [fixup EXCEPT ![index] =
                                [tile |-> t, sum |-> [c \in {d \in Cells : Hits(t, d)} |-> Sum(t, c)]]]

RunBlock(index) ==
    /\ progress = "running" /\ index \in running
    /\ running' = running \ {index}
    /\ CASE shape.path = "plain" -> q8_gemm_batch
         [] shape.path = "dp4a" -> q8_gemm_batch_mmq_layout(Head(parts), index)
         [] shape.path = "mma" -> q8_gemm_batch_mmq_mma_layout(Head(parts), index)
    /\ UNCHANGED <<progress, shape, activation, parts>>

\* The stream runs the next launch when a kernel has ended.
NextPart ==
    /\ progress = "running" /\ running = {} /\ Len(parts) > 1
    /\ parts' = Tail(parts)
    /\ running' = 0..(parts[2].grid - 1)
    /\ UNCHANGED <<progress, shape, activation, product, fixup>>

\* q8_gemm_batch_mmq_fixup adds the unfinished chunks of a tile to its cells.
\* It has no 96-column form, and misreads the slots of that kernel.
q8_gemm_batch_mmq_fixup ==
    LET Of(c) == {b \in DOMAIN fixup : c \in DOMAIN fixup[b].sum}
    IN  [c \in Cells |->
            [product[c] EXCEPT !.sum = [b \in InnerBlocks |->
                product[c].sum[b] +
                  (IF shape.tokens \notin {TokenTile, 2 * TokenTile} THEN 2
                   ELSE Cardinality({g \in Of(c) : fixup[g].sum[c][b] = 1}))]]]

Finish ==
    /\ progress = "running" /\ running = {} /\ Len(parts) = 1
    /\ product' = IF needs_fixup(shape) THEN q8_gemm_batch_mmq_fixup ELSE product
    /\ progress' = "done"
    /\ UNCHANGED <<shape, activation, parts, running, fixup>>

\* Any CUDA call of the handler may fail; the columns are then not to be used.
Fail ==
    /\ progress = "running" /\ progress' = "failed"
    /\ UNCHANGED <<shape, activation, parts, running, product, fixup>>

\* The caller has its status and takes the columns.
ProductReturn ==
    /\ progress \in {"done", "failed"} /\ progress' = "idle" /\ shape' = NoShape
    /\ activation' = <<>> /\ parts' = <<>> /\ running' = {}
    /\ product' = <<>> /\ fixup' = <<>>

ProductNext ==
    \/ Matmul \/ ProductReturn \/ NextPart \/ Finish \/ Fail
    \/ \E index \in running : RunBlock(index)

ProductSpec == ProductInit /\ [][ProductNext]_productVars

---------------------------------------------------------------------------
CellExact(c) == product[c].set /\ \A b \in InnerBlocks : product[c].sum[b] = 1

\* Shapes whose cells are all reached: the threads of a plain thread block cover
\* the inner dimension, and the tensor-core lanes find both of their rows, both
\* of their columns and a kernel of the tile's width.
Reached ==
    /\ shape.path = "plain" => shape.blocks <= threads(shape.blocks) \/ shape.blocks > 3 * Lanes
    /\ shape.path = "mma" => /\ shape.rows % (2 * HalfFragment) = 0 /\ shape.batch % 2 = 0
                            /\ shape.tokens # (3 * TokenTile) \div 2

InTail(c) == split_token_tail(shape) /\ c[2] >= full_batch(shape)

\* A finished product of a reached shape holds, in every cell outside a split
\* tail, each block of the inner dimension exactly once, read from the packed
\* row of its own column: whatever the path, the tile width, the stream-K
\* partition and the order in which the thread blocks run.
MatmulExact == progress = "done" /\ Reached => \A c \in Cells : InTail(c) \/ CellExact(c)

\* fortai_cuda_backend.cu:5736 says of the split tail: "its activation/output
\* pointers are offset to the tail".  The activation pointer is offset by a
\* quarter of it, so the tail's columns are those of earlier tokens.
TailsReadTheirColumns == progress = "done" /\ Reached => \A c \in Cells : InTail(c) => CellExact(c)

=============================================================================
