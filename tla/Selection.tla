------------------------------- MODULE Selection -------------------------------
(* Token selection on the device: argmax and top-k of rows of logits, in         *)
(* backend/cuda/fortai_cuda_backend.cu.  Logits are compared, never computed     *)
(* with, so a small ordered set of values stands for them: NaN, minus infinity,  *)
(* and 0 for -FLT_MAX with the finite values above it.                           *)
EXTENDS Integers, Sequences, FiniteSets, SequencesExt

CONSTANTS
    Elements,     \* largest row
    TopValue,     \* largest logit
    MaxRows,      \* rows of a call
    Threads,      \* threads of a block, a power of two (256)
    ArgmaxGrid,   \* largest argmax grid (1024)
    TileItems,    \* items a block sorts (2048)
    TopKMax,      \* largest k, and candidates a block leaves (32)
    Finalists,    \* candidates the final block sorts (4096)
    RadixRows,    \* rows up to which the radix kernels are tried (3)
    NoIndex       \* the largest index (INT_MAX)

VARIABLES
    op,       \* the call: operation, rows of logits, k
    partial,  \* what the blocks of the first kernel left
    result,   \* what the host was given, per row
    selection  \* "idle", "launched", "partials", "done"

selectVars == <<op, partial, result, selection>>

NaN == -2
NegInf == -1
Floor == 0
Logits == NaN..TopValue

ASSUME SelectionAssumption ==
    /\ NoIndex \in Nat /\ Elements \in 1..NoIndex
    /\ TopValue \in Nat /\ MaxRows \in Nat
    /\ Threads \in Nat \ {0} /\ ArgmaxGrid \in Nat \ {0}
    /\ TileItems \in Nat \ {0} /\ TopKMax \in Nat \ {0}
    /\ Finalists \in Nat /\ RadixRows \in Nat

NoSelection == [name |-> "none", rows |-> <<>>, k |-> 0]

IndicesOf(row) == 0..(Len(row) - 1)
At(row, index) == row[index + 1]

---------------------------------------------------------------------------
(* Argmax.                                                                   *)

Lowest == [value |-> Floor, index |-> NoIndex]

PrefersLater(a, b) == a.value # NaN /\ a.value >= b.value   \* mutant: >= for the tie on the index
Prefers(a, b) ==
    a.value # NaN /\ (a.value > b.value \/ (a.value = b.value /\ a.index < b.index))
Better(best, a) == IF Prefers(a, best) THEN a ELSE best

ArgmaxBlocks(row) ==
    LET wanted == (Len(row) + Threads - 1) \div Threads
    IN  IF wanted < ArgmaxGrid THEN wanted ELSE ArgmaxGrid

\* The running best of a sequence of pairs.
BestOf(pairs) ==
    LET best[j \in 0..Len(pairs)] == IF j = 0 THEN Lowest ELSE Better(best[j - 1], pairs[j])
    IN  best[Len(pairs)]

\* A thread walks its elements, a grid apart, from the lowest.
Walk(row, block, lane, grid) ==
    [j \in 1..(((Len(row) - 1) \div (grid * Threads)) + 1) |->
        LET i == block * Threads + lane + (j - 1) * (grid * Threads)
        IN  IF i < Len(row) THEN [value |-> At(row, i), index |-> i] ELSE Lowest]
ThreadBest(row, block, lane, grid) == BestOf(Walk(row, block, lane, grid))

\* Halving reduction in shared memory, behind a barrier per step; once the stride
\* is 0 a step changes nothing.
Stride[n \in 0..Threads] == IF n = 0 THEN Threads ELSE Stride[n - 1] \div 2

\* The threads of a block are a power of two.
ASSUME ThreadsAssumption ==
    \A n \in 1..Threads : Stride[n - 1] > 1 => Stride[n - 1] = 2 * Stride[n]

Folded(shared, stride) ==
    [lane \in 0..(Threads - 1) |->
        IF lane < stride THEN Better(shared[lane], shared[lane + stride]) ELSE shared[lane]]

Reduced(row, block, grid) ==
    LET shared[n \in 0..Threads] ==
            IF n = 0 THEN [lane \in 0..(Threads - 1) |-> ThreadBest(row, block, lane, grid)]
            ELSE Folded(shared[n - 1], Stride[n])
    IN  shared[Threads][0]

qwen_argmax_rows_partials(row) ==
    [b \in 1..ArgmaxBlocks(row) |-> Reduced(row, b - 1, ArgmaxBlocks(row))]

\* The host goes over the blocks' candidates.
argmax_rows_device(partials) == BestOf(partials).index

---------------------------------------------------------------------------
(* Top-k.                                                                    *)

\* qwen_topk_key: larger values first, lower indices first among equals, NaN
\* together with the padding at the end.
qwen_topk_key(value, index) == IF value = NaN THEN <<NaN, 0>> ELSE <<value, NoIndex - index>>

Above(a, b) == a.key[1] > b.key[1] \/ (a.key[1] = b.key[1] /\ a.key[2] > b.key[2])

Candidate(row, index) == [key |-> qwen_topk_key(At(row, index), index), index |-> index]

TopkBlocksDown(row) == IF Len(row) < TileItems THEN 1 ELSE Len(row) \div TileItems   \* mutant: rounds down
TopkBlocks(row) == (Len(row) + TileItems - 1) \div TileItems

\* Orders in which a block's sort may leave equal keys (those of NaN).
Sorted(candidates) == {s \in SetToSeqs(candidates) : \A i \in 1..(Len(s) - 1) : ~Above(s[i + 1], s[i])}

qwen_topk_block_partials(row) ==
    [b \in 1..TopkBlocks(row) |->
        LET items == {Candidate(row, i) : i \in {j \in IndicesOf(row) : j \div TileItems = b - 1}}
            order == CHOOSE s \in Sorted(items) : TRUE
        IN  SubSeq(order, 1, IF Len(order) < TopKMax THEN Len(order) ELSE TopKMax)]

qwen_topk_block_finalize(partials, k) ==
    LET all == UNION {{partials[b][i] : i \in DOMAIN partials[b]} : b \in DOMAIN partials}
        order == CHOOSE s \in Sorted(all) : TRUE
    IN  [i \in 1..k |-> order[i].index]

\* The radix kernels decline rows with more candidates than one block sorts.
RadixTakes(row) == TopkBlocks(row) * TopKMax <= Finalists

\* cub::DeviceTopK returns some k largest in any order; the host sorts them.
DeviceTopK(row, k) ==
    {set \in SUBSET IndicesOf(row) :
        /\ Cardinality(set) = k
        /\ \A i \in set, j \in IndicesOf(row) \ set : At(row, i) >= At(row, j)}

HostSort(row, set) ==
    CHOOSE s \in SetToSeqs(set) :
        \A i \in 1..(Cardinality(set) - 1) :
            \/ At(row, s[i]) > At(row, s[i + 1])
            \/ At(row, s[i]) = At(row, s[i + 1]) /\ s[i] < s[i + 1]

---------------------------------------------------------------------------
SelectInit == op = NoSelection /\ partial = <<>> /\ result = <<>> /\ selection = "idle"

\* A call within the bounds the wrappers check.  Top-k is followed for rows of
\* numbers: a NaN and the padding of a tile have the same key.
Select ==
    /\ selection = "idle"
    /\ \E count \in 1..MaxRows, n \in 1..Elements, name \in {"argmax", "topk"} :
        \E rows \in [1..count -> [1..n -> Logits]], k \in 1..TopKMax :
            /\ name = "topk" => k <= n /\ \A r \in 1..count, i \in 1..n : rows[r][i] # NaN
            /\ name = "argmax" => k = 1
            /\ op' = [name |-> name, rows |-> rows, k |-> k]
    /\ selection' = "launched"
    /\ UNCHANGED <<partial, result>>

UsesRadix == Len(op.rows) <= RadixRows /\ RadixTakes(op.rows[1])

ArgmaxPartials ==
    /\ selection = "launched" /\ op.name = "argmax"
    /\ partial' = [r \in DOMAIN op.rows |-> qwen_argmax_rows_partials(op.rows[r])]
    /\ selection' = "partials"
    /\ UNCHANGED <<op, result>>

ArgmaxHost ==
    /\ selection = "partials" /\ op.name = "argmax"
    /\ result' = [r \in DOMAIN op.rows |-> <<argmax_rows_device(partial[r])>>]
    /\ selection' = "done"
    /\ UNCHANGED <<op, partial>>

TopkPartials ==
    /\ selection = "launched" /\ op.name = "topk" /\ UsesRadix
    /\ partial' = [r \in DOMAIN op.rows |-> qwen_topk_block_partials(op.rows[r])]
    /\ selection' = "partials"
    /\ UNCHANGED <<op, result>>

TopkFinalize ==
    /\ selection = "partials" /\ op.name = "topk"
    /\ result' = [r \in DOMAIN op.rows |-> qwen_topk_block_finalize(partial[r], op.k)]
    /\ selection' = "done"
    /\ UNCHANGED <<op, partial>>

TopkStreams ==
    /\ selection = "launched" /\ op.name = "topk" /\ ~UsesRadix
    /\ \E sets \in [DOMAIN op.rows -> UNION {DeviceTopK(op.rows[r], op.k) : r \in DOMAIN op.rows}] :
        /\ \A r \in DOMAIN op.rows : sets[r] \in DeviceTopK(op.rows[r], op.k)
        /\ result' = [r \in DOMAIN op.rows |-> HostSort(op.rows[r], sets[r])]
    /\ selection' = "done"
    /\ UNCHANGED <<op, partial>>

SelectReturn ==
    /\ selection = "done" /\ selection' = "idle" /\ op' = NoSelection /\ partial' = <<>> /\ result' = <<>>

SelectNext ==
    \/ Select \/ ArgmaxPartials \/ ArgmaxHost
    \/ TopkPartials \/ TopkFinalize \/ TopkStreams \/ SelectReturn

SelectSpec == SelectInit /\ [][SelectNext]_selectVars

---------------------------------------------------------------------------
\* Maxloc: the lowest index of the largest number of the row.
Maxloc(row) ==
    CHOOSE i \in IndicesOf(row) :
        /\ At(row, i) # NaN
        /\ \A j \in IndicesOf(row) : At(row, j) < At(row, i) \/ (At(row, j) = At(row, i) /\ i <= j)

HasNumber(row) == \E i \in IndicesOf(row) : At(row, i) >= Floor

\* Device argmax finds the first of the largest logits, as the host's maxloc
\* does, through the strided threads, the halving reduction and the host's scan
\* of the blocks, in spite of NaNs.  A row without a number gives INT_MAX.
ArgmaxExact ==
    selection = "done" /\ op.name = "argmax" =>
        \A r \in DOMAIN op.rows :
            result[r] = <<IF HasNumber(op.rows[r]) THEN Maxloc(op.rows[r]) ELSE NoIndex>>

\* The k tokens a row returns are distinct, ordered by falling logit, and none
\* left out is larger; on both paths.
TopkExact ==
    selection = "done" /\ op.name = "topk" =>
        \A r \in DOMAIN op.rows :
            LET row == op.rows[r]
                chosen == {result[r][i] : i \in 1..op.k}
            IN  /\ Len(result[r]) = op.k /\ Cardinality(chosen) = op.k
                /\ \A i \in 1..(op.k - 1) : At(row, result[r][i]) >= At(row, result[r][i + 1])
                /\ \A j \in IndicesOf(row) \ chosen : At(row, j) <= At(row, result[r][op.k])

=============================================================================
