-------------------------- MODULE GroupedAttention --------------------------
(* One thread block of the grouped attention kernels of                       *)
(* backend/cuda/fortai_cuda_backend.cu: a warp per query head, all of them     *)
(* walking the same tiles of keys through shared memory.                       *)
(*                                                                            *)
(* A phase of a warp between two points where it may be overtaken is one       *)
(* step.  What a step reads from shared memory that another warp has replaced  *)
(* makes its result Wrong.                                                     *)
EXTENDS Integers, Sequences

CONSTANTS
    Warps,      \* query heads that share a KV head (Group)
    Tiles,      \* key tiles of the block's query rows
    Fragments,  \* 16-key fragments of a tile (KeyTile / key_mma_tile)
    Kernels     \* the kernels the launcher may choose

VARIABLES
    kernel,     \* the kernel launched
    pc,         \* phase of each warp
    tile,       \* tile each warp works on
    keys,       \* tile whose rows each warp's share of the key tile holds
    scores,     \* contents of each fragment of score_shared
    weights,    \* tile each warp's weights belong to
    attended    \* tiles each warp has added to its output

blockVars == <<kernel, pc, tile, keys, scores, weights, attended>>

Ids == 0..(Warps - 1)
Wrong == -1
Nothing == [warp |-> Wrong, tile |-> Wrong]

---------------------------------------------------------------------------
(* What a kernel shares: whether values are staged beside the keys, whether a *)
(* barrier ends a tile, and whether output tiles reuse the score storage.     *)

gqa_q8_batch  == [name |-> "gqa_q8", values |-> TRUE, ends |-> TRUE, reuses |-> FALSE]
gqa_q4_batch  == [name |-> "gqa_q4", values |-> TRUE, ends |-> TRUE, reuses |-> FALSE]
gqa_f16_batch == [name |-> "gqa_f16", values |-> TRUE, ends |-> TRUE, reuses |-> FALSE]
gqa_mma_f16_batch ==
    [name |-> "gqa_mma", values |-> FALSE, ends |-> FALSE, reuses |-> TRUE]

AllKernels == {gqa_q8_batch, gqa_q4_batch, gqa_f16_batch, gqa_mma_f16_batch}

\* Fragments of score_shared that hold the scores of warp w.
Region(w) == (w * Fragments)..(w * Fragments + Fragments - 1)

BlockInit ==
    /\ kernel \in {k \in AllKernels : k.name \in Kernels}
    /\ pc = [w \in Ids |-> "load"]
    /\ tile = [w \in Ids |-> 0]
    /\ keys = [w \in Ids |-> Wrong]
    /\ scores = [f \in 0..(Warps * Fragments - 1) |-> Nothing]
    /\ weights = [w \in Ids |-> Wrong]
    /\ attended = [w \in Ids |-> <<>>]

\* The threads of warp w copy their share of the tile.
Load(w) ==
    /\ pc[w] = "load"
    /\ keys' = [keys EXCEPT ![w] = tile[w]]
    /\ pc' = [pc EXCEPT ![w] = "loaded"]
    /\ UNCHANGED <<kernel, tile, scores, weights, attended>>

\* The block barrier behind the copies.
SyncLoaded ==
    /\ \A w \in Ids : pc[w] = "loaded"
    /\ pc' = [w \in Ids |-> "score"]
    /\ UNCHANGED <<kernel, tile, keys, scores, weights, attended>>

TileStaged(w) == \A v \in Ids : keys[v] = tile[w]

\* Dot products of the warp's query rows with the staged keys.
Score(w) ==
    /\ pc[w] = "score"
    /\ scores' = [f \in DOMAIN scores |->
                    IF f \in Region(w)
                    THEN [warp |-> w, tile |-> IF TileStaged(w) THEN tile[w] ELSE Wrong]
                    ELSE scores[f]]
    /\ pc' = [pc EXCEPT ![w] = "softmax"]
    /\ UNCHANGED <<kernel, tile, keys, weights, attended>>

\* The rows' maximum, their rescale factor and the weights of the tile.
Softmax(w) ==
    /\ pc[w] = "softmax"
    /\ weights' = [weights EXCEPT ![w] =
                    IF \A f \in Region(w) : scores[f] = [warp |-> w, tile |-> tile[w]]
                    THEN tile[w] ELSE Wrong]
    /\ pc' = [pc EXCEPT ![w] = "value"]
    /\ UNCHANGED <<kernel, tile, keys, scores, attended>>

\* Whether a block barrier follows the tile.
EndsAlone == FALSE   \* mutant: the barrier is forgotten
EndsTogether == kernel.ends

MoreTiles(t) == t < Tiles

\* Weighted values are added to the rows' output.  The tensor-core kernel
\* passes them through the fragment of score_shared its number selects.
Value(w) ==
    /\ pc[w] = "value"
    /\ LET right == weights[w] = tile[w] /\ (kernel.values => TileStaged(w))
       IN  attended' = [attended EXCEPT ![w] = Append(@, IF right THEN tile[w] ELSE Wrong)]
    /\ scores' = IF kernel.reuses THEN [scores EXCEPT ![w] = Nothing] ELSE scores
    /\ \/ /\ EndsTogether
          /\ pc' = [pc EXCEPT ![w] = "ended"]
          /\ UNCHANGED tile
       \/ /\ ~EndsTogether
          /\ pc' = [pc EXCEPT ![w] = IF MoreTiles(tile[w] + 1) THEN "load" ELSE "done"]
          /\ tile' = [tile EXCEPT ![w] = @ + 1]
    /\ UNCHANGED <<kernel, keys, weights>>

\* The block barrier that ends a tile.
SyncEnded ==
    /\ \A w \in Ids : pc[w] = "ended"
    /\ tile' = [w \in Ids |-> tile[w] + 1]
    /\ pc' = [w \in Ids |-> IF MoreTiles(tile[w] + 1) THEN "load" ELSE "done"]
    /\ UNCHANGED <<kernel, keys, scores, weights, attended>>

Finished == (\A w \in Ids : pc[w] = "done") /\ UNCHANGED blockVars

BlockNext ==
    \/ \E w \in Ids : Load(w) \/ Score(w) \/ Softmax(w) \/ Value(w)
    \/ SyncLoaded \/ SyncEnded \/ Finished

BlockSpec == BlockInit /\ [][BlockNext]_blockVars

---------------------------------------------------------------------------
AttendsInOrder == \A w \in Ids : attended[w] = [i \in 1..Len(attended[w]) |-> i - 1]

\* In the kernels that end a tile with a block barrier each warp attends to
\* every tile exactly once, in order, and to the keys and values that were
\* staged for it, however the warps overtake each other.  The tensor-core kernel
\* has warp barriers only: its output tiles lie in the score storage of other
\* warps, and a warp may load the next keys while another still reads the last.
WarpsInStep == kernel.ends => AttendsInOrder

=============================================================================
