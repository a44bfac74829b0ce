-------------------------- MODULE AttentionPartition --------------------------
(* How the attention kernels of backend/cuda/fortai_cuda_backend.cu divide the  *)
(* keys of a query row, and how the partial results meet again.                 *)
(*                                                                              *)
(* A launch covers `batch' rows at consecutive positions; row r attends to keys *)
(* 0..position + r.  Kernels inside one block divide them among warps or tiles. *)
(* Long rows of a quantized cache are divided among blocks, each of which       *)
(* leaves a partial in a scratch buffer for a second kernel to combine.  The    *)
(* model follows one query head.                                                *)
EXTENDS Integers

CONSTANTS
    MaxContext,     \* rows of the KV cache
    MaxBatch,       \* largest batch
    PartitionFrom,  \* position from which a row is divided among blocks (512)
    LongFrom,       \* position from which the Q8 kernel uses more blocks (4096)
    ShortParts,     \* blocks per Q8 row before (4) and
    LongParts,      \* from LongFrom on (24)
    OnlineParts,    \* blocks per Q4 row (8)
    SmallBatch,     \* largest batch whose Q4 rows are divided (4)
    MmaFrom,        \* smallest batch of the tensor-core kernels (16)
    KeyTile,        \* keys of a tile
    WarpsPerBlock,  \* warps of the vector kernels
    KeysPerWarp     \* keys each of them takes of a tile

ASSUME PartitionAssumption ==
    /\ MaxContext \in Nat \ {0} /\ MaxBatch \in Nat \ {0}
    /\ PartitionFrom \in Nat /\ LongFrom \in Nat
    /\ ShortParts \in Nat \ {0} /\ LongParts \in Nat \ {0} /\ OnlineParts \in Nat \ {0}
    /\ SmallBatch \in Nat /\ MmaFrom \in Nat /\ KeyTile \in Nat \ {0}
    /\ WarpsPerBlock \in Nat \ {0} /\ KeysPerWarp \in Nat \ {0}

VARIABLES
    phase,    \* "idle", "applied" (partials written), "done"
    call,     \* the launch: kernel, position, batch, blocks per row
    scratch,  \* row and keys of the partial in each cell, or Stale
    out       \* key sets that made up each row's result

vars == <<phase, call, scratch, out>>

NoCall == [kernel |-> "none", position |-> 0, batch |-> 0, parts |-> 1]
Stale == [row |-> -1, keys |-> {}]

---------------------------------------------------------------------------
(* Dividing keys.                                                            *)

\* Units 0..units - 1 are divided among `count' blocks by rounding down.
First(units, p, count) == (units * p) \div count

ShareInclusive(units, p, count) == First(units, p, count)..First(units, p + 1, count)   \* mutant: <= for <
Share(units, p, count) == First(units, p, count)..(First(units, p + 1, count) - 1)

\* Blocks that take part in a row whose last key is `last'.
partition_count(parts, last) == IF parts > 1 /\ last >= PartitionFrom THEN parts ELSE 1

\* Tiles are divided, and the keys behind the row's position masked.
TileKeys(last, p, count) ==
    {k \in 0..last : k \div KeyTile \in Share((last + KeyTile) \div KeyTile, p, count)}

\* The keys of a tile are dealt to the warps of one block.
DealtKeys(last, w) ==
    {k \in 0..last : (k % (WarpsPerBlock * KeysPerWarp)) \div KeysPerWarp = w}

---------------------------------------------------------------------------
(* The kernels: which keys of a row owner p takes.                           *)

apply_gqa_q8_batch(last, p, parts) == TileKeys(last, p, partition_count(parts, last))
apply_gqa_q8_whole(last) == TileKeys(last, 0, 1)
apply_gqa_q4_batch(last, p, parts) == TileKeys(last, p, partition_count(parts, last))
apply_online_batch(last, p, parts) == Share(last + 1, p, partition_count(parts, last))
apply_online(last) == 0..last
apply_flash_f16_batch(last, w) == DealtKeys(last, w)
apply_f16_llama(last, w) == DealtKeys(last, w)
apply_f16_exact_vector(last, w) == DealtKeys(last, w)
apply_f16_vector(last, w) == DealtKeys(last, w)
apply_q8_vector(last, w) == DealtKeys(last, w)
apply_mma_f16_batch(last) == TileKeys(last, 0, 1)

Vectors == {"flash_f16", "f16_llama", "f16_exact_vector", "f16_vector", "q8_vector"}

KeysOf(kernel, last, p, parts) ==
    CASE kernel = "gqa_q8" -> apply_gqa_q8_batch(last, p, parts)
      [] kernel = "gqa_q8_whole" -> apply_gqa_q8_whole(last)
      [] kernel = "gqa_q4" -> apply_gqa_q4_batch(last, p, parts)
      [] kernel = "online_q4" -> apply_online_batch(last, p, parts)
      [] kernel = "online" -> apply_online(last)
      [] kernel = "mma" -> apply_mma_f16_batch(last)
      [] kernel = "flash_f16" -> apply_flash_f16_batch(last, p)
      [] kernel = "f16_llama" -> apply_f16_llama(last, p)
      [] kernel = "f16_exact_vector" -> apply_f16_exact_vector(last, p)
      [] kernel = "f16_vector" -> apply_f16_vector(last, p)
      [] kernel = "q8_vector" -> apply_q8_vector(last, p)

---------------------------------------------------------------------------
(* The launch.                                                               *)

\* run_core_device: kernels for one row, by cache format and environment.
ScalarKernels ==
    {"mma", "f16_exact_vector", "f16_vector", "f16_llama", "q8_vector", "online"}

\* run_core_device_batch with an F16 cache.
F16Kernels(batch) == IF batch >= MmaFrom THEN {"mma", "flash_f16"} ELSE {"flash_f16"}

\* With a Q8 cache; without the temporary F16 view a large batch falls back.
Q8Kernels(batch) == IF batch >= MmaFrom THEN {"mma", "gqa_q8", "gqa_q8_whole"} ELSE {"gqa_q8", "gqa_q8_whole"}

\* With other caches.
OtherKernels == {"gqa_q4", "online_q4", "online"}

KernelsFor(batch) ==
    F16Kernels(batch) \union Q8Kernels(batch) \union OtherKernels
    \union (IF batch = 1 THEN ScalarKernels ELSE {})

\* Blocks per row.
partitions(kernel, position, batch) ==
    CASE kernel = "gqa_q8" -> IF position >= LongFrom THEN LongParts ELSE ShortParts
      [] kernel \in {"gqa_q4", "online_q4"} -> IF batch <= SmallBatch THEN OnlineParts ELSE 1
      [] kernel \in Vectors -> WarpsPerBlock
      [] OTHER -> 1

\* Whether the rows' results are left in the scratch buffer.
Staged(kernel, parts) == kernel = "gqa_q8" \/ (kernel \in {"gqa_q4", "online_q4"} /\ parts > 1)

Init == phase = "idle" /\ call = NoCall /\ scratch = <<>> /\ out = <<>>

Rows == 0..(call.batch - 1)
LastKey(row) == call.position + row

\* Validation and choice of the kernel; the scratch buffer holds what earlier
\* launches left.
Launch ==
    /\ phase \in {"idle", "done"}
    /\ \E batch \in 1..MaxBatch : \E position \in 0..(MaxContext - batch), kernel \in KernelsFor(batch) :
        call' = [kernel |-> kernel, position |-> position, batch |-> batch,
                 parts |-> partitions(kernel, position, batch)]
    /\ phase' = "launched"
    /\ scratch' = [c \in 0..(call'.batch * call'.parts - 1) |-> Stale]
    /\ out' = <<>>

\* A kernel that needs no scratch writes the rows.
ApplyWhole ==
    /\ phase = "launched" /\ ~Staged(call.kernel, call.parts)
    /\ out' = [r \in Rows |-> [p \in 0..(call.parts - 1) |->
                  [row |-> r, keys |-> KeysOf(call.kernel, LastKey(r), p, call.parts)]]]
    /\ phase' = "done"
    /\ UNCHANGED <<call, scratch>>

\* Each block of a row writes its cell; a block the row does not use returns.
ApplyStaged ==
    /\ phase = "launched" /\ Staged(call.kernel, call.parts)
    /\ scratch' = [c \in DOMAIN scratch |->
           LET r == c \div call.parts
               p == c % call.parts
           IN  IF p < partition_count(call.parts, LastKey(r))
               THEN [row |-> r, keys |-> KeysOf(call.kernel, LastKey(r), p, call.parts)]
               ELSE scratch[c]]
    /\ phase' = "applied"
    /\ UNCHANGED <<call, out>>

\* combine_q8_partitions decides by the last row of the batch.
CombineCount == partition_count(call.parts, call.position + call.batch - 1)

Combine ==
    /\ phase = "applied"
    /\ out' = [r \in Rows |-> [p \in 0..(CombineCount - 1) |-> scratch[r * call.parts + p]]]
    /\ phase' = "done"
    /\ UNCHANGED <<call, scratch>>

Next == Launch \/ ApplyWhole \/ ApplyStaged \/ Combine

Spec == Init /\ [][Next]_vars

---------------------------------------------------------------------------
\* Row r was computed from its own partials, which hold each key up to its
\* position exactly once and nothing behind it.
Exact(r) ==
    /\ \A p \in DOMAIN out[r] : out[r][p].row = r /\ out[r][p].keys \subseteq 0..LastKey(r)
    /\ \A k \in 0..LastKey(r) : \E p \in DOMAIN out[r] : k \in out[r][p].keys
    /\ \A p, q \in DOMAIN out[r] : p # q => out[r][p].keys \intersect out[r][q].keys = {}

\* The batch begins below PartitionFrom and ends at or above it.
Straddles == call.position < PartitionFrom /\ call.position + call.batch - 1 >= PartitionFrom

\* Every row of a finished launch attends to each of its keys exactly once, on
\* every kernel that KernelsFor gives its batch, unless a staged batch straddles the position from which rows
\* are divided: there the blocks of a row decide by the row's own position and
\* the combination by the last row's.
RowsComplete ==
    phase = "done" /\ ~(Staged(call.kernel, call.parts) /\ Straddles) =>
        \A r \in Rows : Exact(r)

=============================================================================
