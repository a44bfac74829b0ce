------------------------------ MODULE KernelProofs ------------------------------
(* The kernels of fortai_cuda_backend.cu that divide their work: attention        *)
(* (RowsComplete for every context, batch, tile and number of blocks, WarpsInStep *)
(* for any number of warps, tiles and fragments), token selection (ArgmaxExact    *)
(* and TopkExact for every row, grid, number of threads and tile) and the batched *)
(* matrix product (MatmulExact for every shape, tile width and partition).        *)
EXTENDS AttentionPartition, GroupedAttention, Selection, Q8Matmul,
        SequenceTheorems, FiniteSetTheorems, WellFoundedInduction, TLAPS

---------------------------------------------------------------------------
(* Rounding down.                                                            *)

\* Quotient and remainder of the integer division the kernels use.
LEMMA Division ==
    ASSUME NEW a \in Int, NEW b \in Nat \ {0}
    PROVE  /\ a \div b \in Int /\ a % b \in Int
           /\ a = b * (a \div b) + (a % b)
           /\ 0 <= a % b /\ a % b < b
  OBVIOUS

\* Order carries over to products with a natural number.
LEMMA Products ==
    ASSUME NEW a \in Int, NEW b \in Int, NEW c \in Nat, a <= b
    PROVE  c * a <= c * b
  OBVIOUS

\* A quotient is at most q when the dividend is below (q + 1) divisors.
LEMMA QuotientAtMost ==
    ASSUME NEW a \in Int, NEW b \in Nat \ {0}, NEW q \in Int, a < b * (q + 1)
    PROVE  a \div b <= q
  <1>1. /\ a \div b \in Int /\ a % b \in Int
        /\ a = b * (a \div b) + (a % b) /\ 0 <= a % b
    BY Division
  <1>2. SUFFICES ASSUME q + 1 <= a \div b PROVE FALSE
    BY <1>1
  <1>3. b * (q + 1) <= b * (a \div b)
    BY <1>1, <1>2, Products
  <1>4. b * (q + 1) \in Int /\ b * (a \div b) \in Int
    BY <1>1
  <1> QED BY <1>1, <1>3, <1>4

\* A quotient is at least q when the dividend reaches q divisors.
LEMMA QuotientAtLeast ==
    ASSUME NEW a \in Int, NEW b \in Nat \ {0}, NEW q \in Int, b * q <= a
    PROVE  q <= a \div b
  <1>1. /\ a \div b \in Int /\ a % b \in Int
        /\ a = b * (a \div b) + (a % b) /\ a % b < b
    BY Division
  <1>2. SUFFICES ASSUME (a \div b) + 1 <= q PROVE FALSE
    BY <1>1
  <1>3. b * ((a \div b) + 1) <= b * q
    BY <1>1, <1>2, Products
  <1>4. b * ((a \div b) + 1) = b * (a \div b) + b
    BY <1>1
  <1>5. b * (a \div b) \in Int /\ b * q \in Int
    BY <1>1
  <1> QED BY <1>1, <1>3, <1>4, <1>5

\* The start of a block's share is a unit.
LEMMA FirstInt ==
    ASSUME NEW n \in Nat, NEW c \in Nat \ {0}, NEW p \in Int
    PROVE  First(n, p, c) \in Int
  <1>1. n * p \in Int
    OBVIOUS
  <1> QED BY <1>1, Division DEF First

\* The start of a block's share does not decrease from block to block.
LEMMA FirstMonotone ==
    ASSUME NEW n \in Nat, NEW c \in Nat \ {0}, NEW p \in Int, NEW q \in Int, p <= q
    PROVE  First(n, p, c) \in Int /\ First(n, p, c) <= First(n, q, c)
  <1>1. n * p \in Int /\ n * q \in Int /\ n * p <= n * q
    BY Products
  <1>2. /\ (n * p) \div c \in Int /\ (n * p) % c \in Int
        /\ n * p = c * ((n * p) \div c) + ((n * p) % c) /\ 0 <= (n * p) % c
    BY <1>1, Division
  <1>3. c * ((n * p) \div c) \in Int
    BY <1>2
  <1>4. c * ((n * p) \div c) <= n * q
    BY <1>1, <1>2, <1>3
  <1> QED BY <1>1, <1>2, <1>4, QuotientAtLeast DEF First

\* The shares of all blocks hold every unit, each exactly once, and nothing else.
LEMMA SharesPartition ==
    ASSUME NEW n \in Nat, NEW c \in Nat \ {0}
    PROVE  /\ \A k \in 0..(n - 1) : \E p \in 0..(c - 1) : k \in Share(n, p, c)
           /\ \A p, q \in 0..(c - 1) : p # q => Share(n, p, c) \intersect Share(n, q, c) = {}
           /\ \A p \in 0..(c - 1) : Share(n, p, c) \subseteq 0..(n - 1)
  <1>1. ASSUME NEW k \in 0..(n - 1) PROVE \E p \in 0..(c - 1) : k \in Share(n, p, c)
    <2> DEFINE a == c * (k + 1) - 1
    <2> DEFINE p == a \div n
    <2>1. n \in Nat \ {0} /\ k \in Int /\ c * (k + 1) \in Int /\ a \in Int
      OBVIOUS
    <2>2. p \in Int /\ a % n \in Int /\ a = n * p + (a % n) /\ 0 <= a % n /\ a % n < n
      BY <2>1, Division
    <2>3. n * p \in Int /\ n * p <= a /\ a < n * p + n
      BY <2>1, <2>2
    <2>4. n * (p + 1) \in Int /\ n * (p + 1) = n * p + n
      BY <2>1, <2>2
    <2>5. p <= c - 1
      <3>1. c * (k + 1) <= c * n BY <2>1, Products
      <3>2. c * n \in Int /\ c * n = n * ((c - 1) + 1) BY <2>1
      <3>3. a < n * ((c - 1) + 1) BY <2>1, <3>1, <3>2
      <3> QED BY <2>1, <3>3, QuotientAtMost
    <2>6. 0 <= p
      <3>1. c * 1 <= c * (k + 1) BY <2>1, Products
      <3>2. n * 0 <= a BY <2>1, <3>1
      <3> QED BY <2>1, <3>2, QuotientAtLeast
    <2>7. First(n, p, c) <= k
      <3>1. n * p < c * (k + 1) BY <2>1, <2>3
      <3> QED BY <2>1, <2>3, <3>1, QuotientAtMost DEF First
    <2>8. k + 1 <= First(n, p + 1, c)
      <3>1. c * (k + 1) <= n * (p + 1) BY <2>1, <2>3, <2>4
      <3> QED BY <2>1, <2>4, <3>1, QuotientAtLeast DEF First
    <2>9. First(n, p, c) \in Int /\ First(n, p + 1, c) \in Int
      BY <2>2, FirstInt
    <2>10. p \in 0..(c - 1) /\ k \in Share(n, p, c)
      BY <2>1, <2>2, <2>5, <2>6, <2>7, <2>8, <2>9 DEF Share
    <2> QED BY <2>10
  <1>2. ASSUME NEW p \in 0..(c - 1), NEW q \in 0..(c - 1), p < q
        PROVE  Share(n, p, c) \intersect Share(n, q, c) = {}
    <2>1. First(n, p + 1, c) \in Int /\ First(n, p + 1, c) <= First(n, q, c)
      BY <1>2, FirstMonotone
    <2>2. First(n, p, c) \in Int /\ First(n, q, c) \in Int /\ First(n, q + 1, c) \in Int
      BY FirstInt
    <2> QED BY <2>1, <2>2 DEF Share
  <1>3. ASSUME NEW p \in 0..(c - 1) PROVE Share(n, p, c) \subseteq 0..(n - 1)
    <2>1. First(n, 0, c) \in Int /\ First(n, 0, c) <= First(n, p, c)
      BY FirstMonotone
    <2>2. First(n, p + 1, c) \in Int /\ First(n, p + 1, c) <= First(n, c, c)
      BY FirstMonotone
    <2>3. First(n, 0, c) >= 0
      <3>1. c * 0 <= n * 0 OBVIOUS
      <3>2. n * 0 \in Int /\ 0 \in Int OBVIOUS
      <3> QED BY <3>1, <3>2, QuotientAtLeast DEF First
    <2>4. First(n, c, c) <= n
      <3>1. n * c \in Int /\ n * c < c * (n + 1) OBVIOUS
      <3> QED BY <3>1, QuotientAtMost DEF First
    <2>5. First(n, p, c) \in Int /\ First(n, c, c) \in Int
      BY FirstInt
    <2> QED BY <2>1, <2>2, <2>3, <2>4, <2>5 DEF Share
  <1>4. ASSUME NEW p \in 0..(c - 1), NEW q \in 0..(c - 1), p # q
        PROVE  Share(n, p, c) \intersect Share(n, q, c) = {}
    <2>1. CASE p < q BY <1>2, <2>1
    <2>2. CASE q < p BY <1>2, <2>2
    <2> QED BY <1>4, <2>1, <2>2
  <1> QED BY <1>1, <1>3, <1>4

---------------------------------------------------------------------------
(* The keys of one row.                                                      *)

\* Owners 0..count - 1 hold each key up to `last' exactly once and nothing behind.
Divided(K, last, count) ==
    /\ \A p \in 0..(count - 1) : K[p] \subseteq 0..last
    /\ \A k \in 0..last : \E p \in 0..(count - 1) : k \in K[p]
    /\ \A p, q \in 0..(count - 1) : p # q => K[p] \intersect K[q] = {}

\* Whole tiles divided among blocks, the last one masked: apply_gqa_q8_batch and
\* its relatives.
LEMMA TilesDivided ==
    ASSUME NEW last \in Nat, NEW c \in Nat \ {0}
    PROVE  Divided([p \in 0..(c - 1) |-> TileKeys(last, p, c)], last, c)
  <1> DEFINE n == (last + KeyTile) \div KeyTile
  <1>1. KeyTile \in Nat \ {0}
    BY PartitionAssumption
  <1>2. n \in Nat
    <2>1. last + KeyTile \in Int /\ KeyTile * 0 <= last + KeyTile
      BY <1>1
    <2>2. n \in Int
      BY <1>1, <2>1, Division
    <2> QED BY <1>1, <2>1, <2>2, QuotientAtLeast
  <1>3. ASSUME NEW k \in 0..last PROVE k \div KeyTile \in 0..(n - 1)
    <2>1. /\ k \div KeyTile \in Int /\ k % KeyTile \in Int
          /\ k = KeyTile * (k \div KeyTile) + (k % KeyTile) /\ 0 <= k % KeyTile
      BY <1>1, Division
    <2>2. KeyTile * 0 <= k
      BY <1>1
    <2>3. 0 <= k \div KeyTile
      BY <1>1, <2>2, QuotientAtLeast
    <2>4. KeyTile * ((k \div KeyTile) + 1) = KeyTile * (k \div KeyTile) + KeyTile
      BY <1>1, <2>1
    <2>5. KeyTile * (k \div KeyTile) \in Int
      BY <1>1, <2>1
    <2>6. KeyTile * ((k \div KeyTile) + 1) <= last + KeyTile
      BY <1>1, <2>1, <2>4, <2>5
    <2>7. last + KeyTile \in Int /\ (k \div KeyTile) + 1 \in Int
      BY <1>1, <2>1
    <2>8. (k \div KeyTile) + 1 <= n
      BY <1>1, <2>6, <2>7, QuotientAtLeast
    <2> QED BY <1>2, <2>1, <2>3, <2>8
  <1> HIDE DEF n
  <1>4. /\ \A k \in 0..(n - 1) : \E p \in 0..(c - 1) : k \in Share(n, p, c)
        /\ \A p, q \in 0..(c - 1) : p # q => Share(n, p, c) \intersect Share(n, q, c) = {}
    BY <1>2, SharesPartition
  <1>5. \A p : TileKeys(last, p, c) = {k \in 0..last : k \div KeyTile \in Share(n, p, c)}
    BY DEF TileKeys, n
  <1> QED BY <1>3, <1>4, <1>5 DEF Divided

\* Keys divided one by one: apply_online_batch.
LEMMA KeysDivided ==
    ASSUME NEW last \in Nat, NEW c \in Nat \ {0}
    PROVE  Divided([p \in 0..(c - 1) |-> Share(last + 1, p, c)], last, c)
  <1>1. last + 1 \in Nat /\ (last + 1) - 1 = last
    OBVIOUS
  <1> QED BY <1>1, SharesPartition DEF Divided

\* Keys dealt to the warps of one block: the vector kernels.
LEMMA KeysDealt ==
    ASSUME NEW last \in Nat
    PROVE  Divided([w \in 0..(WarpsPerBlock - 1) |-> DealtKeys(last, w)], last, WarpsPerBlock)
  <1> DEFINE round == WarpsPerBlock * KeysPerWarp
  <1>1. WarpsPerBlock \in Nat \ {0} /\ KeysPerWarp \in Nat \ {0} /\ round \in Nat \ {0}
    BY PartitionAssumption
  <1>2. ASSUME NEW k \in 0..last PROVE (k % round) \div KeysPerWarp \in 0..(WarpsPerBlock - 1)
    <2>1. k % round \in Int /\ 0 <= k % round /\ k % round < round
      BY <1>1, Division
    <2>2. KeysPerWarp * 0 <= k % round
      BY <1>1, <2>1
    <2>3. round = KeysPerWarp * ((WarpsPerBlock - 1) + 1)
      BY <1>1
    <2>4. (k % round) \div KeysPerWarp \in Int
      BY <1>1, <2>1, Division
    <2> HIDE DEF round
    <2>5. 0 <= (k % round) \div KeysPerWarp
      BY <1>1, <2>1, <2>2, QuotientAtLeast
    <2>6. (k % round) \div KeysPerWarp <= WarpsPerBlock - 1
      BY <1>1, <2>1, <2>3, QuotientAtMost
    <2> QED BY <1>1, <2>4, <2>5, <2>6
  <1>3. \A w : DealtKeys(last, w) = {k \in 0..last : (k % round) \div KeysPerWarp = w}
    BY DEF DealtKeys
  <1> HIDE DEF round
  <1> QED BY <1>2, <1>3 DEF Divided

---------------------------------------------------------------------------
(* The launch.                                                               *)

KernelNames == Vectors \union {"gqa_q8", "gqa_q8_whole", "gqa_q4", "online_q4", "online", "mma"}

\* Owners of a row's keys: blocks for staged kernels, else all of call.parts.
Owners(variant, blocks, last) ==
    IF Staged(variant, blocks) THEN partition_count(blocks, last) ELSE blocks

\* Whatever variant is chosen, the owners of a row divide its keys.
LEMMA KernelDivides ==
    ASSUME NEW variant \in KernelNames, NEW position \in Nat, NEW batch \in Nat,
           NEW last \in Nat, NEW blocks, blocks = partitions(variant, position, batch)
    PROVE  /\ blocks \in Nat \ {0}
           /\ Owners(variant, blocks, last) \in 1..blocks
           /\ Divided([p \in 0..(Owners(variant, blocks, last) - 1) |->
                          KeysOf(variant, last, p, blocks)], last, Owners(variant, blocks, last))
  <1> DEFINE c == Owners(variant, blocks, last)
  <1> DEFINE K == [p \in 0..(c - 1) |-> KeysOf(variant, last, p, blocks)]
  <1>1. blocks \in Nat \ {0}
    BY PartitionAssumption DEF partitions, KernelNames, Vectors
  <1>2. c \in 1..blocks
    BY <1>1 DEF Owners, partition_count
  <1>3. CASE variant \in {"gqa_q8", "gqa_q4"}
    <2>1. c = partition_count(blocks, last)
      BY <1>1, <1>3 DEF Owners, Staged, partition_count
    <2>2. K = [p \in 0..(c - 1) |-> TileKeys(last, p, c)]
      BY <1>3, <2>1 DEF KeysOf, apply_gqa_q8_batch, apply_gqa_q4_batch
    <2>3. Divided([p \in 0..(c - 1) |-> TileKeys(last, p, c)], last, c)
      BY <1>1, <1>2, TilesDivided
    <2> QED BY <1>1, <1>2, <2>2, <2>3
  <1>4. CASE variant = "online_q4"
    <2>1. c = partition_count(blocks, last)
      BY <1>1, <1>4 DEF Owners, Staged, partition_count
    <2>2. K = [p \in 0..(c - 1) |-> Share(last + 1, p, c)]
      BY <1>4, <2>1 DEF KeysOf, apply_online_batch
    <2>3. Divided([p \in 0..(c - 1) |-> Share(last + 1, p, c)], last, c)
      BY <1>1, <1>2, KeysDivided
    <2> QED BY <1>1, <1>2, <2>2, <2>3
  <1>5. CASE variant \in {"gqa_q8_whole", "mma"}
    <2>1. c = 1
      BY <1>5 DEF Owners, Staged, partitions, Vectors
    <2>2. K = [p \in 0..(c - 1) |-> TileKeys(last, p, c)]
      BY <1>5, <2>1 DEF KeysOf, apply_gqa_q8_whole, apply_mma_f16_batch
    <2>3. Divided([p \in 0..(c - 1) |-> TileKeys(last, p, c)], last, c)
      BY <1>1, <1>2, TilesDivided
    <2> QED BY <1>1, <1>2, <2>2, <2>3
  <1>6. CASE variant = "online"
    <2>1. c = 1
      BY <1>6 DEF Owners, Staged, partitions, Vectors
    <2>2. K = [p \in 0..(c - 1) |-> 0..last]
      BY <1>6 DEF KeysOf, apply_online
    <2>3. Divided(K, last, c)
      BY <2>1, <2>2 DEF Divided
    <2> QED BY <1>1, <1>2, <2>3
  <1>7. CASE variant \in Vectors
    <2>1. c = WarpsPerBlock
      BY <1>7 DEF Owners, Staged, partitions, Vectors
    <2>2. K = [p \in 0..(c - 1) |-> DealtKeys(last, p)]
      BY <1>7 DEF KeysOf, Vectors, apply_flash_f16_batch, apply_f16_llama,
                  apply_f16_exact_vector, apply_f16_vector, apply_q8_vector
    <2>3. Divided([p \in 0..(c - 1) |-> DealtKeys(last, p)], last, c)
      BY <2>1, KeysDealt
    <2> QED BY <1>1, <1>2, <2>2, <2>3
  <1> QED BY <1>3, <1>4, <1>5, <1>6, <1>7 DEF KernelNames

\* The launch that is under way, or the last one.
CallValid ==
    /\ call.kernel \in KernelNames
    /\ call.position \in Nat /\ call.batch \in Nat \ {0}
    /\ call.parts = partitions(call.kernel, call.position, call.batch)

\* Before the combination each block a row uses has left its partial in its cell.
PartialsWritten ==
    /\ Staged(call.kernel, call.parts)
    /\ DOMAIN scratch = 0..(call.batch * call.parts - 1)
    /\ \A c \in DOMAIN scratch :
          c % call.parts < partition_count(call.parts, LastKey(c \div call.parts)) =>
             scratch[c] = [row |-> c \div call.parts,
                           keys |-> KeysOf(call.kernel, LastKey(c \div call.parts),
                                           c % call.parts, call.parts)]

\* The inductive invariant.
PartitionInv ==
    /\ phase \in {"idle", "launched", "applied", "done"}
    /\ phase # "idle" => CallValid
    /\ phase = "launched" => DOMAIN scratch = 0..(call.batch * call.parts - 1)
    /\ phase = "applied" => PartialsWritten
    /\ RowsComplete

\* The cell of row r and block p, and back.
LEMMA CellOf ==
    ASSUME NEW m \in Nat \ {0}, NEW n \in Nat, NEW r \in 0..(n - 1), NEW p \in 0..(m - 1)
    PROVE  /\ r * m + p \in 0..(n * m - 1)
           /\ (r * m + p) \div m = r /\ (r * m + p) % m = p
  <1>1. r * m \in Int /\ n * m \in Int /\ m * r = r * m /\ m * n = n * m
    OBVIOUS
  <1>2. m * (r + 1) = r * m + m
    OBVIOUS
  <1>3. m * (r + 1) <= m * n
    BY Products
  <1>4. 0 <= r * m
    <2>1. m * 0 <= m * r BY Products
    <2> QED BY <1>1, <2>1
  <1>5. r * m + p \in Int
    BY <1>1
  <1>6. (r * m + p) \div m <= r
    BY <1>1, <1>2, <1>5, QuotientAtMost
  <1>7. r <= (r * m + p) \div m
    BY <1>1, <1>5, QuotientAtLeast
  <1>8. /\ (r * m + p) \div m \in Int /\ (r * m + p) % m \in Int
        /\ r * m + p = m * ((r * m + p) \div m) + ((r * m + p) % m)
    BY <1>5, Division
  <1>9. (r * m + p) \div m = r
    BY <1>6, <1>7, <1>8
  <1>10. (r * m + p) % m = p
    BY <1>1, <1>8, <1>9
  <1> QED BY <1>1, <1>2, <1>3, <1>4, <1>9, <1>10

\* Init and every step keep the invariant.
LEMMA PartitionStep ==
    ASSUME PartitionInv, [Next]_vars
    PROVE  PartitionInv'
  <1>1. ASSUME Launch PROVE PartitionInv'
    <2>1. PICK batch \in 1..MaxBatch :
            \E position \in 0..(MaxContext - batch), variant \in KernelsFor(batch) :
              call' = [kernel |-> variant, position |-> position, batch |-> batch,
                       parts |-> partitions(variant, position, batch)]
      BY <1>1 DEF Launch
    <2>2. CallValid'
      BY <2>1, PartitionAssumption DEF CallValid, KernelsFor, F16Kernels, Q8Kernels, OtherKernels,
         ScalarKernels, KernelNames, Vectors
    <2>3. phase' = "launched" /\ DOMAIN scratch' = 0..(call'.batch * call'.parts - 1)
      BY <1>1 DEF Launch
    <2> QED BY <2>2, <2>3 DEF PartitionInv, RowsComplete
  <1>2. ASSUME ApplyWhole PROVE PartitionInv'
    <2>1. CallValid /\ call' = call /\ phase' = "done" /\ ~Staged(call.kernel, call.parts)
      BY <1>2 DEF ApplyWhole, PartitionInv
    <2>2. CallValid'
      BY <2>1 DEF CallValid
    <2>3. ASSUME NEW r \in Rows' PROVE Exact(r)'
      <3>1. r \in Rows /\ LastKey(r)' = LastKey(r)
        BY <2>1 DEF Rows, LastKey
      <3>2. out'[r] = [p \in 0..(call.parts - 1) |->
                [row |-> r, keys |-> KeysOf(call.kernel, LastKey(r), p, call.parts)]]
        BY <1>2, <3>1 DEF ApplyWhole
      <3>3. Owners(call.kernel, call.parts, LastKey(r)) = call.parts
        BY <2>1 DEF Owners
      <3>4. LastKey(r) \in Nat
        BY <2>1, <3>1 DEF CallValid, Rows, LastKey
      <3>5. Divided([p \in 0..(call.parts - 1) |-> KeysOf(call.kernel, LastKey(r), p, call.parts)],
                    LastKey(r), call.parts)
        BY <2>1, <3>3, <3>4, KernelDivides DEF CallValid
      <3>6. DOMAIN out'[r] = 0..(call.parts - 1)
        BY <3>2
      <3>7. \A p \in 0..(call.parts - 1) : /\ out'[r][p].row = r
                /\ out'[r][p].keys = KeysOf(call.kernel, LastKey(r), p, call.parts)
        BY <3>2
      <3>8. \A p \in 0..(call.parts - 1) : out'[r][p].keys \subseteq 0..LastKey(r)
        BY <3>5, <3>7 DEF Divided
      <3>9. \A k \in 0..LastKey(r) : \E p \in 0..(call.parts - 1) : k \in out'[r][p].keys
        BY <3>5, <3>7 DEF Divided
      <3>10. \A p, q \in 0..(call.parts - 1) :
                p # q => out'[r][p].keys \intersect out'[r][q].keys = {}
        BY <3>5, <3>7 DEF Divided
      <3> QED BY <3>1, <3>6, <3>7, <3>8, <3>9, <3>10 DEF Exact
    <2> QED BY <2>1, <2>2, <2>3 DEF PartitionInv, RowsComplete
  <1>3. ASSUME ApplyStaged PROVE PartitionInv'
    <2>1. CallValid /\ call' = call /\ phase' = "applied" /\ Staged(call.kernel, call.parts)
      BY <1>3 DEF ApplyStaged, PartitionInv
    <2>2. CallValid'
      BY <2>1 DEF CallValid
    <2>3. \A r : LastKey(r)' = LastKey(r)
      BY <2>1 DEF LastKey
    <2>4. PartialsWritten'
      BY <1>3, <2>1, <2>3 DEF ApplyStaged, PartitionInv, PartialsWritten, LastKey
    <2> QED BY <2>1, <2>2, <2>4 DEF PartitionInv, RowsComplete
  <1>4. ASSUME Combine PROVE PartitionInv'
    <2>1. CallValid /\ call' = call /\ phase' = "done" /\ PartialsWritten
      BY <1>4 DEF Combine, PartitionInv
    <2>2. CallValid'
      BY <2>1 DEF CallValid
    <2>3. ASSUME ~Straddles, NEW r \in Rows' PROVE Exact(r)'
      <3>1. r \in Rows /\ LastKey(r)' = LastKey(r) /\ r \in 0..(call.batch - 1)
        BY <2>1 DEF Rows, LastKey
      <3>2. LastKey(r) \in Nat /\ LastKey(r) = call.position + r
        BY <2>1, <3>1 DEF CallValid, LastKey
      <3> DEFINE c == partition_count(call.parts, LastKey(r))
      <3>3. /\ call.parts \in Nat \ {0} /\ c \in 1..call.parts
            /\ Divided([p \in 0..(c - 1) |-> KeysOf(call.kernel, LastKey(r), p, call.parts)],
                       LastKey(r), c)
        BY <2>1, <3>2, KernelDivides DEF CallValid, PartialsWritten, Owners
      <3>4. CombineCount = c
        BY <2>1, <2>3, <3>1, <3>2, PartitionAssumption
           DEF CombineCount, Straddles, partition_count, CallValid
      <3>5. ASSUME NEW p \in 0..(c - 1)
            PROVE  scratch[r * call.parts + p] =
                     [row |-> r, keys |-> KeysOf(call.kernel, LastKey(r), p, call.parts)]
        <4>1. p \in 0..(call.parts - 1) /\ p < c
          BY <3>3
        <4>2. call.batch \in Nat
          BY <2>1 DEF CallValid
        <4>3. /\ r * call.parts + p \in 0..(call.batch * call.parts - 1)
              /\ (r * call.parts + p) \div call.parts = r
              /\ (r * call.parts + p) % call.parts = p
          BY <3>1, <3>3, <4>1, <4>2, CellOf
        <4> QED BY <2>1, <4>1, <4>3 DEF PartialsWritten
      <3>6. out'[r] = [p \in 0..(c - 1) |-> scratch[r * call.parts + p]]
        BY <1>4, <3>1, <3>4 DEF Combine
      <3> HIDE DEF c
      <3>7. out'[r] = [p \in 0..(c - 1) |->
                [row |-> r, keys |-> KeysOf(call.kernel, LastKey(r), p, call.parts)]]
        BY <3>5, <3>6
      <3> QED BY <3>1, <3>3, <3>7 DEF Divided, Exact
    <2>4. Straddles' = Straddles /\ Staged(call.kernel, call.parts)
      BY <2>1 DEF Straddles, PartialsWritten
    <2> QED BY <2>1, <2>2, <2>3, <2>4 DEF PartitionInv, RowsComplete
  <1>5. ASSUME UNCHANGED vars PROVE PartitionInv'
    BY <1>5 DEF vars, PartitionInv, CallValid, PartialsWritten, RowsComplete, Exact, Straddles,
       Rows, LastKey
  <1> QED BY <1>1, <1>2, <1>3, <1>4, <1>5 DEF Next

\* Every attention variant, for every context length, batch, tile size and number of
\* blocks or warps: the rows of a finished launch attend to each key up to their
\* position exactly once and to none behind it, and a row combined from scratch
\* takes no partial of another row or launch, unless a staged batch straddles
\* the position from which rows are divided.
THEOREM RowsAreComplete == Spec => []RowsComplete
  <1>1. Init => PartitionInv
    BY DEF Init, PartitionInv, RowsComplete
  <1>2. PartitionInv /\ [Next]_vars => PartitionInv'
    BY PartitionStep
  <1>3. PartitionInv => RowsComplete
    BY DEF PartitionInv
  <1> QED BY <1>1, <1>2, <1>3, PTL DEF Spec

--------------------------------------------------------------------------------
(* The warps of one block.  WarpsInStep speaks of what a warp has added to its   *)
(* output.  Why it is right lies in the shared memory: between the two barriers  *)
(* of a tile all warps are in the same half of it, the staged keys are those of  *)
(* the common tile, and a warp's score fragments are its own.  InStep says so.   *)

Copying == {"load", "loaded"}
Using == {"score", "softmax", "value", "ended"}

\* Tiles warp w has attended to when it has not lost its place.
Expected(w) == IF pc[w] = "ended" THEN tile[w] + 1 ELSE tile[w]

\* The shared state as one variable's type and the relations between the warps.
SharedType ==
    /\ pc \in [Ids -> Copying \union Using \union {"done"}]
    /\ tile \in [Ids -> Nat]
    /\ DOMAIN keys = Ids /\ DOMAIN weights = Ids /\ DOMAIN attended = Ids
    /\ DOMAIN scores = 0..(Warps * Fragments - 1)

\* All warps are at one tile and on one side of its barriers.
Together ==
    /\ \A v, w \in Ids : tile[v] = tile[w]
    /\ \A v, w \in Ids : pc[v] \in Copying => pc[w] \in Copying
    /\ \A v, w \in Ids : pc[v] \in Using => pc[w] \in Using

\* What a warp will read belongs to the common tile.
Fresh ==
    /\ \A w \in Ids : pc[w] \in Using \union {"loaded"} => keys[w] = tile[w]
    /\ \A w \in Ids : pc[w] = "softmax" =>
          \A f \in Region(w) : scores[f] = [warp |-> w, tile |-> tile[w]]
    /\ \A w \in Ids : pc[w] = "value" => weights[w] = tile[w]

Attended == \A w \in Ids : attended[w] = [i \in 1..Expected(w) |-> i - 1]

InStep == SharedType /\ Together /\ Fresh /\ Attended

\* The kernels with a barrier behind each tile.
Barred == kernel \in AllKernels /\ kernel.ends

\* The inductive invariant: nothing is claimed of a kernel without that barrier.
BarredInStep == kernel \in AllKernels /\ (kernel.ends => Barred /\ InStep)

\* Score fragments of different warps are different.
LEMMA RegionsApart ==
    ASSUME Warps \in Nat, Fragments \in Nat, NEW v \in Ids, NEW w \in Ids, v # w,
           NEW f \in Region(v)
    PROVE  f \notin Region(w)
  <1>1. v \in Int /\ w \in Int /\ Fragments \in Nat
    BY DEF Ids
  <1>2. \A a, b \in Int : a < b => a * Fragments + Fragments <= b * Fragments
    <2>1. SUFFICES ASSUME NEW a \in Int, NEW b \in Int, a < b
                   PROVE  a * Fragments + Fragments <= b * Fragments
      OBVIOUS
    <2>2. (a + 1) * Fragments <= b * Fragments
      BY <1>1, <2>1
    <2>3. (a + 1) * Fragments = a * Fragments + Fragments
      BY <1>1, <2>1
    <2> QED BY <2>2, <2>3
  <1>3. v * Fragments \in Int /\ w * Fragments \in Int
    BY <1>1
  <1>4. CASE v < w
    <2>1. v * Fragments + Fragments <= w * Fragments
      BY <1>1, <1>2, <1>4
    <2> QED BY <1>1, <1>3, <2>1 DEF Region
  <1>5. CASE w < v
    <2>1. w * Fragments + Fragments <= v * Fragments
      BY <1>1, <1>2, <1>5
    <2> QED BY <1>1, <1>3, <2>1 DEF Region
  <1> QED BY <1>1, <1>4, <1>5

\* The fragments of a warp exist.
LEMMA RegionsExist ==
    ASSUME Warps \in Nat, Fragments \in Nat, NEW w \in Ids, NEW f \in Region(w)
    PROVE  f \in 0..(Warps * Fragments - 1)
  <1>1. w \in Nat /\ w + 1 <= Warps
    BY DEF Ids
  <1>2. (w + 1) * Fragments <= Warps * Fragments
    BY <1>1
  <1>3. (w + 1) * Fragments = w * Fragments + Fragments
    BY <1>1
  <1>4. w * Fragments \in Nat /\ Warps * Fragments \in Nat
    BY <1>1
  <1> QED BY <1>1, <1>2, <1>3, <1>4 DEF Region

\* Adding the next tile to the list of all before it.
LEMMA AppendNext ==
    ASSUME NEW n \in Nat, NEW s, s = [i \in 1..n |-> i - 1]
    PROVE  Append(s, n) = [i \in 1..(n + 1) |-> i - 1]
  <1>1. s \in Seq(Int) /\ Len(s) = n
    OBVIOUS
  <1>2. Append(s, n) = [i \in 1..(n + 1) |-> IF i = n + 1 THEN n ELSE s[i]]
    BY <1>1
  <1> QED BY <1>2

\* A copy, a barrier, a score, a softmax, a value step or the second barrier
\* keeps InStep in a kernel that has the second barrier.
LEMMA StepKeepsInStep ==
    ASSUME Warps \in Nat, Fragments \in Nat, Tiles \in Nat, Barred, InStep, [BlockNext]_blockVars
    PROVE  InStep' /\ Barred'
  <1> USE DEF Copying, Using
  <1>1. Barred'
    BY DEF Barred, BlockNext, blockVars, Load, Score, Softmax, Value, SyncLoaded, SyncEnded, Finished
  <1>2. ASSUME NEW w \in Ids, Load(w) PROVE InStep'
    <2>1. SharedType' BY <1>2 DEF Load, InStep, SharedType
    <2>2. Together' BY <1>2 DEF Load, InStep, SharedType, Together
    <2>3. Fresh' BY <1>2 DEF Load, InStep, SharedType, Together, Fresh
    <2>4. Attended' BY <1>2 DEF Load, InStep, SharedType, Attended, Expected
    <2> QED BY <2>1, <2>2, <2>3, <2>4 DEF InStep
  <1>3. ASSUME NEW w \in Ids, Score(w) PROVE InStep'
    <2>1. SharedType' BY <1>3 DEF Score, InStep, SharedType
    <2>2. Together' BY <1>3 DEF Score, InStep, SharedType, Together
    <2>3. Fresh'
      <3>1. TileStaged(w) BY <1>3 DEF Score, InStep, Together, Fresh, TileStaged
      <3>2. ASSUME NEW v \in Ids, pc'[v] = "softmax", NEW f \in Region(v)
            PROVE  scores'[f] = [warp |-> v, tile |-> tile[v]]
        <4>1. f \in DOMAIN scores BY RegionsExist DEF InStep, SharedType
        <4>2. CASE v = w BY <1>3, <3>1, <3>2, <4>1, <4>2 DEF Score
        <4>3. CASE v # w
          <5>1. f \notin Region(w) BY <4>3, RegionsApart
          <5>2. scores'[f] = scores[f] BY <1>3, <4>1, <5>1 DEF Score
          <5>3. pc[v] = "softmax" BY <1>3, <3>2, <4>3 DEF Score, InStep, SharedType
          <5> QED BY <5>2, <5>3, <3>2 DEF InStep, Fresh
        <4> QED BY <4>2, <4>3
      <3>3. UNCHANGED <<tile, keys, weights>> BY <1>3 DEF Score
      <3>4. \A v \in Ids : pc'[v] \in Using \union {"loaded"} => keys'[v] = tile'[v]
        BY <1>3, <3>3 DEF Score, InStep, SharedType, Fresh
      <3>5. \A v \in Ids : pc'[v] = "value" => weights'[v] = tile'[v]
        BY <1>3, <3>3 DEF Score, InStep, SharedType, Fresh
      <3> QED BY <3>2, <3>3, <3>4, <3>5 DEF Fresh, Region
    <2>4. Attended' BY <1>3 DEF Score, InStep, SharedType, Attended, Expected
    <2> QED BY <2>1, <2>2, <2>3, <2>4 DEF InStep
  <1>4. ASSUME NEW w \in Ids, Softmax(w) PROVE InStep'
    <2>1. SharedType' BY <1>4 DEF Softmax, InStep, SharedType
    <2>2. Together' BY <1>4 DEF Softmax, InStep, SharedType, Together
    <2>3. Fresh' BY <1>4 DEF Softmax, InStep, SharedType, Fresh, Region
    <2>4. Attended' BY <1>4 DEF Softmax, InStep, SharedType, Attended, Expected
    <2> QED BY <2>1, <2>2, <2>3, <2>4 DEF InStep
  <1>5. ASSUME NEW w \in Ids, Value(w) PROVE InStep'
    <2>1. /\ pc' = [pc EXCEPT ![w] = "ended"] /\ tile' = tile
          /\ scores' = scores /\ keys' = keys /\ weights' = weights
      BY <1>5 DEF Value, Barred, EndsTogether, AllKernels, gqa_q8_batch, gqa_q4_batch,
                  gqa_f16_batch, gqa_mma_f16_batch
    <2>2. TileStaged(w) BY <1>5 DEF Value, InStep, Together, Fresh, TileStaged
    <2>3. attended' = [attended EXCEPT ![w] = Append(@, tile[w])]
      BY <1>5, <2>2 DEF Value, InStep, Fresh
    <2>4. SharedType' BY <1>5, <2>1, <2>3 DEF InStep, SharedType
    <2>5. Together' BY <1>5, <2>1 DEF Value, InStep, SharedType, Together
    <2>6. Fresh' BY <1>5, <2>1 DEF Value, InStep, SharedType, Fresh, Region
    <2>7. Attended'
      <3>1. ASSUME NEW v \in Ids PROVE attended'[v] = [i \in 1..Expected(v)' |-> i - 1]
        <4>1. CASE v = w
          <5>1. tile[w] \in Nat /\ pc[w] = "value" BY <1>5 DEF Value, InStep, SharedType
          <5>2. attended[w] = [i \in 1..tile[w] |-> i - 1]
            BY <5>1 DEF InStep, Attended, Expected
          <5>3. attended'[w] = Append(attended[w], tile[w])
            BY <2>3 DEF InStep, SharedType
          <5>4. Expected(w)' = tile[w] + 1 BY <2>1 DEF Expected, InStep, SharedType
          <5> QED BY <4>1, <5>1, <5>2, <5>3, <5>4, AppendNext
        <4>2. CASE v # w
          BY <2>1, <2>3, <4>2 DEF InStep, SharedType, Attended, Expected
        <4> QED BY <4>1, <4>2
      <3> QED BY <3>1 DEF Attended
    <2> QED BY <2>4, <2>5, <2>6, <2>7 DEF InStep
  <1>6. ASSUME SyncLoaded PROVE InStep'
    <2>1. SharedType' BY <1>6 DEF SyncLoaded, InStep, SharedType
    <2>2. Together' BY <1>6 DEF SyncLoaded, InStep, SharedType, Together
    <2>3. Fresh' BY <1>6 DEF SyncLoaded, InStep, SharedType, Fresh
    <2>4. Attended' BY <1>6 DEF SyncLoaded, InStep, SharedType, Attended, Expected
    <2> QED BY <2>1, <2>2, <2>3, <2>4 DEF InStep
  <1>7. ASSUME SyncEnded PROVE InStep'
    <2>1. SharedType' BY <1>7 DEF SyncEnded, InStep, SharedType
    <2>2. Together' BY <1>7 DEF SyncEnded, InStep, SharedType, Together
    <2>3. Fresh' BY <1>7 DEF SyncEnded, InStep, SharedType, Fresh
    <2>4. Attended' BY <1>7 DEF SyncEnded, InStep, SharedType, Attended, Expected
    <2> QED BY <2>1, <2>2, <2>3, <2>4 DEF InStep
  <1>8. ASSUME UNCHANGED blockVars PROVE InStep'
    BY <1>8 DEF blockVars, InStep, SharedType, Together, Fresh, Attended, Expected, Region
  <1> QED BY <1>1, <1>2, <1>3, <1>4, <1>5, <1>6, <1>7, <1>8 DEF BlockNext, Finished

\* A launch begins with all warps at the first tile.
LEMMA LaunchInStep ==
    ASSUME Warps \in Nat, Fragments \in Nat, BlockInit
    PROVE  InStep
  BY DEF BlockInit, InStep, SharedType, Together, Fresh, Attended, Expected, Copying, Using

\* In every grouped attention kernel with a block barrier behind each tile, every
\* warp attends to each tile once and in order, whatever the number of query heads
\* that share the block, the length of the row and the way the warps overtake each
\* other: the barriers of gqa_q8_batch, gqa_q4_batch and gqa_f16_batch suffice.
THEOREM BarriersSuffice ==
    ASSUME Warps \in Nat, Fragments \in Nat, Tiles \in Nat
    PROVE  BlockSpec => []WarpsInStep
  <1>1. BlockInit => BarredInStep
    BY LaunchInStep DEF BarredInStep, Barred, BlockInit
  <1>2. BarredInStep /\ [BlockNext]_blockVars => BarredInStep'
    <2>1. [BlockNext]_blockVars => kernel' = kernel
      BY DEF BlockNext, blockVars, Load, Score, Softmax, Value, SyncLoaded, SyncEnded, Finished
    <2> QED BY <2>1, StepKeepsInStep DEF BarredInStep
  <1>3. BarredInStep => WarpsInStep
    BY DEF BarredInStep, WarpsInStep, AttendsInOrder, InStep, SharedType, Attended, Expected
  <1> QED BY <1>1, <1>2, <1>3, PTL DEF BlockSpec

---------------------------------------------------------------------------
(* Device argmax.                                                            *)

\* A set with zero and every successor holds all numbers.
LEMMA NatSet ==
    ASSUME NEW S, 0 \in S, \A n \in Nat : n \in S => n + 1 \in S
    PROVE  Nat \subseteq S
  <1> DEFINE R == {ss \in Nat \X Nat : ss[1] < ss[2]}
             T == Nat \ S
  <1>1. IsWellFoundedOn(R, Nat)
    BY NatLessThanWellFounded DEF OpToRel
  <1> SUFFICES ASSUME T # {} PROVE FALSE
    OBVIOUS
  <1> HIDE DEF R
  <1>2. PICK x \in T : \A y \in T : ~(<<y, x>> \in R)
    BY <1>1, WFMin
  <1>3. \A y \in T : ~(y < x)
    BY <1>2 DEF R
  <1>4. x \in Nat /\ x # 0 /\ x \notin S
    OBVIOUS
  <1>5. x - 1 \in Nat /\ x - 1 < x
    BY <1>4
  <1>6. x - 1 \in S
    BY <1>3, <1>5
  <1>7. x - 1 + 1 = x
    BY <1>4
  <1> QED BY <1>4, <1>5, <1>6, <1>7

\* What a comparison takes: a logit and its index, or the lowest pair.
Pairs == [value : Logits, index : Nat]

\* c comes from C, and nothing of C is preferred to it.
Wins(c, C) == c \in C /\ c.value # NaN /\ \A a \in C : ~Prefers(a, c)

LEMMA LowestPair == Lowest \in Pairs /\ Lowest.value # NaN
  BY SelectionAssumption DEF Lowest, Pairs, Logits, Floor, NaN

\* The better of two pairs is one of them and is not worse than either.
LEMMA BetterWins ==
    ASSUME NEW b \in Pairs, NEW x \in Pairs, b.value # NaN
    PROVE  /\ Better(b, x) \in {b, x}
           /\ Better(b, x).value # NaN
           /\ \A a \in Pairs : ~Prefers(a, b) => ~Prefers(a, Better(b, x))
           /\ ~Prefers(x, Better(b, x))
           /\ \A a \in Pairs : ~Prefers(a, x) /\ x.value # NaN => ~Prefers(a, Better(b, x))
  <1> USE DEF Pairs, Logits, Prefers, Better, NaN
  <1>1. b.value \in Int /\ x.value \in Int /\ b.index \in Int /\ x.index \in Int
    BY SelectionAssumption
  <1>2. \A a \in Pairs : a.value \in Int /\ a.index \in Int
    BY SelectionAssumption
  <1> HIDE DEF Pairs, Logits
  <1>3. CASE Prefers(x, b)
    BY <1>1, <1>2, <1>3
  <1>4. CASE ~Prefers(x, b)
    BY <1>1, <1>2, <1>4
  <1> QED BY <1>3, <1>4

\* A pair not preferred to one that is not preferred to a third is not preferred to it.
LEMMA NotPreferredTransitive ==
    ASSUME NEW a \in Pairs, NEW b \in Pairs, NEW c \in Pairs, b.value # NaN, c.value # NaN,
           ~Prefers(a, b), ~Prefers(b, c)
    PROVE  ~Prefers(a, c)
  <1>1. /\ a.value \in Int /\ b.value \in Int /\ c.value \in Int
        /\ a.index \in Int /\ b.index \in Int /\ c.index \in Int
    BY SelectionAssumption DEF Pairs, Logits, NaN
  <1> QED BY <1>1 DEF Prefers, NaN

\* A function with the steps of a recursion up to n.
Recursion(f, V, n, base, step) ==
    /\ f \in [0..n -> V]
    /\ f[0] = base
    /\ \A j \in 1..n : f[j] = step[j][f[j - 1]]

\* A recursion over 0..n with steps from V to V has a solution.
LEMMA RecursionExists ==
    ASSUME NEW V, NEW N \in Nat, NEW base \in V, NEW step \in [1..N -> [V -> V]]
    PROVE  \E f : Recursion(f, V, N, base, step)
  <1> DEFINE S == {m \in Nat : m <= N => \E f : Recursion(f, V, m, base, step)}
  <1>1. 0 \in S
    <2> DEFINE f == [j \in 0..0 |-> base]
    <2>1. Recursion(f, V, 0, base, step)
      BY DEF Recursion
    <2> HIDE DEF f
    <2> QED BY <2>1
  <1>2. ASSUME NEW m \in Nat, m \in S PROVE m + 1 \in S
    <2> SUFFICES ASSUME m + 1 <= N PROVE \E f : Recursion(f, V, m + 1, base, step)
      OBVIOUS
    <2>1. PICK f : Recursion(f, V, m, base, step)
      BY <1>2
    <2> DEFINE g == [j \in 0..(m + 1) |-> IF j <= m THEN f[j] ELSE step[m + 1][f[m]]]
    <2>2. f \in [0..m -> V] /\ f[0] = base /\ \A j \in 1..m : f[j] = step[j][f[j - 1]]
      BY <2>1 DEF Recursion
    <2>3. f[m] \in V /\ m + 1 \in 1..N
      BY <2>2
    <2>4. step[m + 1][f[m]] \in V
      BY <2>3
    <2>5. g \in [0..(m + 1) -> V] /\ g[0] = base
      BY <2>2, <2>4
    <2>6. ASSUME NEW j \in 1..(m + 1) PROVE g[j] = step[j][g[j - 1]]
      <3>1. CASE j <= m
        BY <2>2, <3>1
      <3>2. CASE j = m + 1
        BY <3>2
      <3> QED BY <3>1, <3>2
    <2>7. Recursion(g, V, m + 1, base, step)
      <3> HIDE DEF g
      <3> QED BY <2>5, <2>6 DEF Recursion
    <2> QED BY <2>7
  <1>3. Nat \subseteq S
    <2> HIDE DEF S
    <2> QED BY <1>1, <1>2, NatSet
  <1> QED BY <1>3

\* The running best of a sequence of pairs is the best of its elements and the
\* lowest pair.
LEMMA BestOfWins ==
    ASSUME NEW n \in Nat, NEW pairs \in [1..n -> Pairs]
    PROVE  Wins(BestOf(pairs), {Lowest} \union {pairs[j] : j \in 1..n})
  <1>1. Len(pairs) = n
    <2>1. pairs \in Seq(Pairs)
      BY SeqDef
    <2> QED BY <2>1, LenProperties
  <1> DEFINE V == {b \in Pairs : b.value # NaN}
             step == [j \in 1..n |-> [b \in V |-> Better(b, pairs[j])]]
             Running(f) == f = [j \in 0..n |-> IF j = 0 THEN Lowest ELSE Better(f[j - 1], pairs[j])]
             f == CHOOSE f : Running(f)
  <1>2. \E g : Running(g)
    <2>1. \A j \in 1..n, b \in V : Better(b, pairs[j]) \in V
      BY BetterWins
    <2>2. step \in [1..n -> [V -> V]]
      BY <2>1, Zenon
    <2>3. PICK g : Recursion(g, V, n, Lowest, step)
      <3> HIDE DEF step
      <3> QED BY <2>2, LowestPair, RecursionExists
    <2>4. g \in [0..n -> V] /\ g[0] = Lowest /\ \A j \in 1..n : g[j] = step[j][g[j - 1]]
      BY <2>3 DEF Recursion
    <2>5. \A j \in 1..n : g[j - 1] \in V
      <3> HIDE DEF V
      <3> QED BY <2>4
    <2>6. \A j \in 1..n : g[j] = Better(g[j - 1], pairs[j])
      BY <2>4, <2>5, Zenon
    <2>7. \A j \in 0..n : g[j] = IF j = 0 THEN Lowest ELSE Better(g[j - 1], pairs[j])
      BY <2>4, <2>6
    <2>8. g = [j \in 0..n |-> IF j = 0 THEN Lowest ELSE Better(g[j - 1], pairs[j])]
      <3> HIDE DEF V
      <3> QED BY <2>4, <2>7
    <2> QED BY <2>8
  <1>3. BestOf(pairs) = f[n]
    BY <1>1 DEF BestOf
  <1>4. f[0] = Lowest /\ \A j \in 1..n : f[j] = Better(f[j - 1], pairs[j])
    <2>1. Running(f)
      BY <1>2, Zenon
    <2> HIDE DEF f
    <2> QED BY <2>1
  <1> HIDE DEF f, V, step, Running
  <1> DEFINE C(m) == {Lowest} \union {pairs[j] : j \in 1..m}
             S == {m \in Nat : m <= n => Wins(f[m], C(m))}
  <1>5. 0 \in S
    <2>1. C(0) = {Lowest}
      OBVIOUS
    <2>2. ~Prefers(Lowest, Lowest)
      BY SelectionAssumption DEF Prefers, Lowest, Floor
    <2> QED BY <1>4, <2>1, <2>2, LowestPair DEF Wins
  <1>6. ASSUME NEW m \in Nat, m \in S PROVE m + 1 \in S
    <2> SUFFICES ASSUME m + 1 <= n PROVE Wins(f[m + 1], C(m + 1))
      OBVIOUS
    <2>1. Wins(f[m], C(m)) /\ m + 1 \in 1..n
      BY <1>6
    <2>2. f[m + 1] = Better(f[m], pairs[m + 1])
      BY <1>4, <2>1
    <2>3. C(m + 1) = C(m) \union {pairs[m + 1]}
      <3>1. 1..(m + 1) = 1..m \union {m + 1}
        OBVIOUS
      <3> QED BY <3>1
    <2>4. C(m) \subseteq Pairs /\ pairs[m + 1] \in Pairs
      BY <2>1, LowestPair
    <2> HIDE DEF C
    <2>5. f[m] \in Pairs /\ f[m].value # NaN /\ f[m] \in C(m) /\ \A a \in C(m) : ~Prefers(a, f[m])
      BY <2>1, <2>4 DEF Wins
    <2>6. /\ Better(f[m], pairs[m + 1]) \in {f[m], pairs[m + 1]}
          /\ Better(f[m], pairs[m + 1]).value # NaN
          /\ \A a \in Pairs : ~Prefers(a, f[m]) => ~Prefers(a, Better(f[m], pairs[m + 1]))
          /\ ~Prefers(pairs[m + 1], Better(f[m], pairs[m + 1]))
      BY <2>4, <2>5, BetterWins
    <2> QED BY ONLY <2>2, <2>3, <2>4, <2>5, <2>6, Zenon DEF Wins
  <1>7. Nat \subseteq S
    <2> HIDE DEF S
    <2> QED BY <1>5, <1>6, NatSet
  <1>8. Wins(f[n], C(n))
    BY <1>7
  <1> QED BY <1>3, <1>8

\* The strides halve, and no thread is left after as many steps as threads.
LEMMA StrideFacts ==
    /\ Stride \in [0..Threads -> Nat] /\ Stride[0] = Threads
    /\ \A n \in 1..Threads : Stride[n] = Stride[n - 1] \div 2
    /\ \A n \in 0..Threads : Stride[n] <= Threads - n
  <1> DEFINE step == [n \in 1..Threads |-> [x \in Nat |-> x \div 2]]
             Halving(f) == f = [n \in 0..Threads |-> IF n = 0 THEN Threads ELSE f[n - 1] \div 2]
             f == CHOOSE f : Halving(f)
  <1>1. Threads \in Nat /\ Threads > 0
    BY SelectionAssumption
  <1>2. \E g : Halving(g) /\ g \in [0..Threads -> Nat]
    <2>1. \A x \in Nat : x \div 2 \in Nat
      OBVIOUS
    <2>2. step \in [1..Threads -> [Nat -> Nat]]
      BY <2>1, Zenon
    <2>3. PICK g : Recursion(g, Nat, Threads, Threads, step)
      <3> HIDE DEF step
      <3> QED BY <1>1, <2>2, RecursionExists
    <2>4. g \in [0..Threads -> Nat] /\ g[0] = Threads /\ \A n \in 1..Threads : g[n] = step[n][g[n - 1]]
      BY <2>3 DEF Recursion
    <2>5. \A n \in 1..Threads : g[n - 1] \in Nat
      BY <1>1, <2>4
    <2>6. \A n \in 1..Threads : g[n] = g[n - 1] \div 2
      BY <2>4, <2>5, Zenon
    <2>7. \A n \in 0..Threads : g[n] = IF n = 0 THEN Threads ELSE g[n - 1] \div 2
      BY <1>1, <2>4, <2>6
    <2>8. g = [n \in 0..Threads |-> IF n = 0 THEN Threads ELSE g[n - 1] \div 2]
      BY <2>4, <2>7
    <2> QED BY <2>4, <2>8
  <1>3. Stride = f
    BY DEF Stride
  <1>4. Halving(f)
    BY <1>2, Zenon
  <1> HIDE DEF f
  <1>5. f[0] = Threads /\ \A n \in 1..Threads : f[n] = f[n - 1] \div 2
    BY <1>1, <1>4
  <1>6. DOMAIN f = 0..Threads /\ f = [n \in 0..Threads |-> f[n]]
    BY <1>4
  <1> HIDE DEF step, Halving
  <1> DEFINE S == {n \in Nat : n <= Threads => f[n] \in Nat /\ f[n] <= Threads - n}
  <1>7. 0 \in S
    BY <1>1, <1>5
  <1>8. ASSUME NEW n \in Nat, n \in S PROVE n + 1 \in S
    <2> SUFFICES ASSUME n + 1 <= Threads PROVE f[n + 1] \in Nat /\ f[n + 1] <= Threads - (n + 1)
      OBVIOUS
    <2>1. f[n] \in Nat /\ f[n] <= Threads - n /\ n + 1 \in 1..Threads
      BY <1>1, <1>8
    <2>2. f[n + 1] = f[n] \div 2
      BY <1>5, <2>1
    <2> QED BY <1>1, <2>1, <2>2
  <1>9. Nat \subseteq S
    <2> HIDE DEF S
    <2> QED BY <1>7, <1>8, NatSet
  <1>10. \A n \in 0..Threads : f[n] \in Nat /\ f[n] <= Threads - n
    BY <1>1, <1>9
  <1>11. f \in [0..Threads -> Nat]
    BY <1>6, <1>10
  <1> QED BY <1>3, <1>5, <1>10, <1>11

\* Pairs a comparison can leave behind.
Numbers == {b \in Pairs : b.value # NaN}

\* Every pair that no thread's best loses to is not preferred to a pair within
\* the stride.
Covered(shared, bests, stride) ==
    \A a \in Pairs, lane \in 0..(Threads - 1) :
        ~Prefers(a, bests[lane]) =>
            \E l \in 0..(Threads - 1) : (l = 0 \/ l < stride) /\ ~Prefers(a, shared[l])

\* A step of the reduction leaves pairs of the lanes, and covers from half of them.
LEMMA FoldedTyped ==
    ASSUME NEW D \in SUBSET Numbers, NEW shared \in [0..(Threads - 1) -> D],
           NEW stride \in Nat, 2 * stride <= Threads
    PROVE  Folded(shared, stride) \in [0..(Threads - 1) -> D]
  <1> DEFINE L == 0..(Threads - 1)
  <1>1. Threads \in Nat /\ Threads > 0
    BY SelectionAssumption
  <1>2. \A lane \in L : shared[lane] \in D /\ shared[lane] \in Pairs /\ shared[lane].value # NaN
    BY DEF Numbers
  <1>3. \A lane \in L : lane < stride => lane + stride \in L
    BY <1>1
  <1>4. \A lane \in L : lane < stride => Better(shared[lane], shared[lane + stride]) \in D
    <2> SUFFICES ASSUME NEW lane \in L, lane < stride
                 PROVE  Better(shared[lane], shared[lane + stride]) \in D
      OBVIOUS
    <2>1. lane + stride \in L
      BY <1>3
    <2>2. /\ shared[lane] \in D /\ shared[lane] \in Pairs /\ shared[lane].value # NaN
          /\ shared[lane + stride] \in D /\ shared[lane + stride] \in Pairs
      BY <1>2, <2>1
    <2>3. Better(shared[lane], shared[lane + stride]) \in {shared[lane], shared[lane + stride]}
      BY <2>2, BetterWins
    <2> QED BY <2>2, <2>3
  <1> QED BY <1>2, <1>4 DEF Folded

LEMMA FoldedCovers ==
    ASSUME NEW D \in SUBSET Numbers, NEW shared \in [0..(Threads - 1) -> D],
           NEW bests, NEW wide \in Nat, NEW stride \in Nat, wide <= Threads,
           stride = wide \div 2, wide > 1 => wide = 2 * stride,
           Covered(shared, bests, wide)
    PROVE  Covered(Folded(shared, stride), bests, stride)
  <1> DEFINE L == 0..(Threads - 1)
             after == Folded(shared, stride)
  <1>1. Threads \in Nat /\ Threads > 0
    BY SelectionAssumption
  <1>2. \A lane \in L : shared[lane] \in D /\ shared[lane] \in Pairs /\ shared[lane].value # NaN
    BY DEF Numbers
  <1>3. \A lane \in L : lane < stride => lane + stride \in L /\ lane + stride < wide
    BY <1>1
  <1>4. \A lane \in L : after[lane] = IF lane < stride THEN Better(shared[lane], shared[lane + stride])
                                     ELSE shared[lane]
    BY DEF Folded
  <1>5. ASSUME NEW lane \in L, lane < stride
        PROVE  /\ \A a \in Pairs : ~Prefers(a, shared[lane]) => ~Prefers(a, after[lane])
               /\ \A a \in Pairs : ~Prefers(a, shared[lane + stride]) => ~Prefers(a, after[lane])
    <2>1. lane + stride \in L
      BY <1>3, <1>5
    <2>2. after[lane] = Better(shared[lane], shared[lane + stride])
      BY <1>4, <1>5
    <2>3. /\ shared[lane] \in D /\ shared[lane] \in Pairs /\ shared[lane].value # NaN
          /\ shared[lane + stride] \in D /\ shared[lane + stride] \in Pairs
          /\ shared[lane + stride].value # NaN
      BY <1>2, <2>1
    <2> HIDE DEF after, L
    <2> QED BY ONLY <2>2, <2>3, BetterWins
  <1>6. Covered(after, bests, stride)
    <2> SUFFICES ASSUME NEW a \in Pairs, NEW lane \in L, ~Prefers(a, bests[lane])
                 PROVE  \E l \in L : (l = 0 \/ l < stride) /\ ~Prefers(a, after[l])
      BY DEF Covered
    <2>1. PICK l \in L : (l = 0 \/ l < wide) /\ ~Prefers(a, shared[l])
      BY DEF Covered
    <2> HIDE DEF after
    <2>2. CASE l < stride
      BY <1>5, <2>1, <2>2
    <2>3. CASE ~(l < stride) /\ l = 0
      <3>1. after[l] = shared[l]
        BY <1>4, <2>3
      <3> QED BY <2>1, <2>3, <3>1
    <2>4. CASE ~(l < stride) /\ l # 0
      <3>1. l < 2 * stride
        BY <2>1, <2>4
      <3>2. l - stride \in L /\ l - stride < stride /\ (l - stride) + stride = l
        BY <1>1, <2>4, <3>1
      <3>3. ~Prefers(a, after[l - stride])
        BY <1>5, <2>1, <3>2
      <3> QED BY <3>2, <3>3
    <2> QED BY <2>2, <2>3, <2>4
  <1> QED BY <1>6

\* What the halving reduction leaves in lane 0: one of the threads' bests, to
\* which nothing is preferred that some thread's best beats.
LEMMA ReducedWins ==
    ASSUME NEW row, NEW block, NEW grid, NEW D \in SUBSET Numbers,
           \A lane \in 0..(Threads - 1) : ThreadBest(row, block, lane, grid) \in D
    PROVE  /\ Reduced(row, block, grid) \in D
           /\ \A a \in Pairs, lane \in 0..(Threads - 1) :
                 ~Prefers(a, ThreadBest(row, block, lane, grid)) =>
                     ~Prefers(a, Reduced(row, block, grid))
  <1> DEFINE L == 0..(Threads - 1)
             bests == [lane \in L |-> ThreadBest(row, block, lane, grid)]
             V == [L -> D]
             step == [n \in 1..Threads |-> [sh \in V |-> Folded(sh, Stride[n])]]
             Steps(f) == f = [n \in 0..Threads |-> IF n = 0 THEN bests
                                                    ELSE Folded(f[n - 1], Stride[n])]
             f == CHOOSE f : Steps(f)
  <1>1. Threads \in Nat /\ Threads > 0
    BY SelectionAssumption
  <1>2. ASSUME NEW n \in 1..Threads
        PROVE  /\ Stride[n - 1] \in Nat /\ Stride[n - 1] <= Threads
               /\ Stride[n] \in Nat /\ Stride[n] = Stride[n - 1] \div 2
               /\ 2 * Stride[n] <= Threads
               /\ Stride[n - 1] > 1 => Stride[n - 1] = 2 * Stride[n]
    <2>1. n \in 0..Threads /\ n - 1 \in 0..Threads
      BY <1>1
    <2>2. Stride[n - 1] \in Nat /\ Stride[n] \in Nat
      BY <2>1, StrideFacts
    <2>3. Stride[n] = Stride[n - 1] \div 2 /\ Stride[n - 1] <= Threads - (n - 1)
      BY <2>1, StrideFacts
    <2>4. Stride[n - 1] > 1 => Stride[n - 1] = 2 * Stride[n]
      BY ThreadsAssumption
    <2>5. ASSUME NEW x \in Nat, NEW y \in Nat, y = x \div 2, x <= Threads - (n - 1)
          PROVE  x <= Threads /\ 2 * y <= Threads
      BY <1>1, <2>5
    <2> QED BY <2>2, <2>3, <2>4, <2>5
  <1>3. bests \in V
    OBVIOUS
  <1>4. step \in [1..Threads -> [V -> V]]
    <2>1. \A n \in 1..Threads, sh \in V : Folded(sh, Stride[n]) \in V
      BY <1>2, FoldedTyped
    <2> HIDE DEF V
    <2> QED BY <2>1, Zenon
  <1>5. \E g : Steps(g) /\ g \in [0..Threads -> V]
    <2> HIDE DEF V, bests
    <2>1. PICK g : Recursion(g, V, Threads, bests, step)
      <3> HIDE DEF step
      <3> QED BY <1>1, <1>3, <1>4, RecursionExists
    <2>2. g \in [0..Threads -> V] /\ g[0] = bests /\ \A n \in 1..Threads : g[n] = step[n][g[n - 1]]
      BY <2>1 DEF Recursion
    <2>3. \A n \in 1..Threads : g[n - 1] \in V
      BY <1>1, <2>2
    <2>4. \A n \in 1..Threads : g[n] = Folded(g[n - 1], Stride[n])
      BY <2>2, <2>3, Zenon
    <2>5. \A n \in 0..Threads : g[n] = IF n = 0 THEN bests ELSE Folded(g[n - 1], Stride[n])
      BY <1>1, <2>2, <2>4
    <2>6. g = [n \in 0..Threads |-> IF n = 0 THEN bests ELSE Folded(g[n - 1], Stride[n])]
      BY <2>2, <2>5
    <2> QED BY <2>2, <2>6
  <1>6. Reduced(row, block, grid) = f[Threads][0]
    BY DEF Reduced
  <1>7. Steps(f)
    BY <1>5, Zenon
  <1> HIDE DEF f
  <1>8. f[0] = bests /\ \A n \in 1..Threads : f[n] = Folded(f[n - 1], Stride[n])
    <2> HIDE DEF bests
    <2> QED BY <1>1, <1>7
  <1> DEFINE S == {n \in Nat : n <= Threads => f[n] \in V /\ Covered(f[n], bests, Stride[n])}
  <1> HIDE DEF step, Steps
  <1>9. 0 \in S
    <2>1. Stride[0] = Threads
      BY StrideFacts
    <2>2. Covered(bests, bests, Threads)
      BY <1>1 DEF Covered
    <2> HIDE DEF bests, V
    <2> QED BY <1>3, <1>8, <2>1, <2>2
  <1>10. ASSUME NEW n \in Nat, n \in S PROVE n + 1 \in S
    <2> HIDE DEF bests
    <2> SUFFICES ASSUME n + 1 <= Threads
                 PROVE  f[n + 1] \in V /\ Covered(f[n + 1], bests, Stride[n + 1])
      OBVIOUS
    <2>1. f[n] \in V /\ Covered(f[n], bests, Stride[n]) /\ n + 1 \in 1..Threads /\ (n + 1) - 1 = n
      BY <1>1, <1>10
    <2>2. f[n + 1] = Folded(f[n], Stride[n + 1])
      BY <1>8, <2>1
    <2>3. /\ Stride[n] \in Nat /\ Stride[n] <= Threads
          /\ Stride[n + 1] \in Nat /\ Stride[n + 1] = Stride[n] \div 2
          /\ 2 * Stride[n + 1] <= Threads
          /\ Stride[n] > 1 => Stride[n] = 2 * Stride[n + 1]
      BY <1>2, <2>1
    <2>4. Folded(f[n], Stride[n + 1]) \in V
      BY <2>1, <2>3, FoldedTyped
    <2>5. Covered(Folded(f[n], Stride[n + 1]), bests, Stride[n + 1])
      BY <2>1, <2>3, FoldedCovers
    <2> QED BY <2>2, <2>4, <2>5
  <1>11. Nat \subseteq S
    <2> HIDE DEF S
    <2> QED BY <1>9, <1>10, NatSet
  <1>12. f[Threads] \in V /\ Covered(f[Threads], bests, Stride[Threads])
    BY <1>1, <1>11
  <1>13. Stride[Threads] \in Nat /\ Stride[Threads] <= 0
    <2>1. Threads \in 0..Threads /\ Threads - Threads = 0
      BY <1>1
    <2> QED BY <2>1, StrideFacts
  <1>14. f[Threads][0] \in D
    BY <1>1, <1>12
  <1>15. ASSUME NEW a \in Pairs, NEW lane \in L, ~Prefers(a, ThreadBest(row, block, lane, grid))
         PROVE  ~Prefers(a, f[Threads][0])
    <2>1. ~Prefers(a, bests[lane])
      BY <1>15
    <2> HIDE DEF bests, V
    <2>2. PICK l \in L : (l = 0 \/ l < Stride[Threads]) /\ ~Prefers(a, f[Threads][l])
      BY <1>12, <2>1 DEF Covered
    <2>3. l = 0
      BY <1>1, <1>13, <2>2
    <2> QED BY <2>2, <2>3
  <1> QED BY <1>6, <1>14, <1>15

\* The pairs of a row.
PairsOf(row) == {[value |-> At(row, i), index |-> i] : i \in IndicesOf(row)}

\* Rows the wrapper accepts.
ArgmaxRows == UNION {[1..n -> Logits] : n \in 1..Elements}

\* The pairs of a row are pairs; the row is not empty and has indices below NoIndex.
LEMMA RowFacts ==
    ASSUME NEW row \in ArgmaxRows
    PROVE  /\ Len(row) \in Nat /\ 1 <= Len(row) /\ Len(row) <= NoIndex
           /\ \A i \in IndicesOf(row) : At(row, i) \in Logits /\ i \in Nat /\ i < NoIndex
           /\ PairsOf(row) \subseteq Pairs
  <1>1. PICK n \in 1..Elements : row \in [1..n -> Logits]
    BY DEF ArgmaxRows
  <1>2. n \in Nat /\ 1 <= n /\ n <= NoIndex /\ NoIndex \in Nat
    BY SelectionAssumption
  <1>3. row \in Seq(Logits)
    BY <1>1, <1>2, SeqDef
  <1>4. Len(row) = n
    BY <1>1, <1>2, <1>3, LenProperties
  <1>5. \A i \in IndicesOf(row) : At(row, i) \in Logits /\ i \in Nat /\ i < NoIndex
    <2> SUFFICES ASSUME NEW i \in IndicesOf(row) PROVE row[i + 1] \in Logits /\ i \in Nat /\ i < NoIndex
      BY DEF At
    <2>1. i \in Nat /\ i < n /\ i + 1 \in 1..n
      BY <1>2, <1>4 DEF IndicesOf
    <2> QED BY <1>1, <1>2, <2>1
  <1>6. PairsOf(row) \subseteq Pairs
    BY <1>5 DEF PairsOf, Pairs
  <1> QED BY <1>2, <1>4, <1>5, <1>6

\* What a thread walks over are pairs of the row, filled up with the lowest pair.
LEMMA WalkTyped ==
    ASSUME NEW row \in ArgmaxRows, NEW block \in Nat, NEW lane \in Nat, NEW grid \in Nat \ {0}
    PROVE  LET m == ((Len(row) - 1) \div (grid * Threads)) + 1
               walk == Walk(row, block, lane, grid)
           IN  /\ m \in Nat
               /\ walk \in [1..m -> Pairs]
               /\ \A j \in 1..m : walk[j] \in {Lowest} \union PairsOf(row)
  <1> DEFINE w == grid * Threads
             m == ((Len(row) - 1) \div w) + 1
             walk == Walk(row, block, lane, grid)
             at(j) == block * Threads + lane + (j - 1) * w
  <1>1. Threads \in Nat \ {0} /\ Len(row) - 1 \in Nat
    BY SelectionAssumption, RowFacts
  <1>2. w \in Nat \ {0}
    BY <1>1
  <1>3. m \in Nat
    <2> HIDE DEF w
    <2> QED BY <1>1, <1>2
  <1>4. ASSUME NEW j \in 1..m PROVE at(j) \in Nat
    <2>1. block * Threads \in Nat
      BY <1>1
    <2>2. j - 1 \in Nat
      BY <1>3
    <2>3. (j - 1) * w \in Nat
      <3> HIDE DEF w, m
      <3> QED BY <1>2, <2>2
    <2> HIDE DEF w, m
    <2> QED BY <2>1, <2>3
  <1>5. walk = [j \in 1..m |-> IF at(j) < Len(row) THEN [value |-> At(row, at(j)), index |-> at(j)]
                                ELSE Lowest]
    BY DEF Walk
  <1> HIDE DEF m, w, at, walk
  <1>6. ASSUME NEW j \in 1..m PROVE walk[j] \in {Lowest} \union PairsOf(row)
    <2>1. walk[j] = IF at(j) < Len(row) THEN [value |-> At(row, at(j)), index |-> at(j)] ELSE Lowest
      BY <1>5
    <2>2. at(j) < Len(row) => at(j) \in IndicesOf(row)
      BY <1>1, <1>4 DEF IndicesOf
    <2> QED BY <2>1, <2>2 DEF PairsOf
  <1>7. PairsOf(row) \subseteq Pairs /\ Lowest \in Pairs
    BY RowFacts, LowestPair
  <1>8. walk \in [1..m -> Pairs]
    <2>1. \A j \in 1..m : walk[j] \in Pairs
      BY <1>6, <1>7
    <2>2. walk = [j \in 1..m |-> walk[j]]
      BY <1>5
    <2> QED BY <2>1, <2>2
  <1> QED BY <1>3, <1>6, <1>8 DEF m, w, walk

\* The best a thread leaves.
LEMMA ThreadWins ==
    ASSUME NEW row \in ArgmaxRows, NEW block \in Nat, NEW lane \in Nat, NEW grid \in Nat \ {0}
    PROVE  LET best == ThreadBest(row, block, lane, grid)
               walk == Walk(row, block, lane, grid)
           IN  /\ best \in {Lowest} \union PairsOf(row)
               /\ best.value # NaN
               /\ ~Prefers(Lowest, best)
               /\ \A j \in 1..(((Len(row) - 1) \div (grid * Threads)) + 1) : ~Prefers(walk[j], best)
  <1> DEFINE m == ((Len(row) - 1) \div (grid * Threads)) + 1
             walk == Walk(row, block, lane, grid)
             C == {Lowest} \union {walk[j] : j \in 1..m}
  <1>1. m \in Nat /\ walk \in [1..m -> Pairs] /\ \A j \in 1..m : walk[j] \in {Lowest} \union PairsOf(row)
    BY WalkTyped
  <1> HIDE DEF m, walk
  <1>2. Wins(BestOf(walk), C)
    BY <1>1, BestOfWins
  <1>3. ThreadBest(row, block, lane, grid) = BestOf(walk)
    BY DEF ThreadBest, walk
  <1>4. C \subseteq {Lowest} \union PairsOf(row) /\ Lowest \in C /\ \A j \in 1..m : walk[j] \in C
    BY <1>1
  <1> HIDE DEF C
  <1> QED BY <1>2, <1>3, <1>4 DEF Wins, m, walk

\* Every element of the row is walked over by some thread of some block.
LEMMA EveryElementWalked ==
    ASSUME NEW row \in ArgmaxRows, NEW grid \in Nat \ {0}, NEW i \in IndicesOf(row)
    PROVE  \E block \in 0..(grid - 1), lane \in 0..(Threads - 1) :
           \E j \in 1..(((Len(row) - 1) \div (grid * Threads)) + 1) :
               Walk(row, block, lane, grid)[j] = [value |-> At(row, i), index |-> i]
  <1> DEFINE w == grid * Threads
             m == ((Len(row) - 1) \div w) + 1
             q == i \div Threads
             lane == i % Threads
             p == q \div grid
             block == q % grid
  <1>1. Threads \in Nat \ {0} /\ Len(row) - 1 \in Nat /\ i \in Nat /\ i <= Len(row) - 1
    BY SelectionAssumption, RowFacts DEF IndicesOf
  <1>2. /\ q \in Int /\ lane \in Int /\ i = Threads * q + lane
        /\ 0 <= lane /\ lane < Threads
    BY <1>1, Division
  <1>3. q \in Nat
    BY <1>1
  <1> HIDE DEF q, lane
  <1>4. /\ p \in Int /\ block \in Int /\ q = grid * p + block
        /\ 0 <= block /\ block < grid
    BY <1>3, Division
  <1>5. p \in Nat
    BY <1>3
  <1> HIDE DEF p, block
  <1>6. w \in Nat \ {0}
    BY <1>1
  <1>7. i = block * Threads + lane + p * w
    <2>1. Threads * (grid * p + block) = block * Threads + p * (grid * Threads)
      BY <1>1, <1>4
    <2>2. i = Threads * (grid * p + block) + lane
      BY ONLY <1>2, <1>4, Zenon
    <2>3. i = (block * Threads + p * w) + lane
      BY ONLY <2>1, <2>2, Zenon
    <2>4. block * Threads \in Int /\ p * w \in Int
      BY <1>1, <1>4, <1>5
    <2> HIDE DEF w
    <2> QED BY <1>2, <2>3, <2>4
  <1>8. p * w <= Len(row) - 1
    <2>1. block * Threads \in Nat /\ p * w \in Nat
      BY <1>1, <1>4, <1>5
    <2> HIDE DEF w
    <2> QED BY <1>1, <1>2, <1>7, <2>1
  <1>9. p <= (Len(row) - 1) \div w
    <2> HIDE DEF w
    <2>1. w * p <= Len(row) - 1
      BY <1>5, <1>6, <1>8
    <2> DEFINE a == Len(row) - 1
    <2>2. a \in Int /\ w * p <= a
      BY <1>1, <2>1
    <2> HIDE DEF a
    <2>3. p <= a \div w
      BY ONLY <1>5, <1>6, <2>2, QuotientAtLeast
    <2> QED BY <2>3 DEF a
  <1>10. m \in Int /\ p + 1 \in 1..m /\ (p + 1) - 1 = p
    <2>1. (Len(row) - 1) \div w \in Int
      <3> HIDE DEF w
      <3> QED BY <1>1, <1>6
    <2> HIDE DEF w
    <2> QED BY <1>5, <1>9, <2>1
  <1>11. Walk(row, block, lane, grid)[p + 1] =
           IF block * Threads + lane + p * w < Len(row)
           THEN [value |-> At(row, block * Threads + lane + p * w),
                 index |-> block * Threads + lane + p * w] ELSE Lowest
    <2> HIDE DEF p, block, lane
    <2> QED BY <1>10 DEF Walk
  <1>12. Walk(row, block, lane, grid)[p + 1] = [value |-> At(row, i), index |-> i]
    <2> HIDE DEF w
    <2> QED BY <1>1, <1>7, <1>11
  <1>13. block \in 0..(grid - 1) /\ lane \in 0..(Threads - 1)
    BY <1>1, <1>2, <1>4
  <1> QED BY <1>10, <1>12, <1>13

\* The grid of a row has a block.
LEMMA BlocksOfRow ==
    ASSUME NEW row \in ArgmaxRows
    PROVE  ArgmaxBlocks(row) \in Nat \ {0}
  <1>1. Threads \in Nat \ {0} /\ Len(row) \in Nat /\ 1 <= Len(row) /\ ArgmaxGrid \in Nat \ {0}
    BY SelectionAssumption, RowFacts
  <1>2. (Len(row) + Threads - 1) \div Threads >= 1
    BY <1>1, QuotientAtLeast
  <1>3. (Len(row) + Threads - 1) \div Threads \in Int
    BY <1>1
  <1> QED BY <1>1, <1>2, <1>3 DEF ArgmaxBlocks

\* The host's pick among the blocks' candidates is the best of the row.
LEMMA RowWins ==
    ASSUME NEW row \in ArgmaxRows
    PROVE  Wins(BestOf(qwen_argmax_rows_partials(row)), {Lowest} \union PairsOf(row))
  <1> DEFINE grid == ArgmaxBlocks(row)
             partials == qwen_argmax_rows_partials(row)
             C == {Lowest} \union PairsOf(row)
             D == {c \in C : c.value # NaN}
             L == 0..(Threads - 1)
  <1>1. grid \in Nat \ {0} /\ Threads \in Nat \ {0}
    BY BlocksOfRow, SelectionAssumption
  <1>2. C \subseteq Pairs /\ D \in SUBSET Numbers
    BY RowFacts, LowestPair DEF Numbers
  <1>3. partials = [b \in 1..grid |-> Reduced(row, b - 1, grid)]
    BY DEF qwen_argmax_rows_partials
  <1> HIDE DEF grid, partials, C
  <1>4. ASSUME NEW b \in 1..grid
        PROVE  /\ Reduced(row, b - 1, grid) \in D
               /\ \A a \in Pairs, lane \in L :
                     ~Prefers(a, ThreadBest(row, b - 1, lane, grid)) =>
                         ~Prefers(a, Reduced(row, b - 1, grid))
    <2>1. b - 1 \in Nat
      BY <1>1
    <2>2. \A lane \in L : ThreadBest(row, b - 1, lane, grid) \in D
      <3> SUFFICES ASSUME NEW lane \in L PROVE ThreadBest(row, b - 1, lane, grid) \in D
        OBVIOUS
      <3>1. lane \in Nat
        BY <1>1
      <3> QED BY <1>1, <2>1, <3>1, ThreadWins DEF C
    <2> HIDE DEF D
    <2> QED BY <1>2, <2>2, ReducedWins
  <1>5. partials \in [1..grid -> Pairs]
    BY <1>2, <1>3, <1>4
  <1>6. Wins(BestOf(partials), {Lowest} \union {partials[b] : b \in 1..grid})
    BY <1>1, <1>5, BestOfWins
  <1>7. BestOf(partials) \in C
    <2>1. \A b \in 1..grid : partials[b] \in C
      BY <1>3, <1>4
    <2>2. Lowest \in C
      BY DEF C
    <2> QED BY <1>6, <2>1, <2>2 DEF Wins
  <1>8. BestOf(partials).value # NaN /\ ~Prefers(Lowest, BestOf(partials))
    BY <1>6 DEF Wins
  <1>9. ASSUME NEW i \in IndicesOf(row)
        PROVE  ~Prefers([value |-> At(row, i), index |-> i], BestOf(partials))
    <2> DEFINE a == [value |-> At(row, i), index |-> i]
    <2>1. a \in C
      BY DEF C, PairsOf
    <2>2. PICK block \in 0..(grid - 1), lane \in L :
             \E j \in 1..(((Len(row) - 1) \div (grid * Threads)) + 1) :
                 Walk(row, block, lane, grid)[j] = a
      BY <1>1, EveryElementWalked
    <2> HIDE DEF a
    <2>3. block \in Nat /\ lane \in Nat /\ block + 1 \in 1..grid /\ (block + 1) - 1 = block
      BY <1>1
    <2>4. ~Prefers(a, ThreadBest(row, block, lane, grid))
      BY <1>1, <2>2, <2>3, ThreadWins
    <2>5. ~Prefers(a, Reduced(row, block, grid))
      BY <1>2, <1>4, <2>1, <2>3, <2>4
    <2>6. partials[block + 1] = Reduced(row, block, grid)
      BY <1>3, <2>3
    <2>7. /\ Reduced(row, block, grid) \in Pairs /\ Reduced(row, block, grid).value # NaN
          /\ ~Prefers(Reduced(row, block, grid), BestOf(partials))
      BY <1>2, <1>4, <1>6, <2>3, <2>6 DEF Wins
    <2>8. BestOf(partials) \in Pairs /\ BestOf(partials).value # NaN /\ a \in Pairs
      BY <1>2, <1>7, <1>8, <2>1
    <2>9. ~Prefers(a, BestOf(partials))
      BY <2>5, <2>7, <2>8, NotPreferredTransitive
    <2> QED BY <2>9 DEF a
  <1>10. \A c \in C : ~Prefers(c, BestOf(partials))
    BY <1>8, <1>9 DEF C, PairsOf
  <1> QED BY <1>7, <1>8, <1>10 DEF Wins, C, partials

\* The index of the best pair is that of the row's first largest number.
LEMMA RowArgmax ==
    ASSUME NEW row \in ArgmaxRows
    PROVE  argmax_rows_device(qwen_argmax_rows_partials(row)) =
               IF HasNumber(row) THEN Maxloc(row) ELSE NoIndex
  <1> DEFINE best == BestOf(qwen_argmax_rows_partials(row))
  <1>1. Wins(best, {Lowest} \union PairsOf(row))
    BY RowWins
  <1> HIDE DEF best
  <1>2. argmax_rows_device(qwen_argmax_rows_partials(row)) = best.index
    BY DEF argmax_rows_device, best
  <1>3. NoIndex \in Nat /\ TopValue \in Nat
    BY SelectionAssumption
  <1>4. \A i \in IndicesOf(row) : At(row, i) \in Logits /\ i \in Nat /\ i < NoIndex
    BY RowFacts
  <1>5. \A i \in IndicesOf(row) : At(row, i) \in Int /\ -2 <= At(row, i)
    BY <1>3, <1>4 DEF Logits, NaN
  <1>6. \A i \in IndicesOf(row) : ~Prefers([value |-> At(row, i), index |-> i], best)
    BY <1>1 DEF Wins, PairsOf
  <1>7. ~Prefers(Lowest, best) /\ best.value # NaN
    BY <1>1 DEF Wins
  <1>8. CASE best = Lowest
    <2>1. best.value = 0 /\ best.index = NoIndex
      BY <1>8 DEF Lowest, Floor
    <2>2. ASSUME NEW i \in IndicesOf(row) PROVE ~(At(row, i) >= Floor)
      BY <1>3, <1>4, <1>5, <1>6, <2>1 DEF Prefers, NaN, Floor
    <2>3. ~HasNumber(row)
      BY <2>2 DEF HasNumber
    <2> QED BY <1>2, <2>1, <2>3
  <1>9. CASE best # Lowest
    <2>1. PICK i \in IndicesOf(row) : best = [value |-> At(row, i), index |-> i]
      BY <1>1, <1>9 DEF Wins, PairsOf
    <2>2. best.value = At(row, i) /\ best.index = i
      BY <2>1
    <2>3. At(row, i) # NaN /\ At(row, i) >= Floor
      BY <1>3, <1>4, <1>5, <1>7, <2>2 DEF Prefers, Lowest, NaN, Floor
    <2>4. HasNumber(row)
      BY <2>3 DEF HasNumber
    <2>5. \A j \in IndicesOf(row) : At(row, j) < At(row, i) \/ (At(row, j) = At(row, i) /\ i <= j)
      <3> SUFFICES ASSUME NEW j \in IndicesOf(row)
                   PROVE  At(row, j) < At(row, i) \/ (At(row, j) = At(row, i) /\ i <= j)
        OBVIOUS
      <3>1. ~Prefers([value |-> At(row, j), index |-> j], best)
        BY <1>6
      <3> QED BY <1>4, <1>5, <2>2, <2>3, <3>1 DEF Prefers, NaN, Floor
    <2>6. ASSUME NEW l \in IndicesOf(row),
                 \A j \in IndicesOf(row) : At(row, j) < At(row, l) \/ (At(row, j) = At(row, l) /\ l <= j)
          PROVE  l = i
      BY <1>4, <1>5, <2>5, <2>6
    <2>7. Maxloc(row) = i
      BY <2>3, <2>5, <2>6 DEF Maxloc
    <2> QED BY <1>2, <2>2, <2>4, <2>7
  <1> QED BY <1>8, <1>9

\* What the proof keeps: typed rows, and the blocks' candidates of each of them.
ArgmaxInv ==
    /\ op.name = "argmax" => \A r \in DOMAIN op.rows : op.rows[r] \in ArgmaxRows
    /\ selection = "partials" /\ op.name = "argmax" =>
           partial = [r \in DOMAIN op.rows |-> qwen_argmax_rows_partials(op.rows[r])]
    /\ ArgmaxExact

\* For every row length, number of threads and grid: device argmax, by strided
\* threads, halving reduction and the host's scan of the blocks, finds the first
\* of the largest logits (fortai_cuda_qwen35_argmax_rows_device).
THEOREM DeviceArgmax == SelectSpec => []ArgmaxExact
  <1>1. SelectInit => ArgmaxInv
    BY DEF SelectInit, ArgmaxInv, ArgmaxExact, NoSelection
  <1>2. ArgmaxInv /\ [SelectNext]_selectVars => ArgmaxInv'
    <2> SUFFICES ASSUME ArgmaxInv, [SelectNext]_selectVars PROVE ArgmaxInv'
      OBVIOUS
    <2>1. CASE Select
      <3>1. PICK count \in 1..MaxRows, n \in 1..Elements, name \in {"argmax", "topk"} :
            \E rows \in [1..count -> [1..n -> Logits]], k \in 1..TopKMax :
               op' = [name |-> name, rows |-> rows, k |-> k]
        BY <2>1, Zenon DEF Select
      <3>2. PICK rows \in [1..count -> [1..n -> Logits]], k \in 1..TopKMax :
               op' = [name |-> name, rows |-> rows, k |-> k]
        BY <3>1
      <3>3. \A r \in DOMAIN rows : rows[r] \in ArgmaxRows
        BY DEF ArgmaxRows
      <3>4. op'.rows = rows /\ selection' = "launched"
        BY <2>1, <3>2 DEF Select
      <3> QED BY <3>3, <3>4 DEF ArgmaxInv, ArgmaxExact
    <2>2. CASE ArgmaxPartials
      BY <2>2 DEF ArgmaxPartials, ArgmaxInv, ArgmaxExact
    <2>3. CASE ArgmaxHost
      <3>1. /\ op' = op /\ selection' = "done" /\ op.name = "argmax" /\ selection = "partials"
            /\ result' = [r \in DOMAIN op.rows |-> <<argmax_rows_device(partial[r])>>]
        BY <2>3 DEF ArgmaxHost
      <3>2. /\ \A r \in DOMAIN op.rows : op.rows[r] \in ArgmaxRows
            /\ partial = [r \in DOMAIN op.rows |-> qwen_argmax_rows_partials(op.rows[r])]
        BY <3>1 DEF ArgmaxInv
      <3>3. ASSUME NEW r \in DOMAIN op.rows
            PROVE  result'[r] = <<IF HasNumber(op.rows[r]) THEN Maxloc(op.rows[r]) ELSE NoIndex>>
        <4>1. result'[r] = <<argmax_rows_device(qwen_argmax_rows_partials(op.rows[r]))>>
          BY <3>1, <3>2
        <4> QED BY <3>2, <4>1, RowArgmax
      <3>4. ArgmaxExact'
        BY <3>1, <3>3 DEF ArgmaxExact
      <3> QED BY <3>1, <3>2, <3>4 DEF ArgmaxInv
    <2>4. CASE TopkPartials
      BY <2>4 DEF TopkPartials, ArgmaxInv, ArgmaxExact
    <2>5. CASE TopkFinalize
      BY <2>5 DEF TopkFinalize, ArgmaxInv, ArgmaxExact
    <2>6. CASE TopkStreams
      BY <2>6 DEF TopkStreams, ArgmaxInv, ArgmaxExact
    <2>7. CASE SelectReturn
      BY <2>7 DEF SelectReturn, ArgmaxInv, ArgmaxExact, NoSelection
    <2>8. CASE UNCHANGED selectVars
      BY <2>8 DEF selectVars, ArgmaxInv, ArgmaxExact
    <2> QED BY <2>1, <2>2, <2>3, <2>4, <2>5, <2>6, <2>7, <2>8 DEF SelectNext
  <1>3. ArgmaxInv => ArgmaxExact
    BY DEF ArgmaxInv
  <1> QED BY <1>1, <1>2, <1>3, PTL DEF SelectSpec

---------------------------------------------------------------------------
(* Device top-k: sorted sequences.                                           *)

\* What a block sorts.
Ranked == [key : Int \X Int, index : Int]

\* Above orders the keys.
LEMMA AboveFacts ==
    ASSUME NEW a \in Ranked, NEW b \in Ranked, NEW c \in Ranked
    PROVE  /\ ~Above(a, a)
           /\ ~Above(a, b) \/ ~Above(b, a)
           /\ ~Above(a, b) /\ ~Above(b, c) => ~Above(a, c)
  <1>1. /\ a.key[1] \in Int /\ a.key[2] \in Int
        /\ b.key[1] \in Int /\ b.key[2] \in Int
        /\ c.key[1] \in Int /\ c.key[2] \in Int
    BY DEF Ranked
  <1> QED BY <1>1 DEF Above

\* A finite set that is not empty has an element above none of the others.
LEMMA LeastExists ==
    ASSUME NEW S \in SUBSET Ranked, IsFiniteSet(S), S # {}
    PROVE  \E a \in S : \A x \in S : ~Above(a, x)
  <1> DEFINE Least(T) == \E a \in T : \A x \in T : ~Above(a, x)
             N == {m \in Nat : \A T \in SUBSET S : Cardinality(T) = m + 1 => Least(T)}
  <1>1. \A T \in SUBSET S : IsFiniteSet(T)
    BY FS_Subset
  <1>2. 0 \in N
    <2> SUFFICES ASSUME NEW T \in SUBSET S, Cardinality(T) = 1 PROVE Least(T)
      OBVIOUS
    <2>1. PICK a : T = {a}
      BY <1>1, FS_Singleton
    <2> QED BY <2>1, AboveFacts
  <1>3. ASSUME NEW m \in Nat, m \in N PROVE m + 1 \in N
    <2> SUFFICES ASSUME NEW T \in SUBSET S, Cardinality(T) = (m + 1) + 1 PROVE Least(T)
      OBVIOUS
    <2>1. T # {}
      BY <1>1, FS_EmptySet
    <2>2. PICK x \in T : TRUE
      BY <2>1
    <2>3. Cardinality(T \ {x}) = m + 1
      <3>1. Cardinality(T \ {x}) = Cardinality(T) - 1
        BY <1>1, <2>2, FS_RemoveElement, Zenon
      <3>2. Cardinality(T) - 1 = m + 1
        OBVIOUS
      <3> QED BY <3>1, <3>2
    <2>4. Least(T \ {x})
      BY <1>3, <2>3
    <2>5. PICK a \in T \ {x} : \A y \in T \ {x} : ~Above(a, y)
      BY <2>4
    <2>6. a \in Ranked /\ x \in Ranked /\ \A y \in T : y \in Ranked
      BY <2>2
    <2>7. CASE ~Above(a, x)
      BY <2>5, <2>7
    <2>8. CASE Above(a, x)
      <3>1. ~Above(x, a)
        BY <2>6, <2>8, AboveFacts
      <3>2. \A y \in T : ~Above(x, y)
        BY <2>5, <2>6, <3>1, AboveFacts
      <3> QED BY <2>2, <3>2
    <2> QED BY <2>7, <2>8
  <1>4. Nat \subseteq N
    <2> HIDE DEF N
    <2> QED BY <1>2, <1>3, NatSet
  <1>5. Cardinality(S) \in Nat /\ Cardinality(S) # 0
    BY FS_CardinalityType, FS_EmptySet
  <1>6. Cardinality(S) - 1 \in N /\ (Cardinality(S) - 1) + 1 = Cardinality(S)
    <2> HIDE DEF N
    <2> QED BY <1>4, <1>5
  <1> QED BY <1>6

\* s goes through m different elements of T, none above the one before it.
InOrder(s, m, T) ==
    /\ s \in [1..m -> T]
    /\ \A i, j \in 1..m : i # j => s[i] # s[j]
    /\ \A i \in 1..(m - 1) : ~Above(s[i + 1], s[i])

\* A finite set can be put in order.
LEMMA OrderExists ==
    ASSUME NEW S \in SUBSET Ranked, IsFiniteSet(S)
    PROVE  \E s : InOrder(s, Cardinality(S), S)
  <1> DEFINE N == {m \in Nat : \A T \in SUBSET S : Cardinality(T) = m => \E s : InOrder(s, m, T)}
  <1>1. \A T \in SUBSET S : IsFiniteSet(T)
    BY FS_Subset
  <1>2. 0 \in N
    <2> SUFFICES ASSUME NEW T \in SUBSET S PROVE \E s : InOrder(s, 0, T)
      OBVIOUS
    <2>1. InOrder([i \in 1..0 |-> i], 0, T)
      BY DEF InOrder
    <2> QED BY <2>1
  <1>3. ASSUME NEW m \in Nat, m \in N PROVE m + 1 \in N
    <2> SUFFICES ASSUME NEW T \in SUBSET S, Cardinality(T) = m + 1 PROVE \E s : InOrder(s, m + 1, T)
      OBVIOUS
    <2>1. T # {} /\ T \in SUBSET Ranked
      BY <1>1, FS_EmptySet
    <2>2. PICK a \in T : \A x \in T : ~Above(a, x)
      BY <1>1, <2>1, LeastExists
    <2>3. Cardinality(T \ {a}) = m
      <3>1. Cardinality(T \ {a}) = Cardinality(T) - 1
        BY <1>1, <2>2, FS_RemoveElement, Zenon
      <3>2. Cardinality(T) - 1 = m
        OBVIOUS
      <3> QED BY <3>1, <3>2
    <2>4. PICK f : InOrder(f, m, T \ {a})
      BY <1>3, <2>3
    <2>5. /\ f \in [1..m -> T \ {a}]
          /\ \A i, j \in 1..m : i # j => f[i] # f[j]
          /\ \A i \in 1..(m - 1) : ~Above(f[i + 1], f[i])
      BY <2>4 DEF InOrder
    <2> DEFINE g == [i \in 1..(m + 1) |-> IF i <= m THEN f[i] ELSE a]
    <2>6. g \in [1..(m + 1) -> T]
      BY <2>2, <2>5
    <2>7. ASSUME NEW i \in 1..(m + 1), NEW j \in 1..(m + 1), i # j PROVE g[i] # g[j]
      BY <2>5, <2>7
    <2>8. ASSUME NEW i \in 1..m PROVE ~Above(g[i + 1], g[i])
      <3>1. CASE i < m
        <4>1. g[i + 1] = f[i + 1] /\ g[i] = f[i] /\ i \in 1..(m - 1)
          BY <3>1
        <4> HIDE DEF g
        <4> QED BY <2>5, <4>1
      <3>2. CASE i = m
        <4>1. g[i + 1] = a /\ g[i] = f[i]
          BY <3>2
        <4>2. f[i] \in T
          BY <2>5
        <4> HIDE DEF g
        <4> QED BY <2>2, <4>1, <4>2
      <3> QED BY <3>1, <3>2
    <2> HIDE DEF g
    <2>9. InOrder(g, m + 1, T)
      BY <2>6, <2>7, <2>8 DEF InOrder
    <2> QED BY <2>9
  <1>4. Nat \subseteq N
    <2> HIDE DEF N
    <2> QED BY <1>2, <1>3, NatSet
  <1>5. Cardinality(S) \in Nat
    BY FS_CardinalityType
  <1> QED BY <1>4, <1>5

\* In an ordered sequence nothing is above anything earlier.
LEMMA OrderTransitive ==
    ASSUME NEW T \in SUBSET Ranked, NEW m \in Nat, NEW s, InOrder(s, m, T),
           NEW i \in 1..m, NEW j \in i..m
    PROVE  ~Above(s[j], s[i])
  <1>1. /\ s \in [1..m -> T]
        /\ \A l \in 1..(m - 1) : ~Above(s[l + 1], s[l])
    BY DEF InOrder
  <1> DEFINE N == {d \in Nat : i + d <= m => ~Above(s[i + d], s[i])}
  <1>2. 0 \in N
    <2>1. i + 0 = i /\ s[i] \in Ranked
      BY <1>1
    <2> QED BY <2>1, AboveFacts
  <1>3. ASSUME NEW d \in Nat, d \in N PROVE d + 1 \in N
    <2> SUFFICES ASSUME i + (d + 1) <= m PROVE ~Above(s[i + (d + 1)], s[i])
      OBVIOUS
    <2>1. ~Above(s[i + d], s[i])
      BY <1>3
    <2>2. i + d \in 1..(m - 1) /\ i + (d + 1) = (i + d) + 1
      OBVIOUS
    <2>3. ~Above(s[(i + d) + 1], s[i + d])
      BY <1>1, <2>2
    <2>4. i \in 1..m /\ i + d \in 1..m /\ (i + d) + 1 \in 1..m
      BY <2>2
    <2>5. s[i] \in Ranked /\ s[i + d] \in Ranked /\ s[(i + d) + 1] \in Ranked
      BY <1>1, <2>4
    <2>6. ~Above(s[(i + d) + 1], s[i])
      BY <2>1, <2>3, <2>5, AboveFacts
    <2> QED BY <2>2, <2>6
  <1>4. Nat \subseteq N
    <2> HIDE DEF N
    <2> QED BY <1>2, <1>3, NatSet
  <1>5. j - i \in Nat /\ i + (j - i) = j /\ j <= m
    OBVIOUS
  <1>6. j - i \in N
    <2> HIDE DEF N
    <2> QED BY <1>4, <1>5
  <1> QED BY <1>5, <1>6

\* As many different elements as there are make up the set.
LEMMA OrderIsOnto ==
    ASSUME NEW T, IsFiniteSet(T), NEW s \in [1..Cardinality(T) -> T],
           \A i, j \in 1..Cardinality(T) : i # j => s[i] # s[j]
    PROVE  \A x \in T : \E i \in 1..Cardinality(T) : s[i] = x
  <1>1. Cardinality(T) \in Nat
    BY FS_CardinalityType
  <1>2. Cardinality(1..Cardinality(T)) = Cardinality(T)
    BY <1>1, FS_Interval
  <1>3. s \in Injection(1..Cardinality(T), T)
    BY DEF Injection, IsInjective
  <1>4. s \in Surjection(1..Cardinality(T), T)
    BY <1>2, <1>3, FS_Injection
  <1> QED BY <1>4 DEF Surjection

\* A set listed without repetition has as many elements as the list.
LEMMA ListedCardinality ==
    ASSUME NEW k \in Nat, NEW C, NEW f \in [1..k -> C],
           \A i, j \in 1..k : i # j => f[i] # f[j],
           \A c \in C : \E i \in 1..k : f[i] = c
    PROVE  IsFiniteSet(C) /\ Cardinality(C) = k
  <1>1. IsFiniteSet(1..k) /\ Cardinality(1..k) = k
    BY FS_Interval
  <1>2. f \in Surjection(1..k, C)
    BY DEF Surjection
  <1>3. f \in Injection(1..k, C)
    BY DEF Injection, IsInjective
  <1> QED BY <1>1, <1>2, <1>3, FS_Surjection

\* What a block's sort leaves: all of the set, in order.
LEMMA SortedFacts ==
    ASSUME NEW S \in SUBSET Ranked, IsFiniteSet(S)
    PROVE  LET s == CHOOSE s \in Sorted(S) : TRUE
               m == Cardinality(S)
           IN  /\ m \in Nat /\ s \in [1..m -> S] /\ Len(s) = m
               /\ \A i, j \in 1..m : i # j => s[i] # s[j]
               /\ \A x \in S : \E i \in 1..m : s[i] = x
               /\ \A i \in 1..m : \A j \in i..m : ~Above(s[j], s[i])
  <1> DEFINE m == Cardinality(S)
             s == CHOOSE s \in Sorted(S) : TRUE
  <1>1. m \in Nat
    BY FS_CardinalityType
  <1> HIDE DEF m
  <1>2. ASSUME NEW g \in [1..m -> S] PROVE Len(g) = m
    <2>1. g \in Seq(S)
      BY <1>1, SeqDef
    <2> QED BY <1>1, <2>1, LenProperties
  <1>3. PICK g : InOrder(g, m, S)
    BY OrderExists DEF m
  <1>4. g \in Sorted(S)
    BY <1>2, <1>3 DEF Sorted, SetToSeqs, InOrder, m
  <1>5. s \in Sorted(S)
    BY <1>4
  <1> HIDE DEF s
  <1>6. s \in [1..m -> S] /\ \A i, j \in 1..m : i # j => s[i] # s[j]
    BY <1>5 DEF Sorted, SetToSeqs, m
  <1>7. Len(s) = m
    BY <1>2, <1>6
  <1>8. InOrder(s, m, S)
    BY <1>5, <1>6, <1>7 DEF Sorted, InOrder
  <1>9. \A i \in 1..m : \A j \in i..m : ~Above(s[j], s[i])
    BY <1>1, <1>8, OrderTransitive
  <1>10. \A x \in S : \E i \in 1..m : s[i] = x
    BY <1>6, OrderIsOnto DEF m
  <1> QED BY <1>1, <1>6, <1>7, <1>9, <1>10 DEF s, m


---------------------------------------------------------------------------
(* Device top-k: the rows.                                                   *)

\* Rows top-k is followed for.
TopkRows == UNION {[1..n -> Logits \ {NaN}] : n \in 1..Elements}

\* The candidates of a row.
CandidatesOf(row) == {Candidate(row, i) : i \in IndicesOf(row)}

\* A candidate has the logit of its index in its key, and a row has as many
\* candidates as logits.
LEMMA CandidateFacts ==
    ASSUME NEW row \in TopkRows
    PROVE  /\ Len(row) \in Nat /\ 1 <= Len(row)
           /\ \A i \in IndicesOf(row) : /\ i \in Nat /\ At(row, i) \in Int
                                        /\ Candidate(row, i) \in Ranked
                                        /\ Candidate(row, i).index = i
                                        /\ Candidate(row, i).key[1] = At(row, i)
                                        /\ Candidate(row, i).key[2] = NoIndex - i
           /\ CandidatesOf(row) \in SUBSET Ranked
           /\ IsFiniteSet(CandidatesOf(row)) /\ Cardinality(CandidatesOf(row)) = Len(row)
  <1>1. row \in ArgmaxRows
    BY DEF TopkRows, ArgmaxRows
  <1>2. Len(row) \in Nat /\ 1 <= Len(row) /\ \A i \in IndicesOf(row) : i \in Nat
    BY <1>1, RowFacts
  <1>3. ASSUME NEW i \in IndicesOf(row) PROVE At(row, i) \in Int /\ At(row, i) # NaN
    <2>1. PICK n \in 1..Elements : row \in [1..n -> Logits \ {NaN}]
      BY DEF TopkRows
    <2>2. n \in Nat
      BY SelectionAssumption
    <2>3. row \in Seq(Logits \ {NaN})
      BY <2>1, <2>2, SeqDef
    <2>4. Len(row) = n
      BY <2>1, <2>2, <2>3, LenProperties
    <2>5. i + 1 \in 1..n
      BY <2>2, <2>4 DEF IndicesOf
    <2>6. row[i + 1] \in Logits /\ row[i + 1] # NaN
      BY <2>1, <2>5
    <2> QED BY <2>6, SelectionAssumption DEF At, Logits, NaN
  <1>4. ASSUME NEW i \in IndicesOf(row)
        PROVE  /\ Candidate(row, i) \in Ranked
               /\ Candidate(row, i).index = i
               /\ Candidate(row, i).key[1] = At(row, i)
               /\ Candidate(row, i).key[2] = NoIndex - i
    <2>1. Candidate(row, i) = [key |-> <<At(row, i), NoIndex - i>>, index |-> i]
      BY <1>3 DEF Candidate, qwen_topk_key
    <2>2. i \in Int /\ NoIndex - i \in Int
      BY <1>2, SelectionAssumption
    <2> QED BY <1>3, <2>1, <2>2 DEF Ranked
  <1> DEFINE f == [i \in 1..Len(row) |-> Candidate(row, i - 1)]
  <1>5. \A i \in 1..Len(row) : i - 1 \in IndicesOf(row)
    BY <1>2 DEF IndicesOf
  <1>6. f \in [1..Len(row) -> CandidatesOf(row)]
    BY <1>5 DEF CandidatesOf
  <1>7. ASSUME NEW i \in 1..Len(row), NEW j \in 1..Len(row), i # j PROVE f[i] # f[j]
    <2>1. f[i].index = i - 1 /\ f[j].index = j - 1
      BY <1>4, <1>5
    <2> HIDE DEF f
    <2> QED BY <1>2, <1>7, <2>1
  <1>8. \A c \in CandidatesOf(row) : \E i \in 1..Len(row) : f[i] = c
    <2>1. ASSUME NEW i \in IndicesOf(row) PROVE i + 1 \in 1..Len(row) /\ (i + 1) - 1 = i
      BY <1>2 DEF IndicesOf
    <2>2. ASSUME NEW i \in IndicesOf(row) PROVE f[i + 1] = Candidate(row, i)
      BY <2>1
    <2> HIDE DEF f
    <2>3. ASSUME NEW c \in CandidatesOf(row) PROVE \E i \in 1..Len(row) : f[i] = c
      <3>1. PICK i \in IndicesOf(row) : c = Candidate(row, i)
        BY DEF CandidatesOf
      <3> QED BY <2>1, <2>2, <3>1
    <2> QED BY <2>3
  <1>9. IsFiniteSet(CandidatesOf(row)) /\ Cardinality(CandidatesOf(row)) = Len(row)
    <2> HIDE DEF f
    <2> QED BY <1>2, <1>6, <1>7, <1>8, ListedCardinality
  <1>10. CandidatesOf(row) \in SUBSET Ranked
    BY <1>4 DEF CandidatesOf
  <1> QED BY <1>2, <1>3, <1>4, <1>9, <1>10

\* The items of a block.
ItemsOf(row, b) == {Candidate(row, i) : i \in {j \in IndicesOf(row) : j \div TileItems = b - 1}}

\* What block b leaves: some of its items, and either all of them or TopKMax
\* that no item left out is above.
LEMMA BlockLeaves ==
    ASSUME NEW row \in TopkRows, NEW b \in 1..TopkBlocks(row)
    PROVE  LET part == qwen_topk_block_partials(row)[b]
               left == {part[i] : i \in DOMAIN part}
           IN  /\ left \subseteq ItemsOf(row, b)
               /\ \/ left = ItemsOf(row, b)
                  \/ /\ IsFiniteSet(left) /\ Cardinality(left) = TopKMax
                     /\ \A c \in ItemsOf(row, b) \ left, x \in left : ~Above(c, x)
  <1> DEFINE items == ItemsOf(row, b)
             order == CHOOSE s \in Sorted(items) : TRUE
             m == Cardinality(items)
             l == IF Len(order) < TopKMax THEN Len(order) ELSE TopKMax
             part == qwen_topk_block_partials(row)[b]
             left == {part[i] : i \in DOMAIN part}
  <1>1. part = SubSeq(order, 1, l)
    BY DEF qwen_topk_block_partials, ItemsOf
  <1>2. items \subseteq CandidatesOf(row)
    BY DEF ItemsOf, CandidatesOf
  <1> HIDE DEF items, part
  <1>3. items \in SUBSET Ranked /\ IsFiniteSet(items)
    BY <1>2, CandidateFacts, FS_Subset
  <1>4. /\ m \in Nat /\ order \in [1..m -> items] /\ Len(order) = m
        /\ \A i, j \in 1..m : i # j => order[i] # order[j]
        /\ \A x \in items : \E i \in 1..m : order[i] = x
        /\ \A i \in 1..m : \A j \in i..m : ~Above(order[j], order[i])
    BY <1>3, SortedFacts
  <1> HIDE DEF order, m
  <1>5. TopKMax \in Nat /\ TopKMax > 0
    BY SelectionAssumption
  <1>6. l \in Nat /\ l <= m /\ (l = m \/ l = TopKMax)
    BY <1>4, <1>5
  <1> HIDE DEF l
  <1>7. DOMAIN part = 1..l /\ \A i \in 1..l : part[i] = order[i]
    <2>1. part = [i \in 1..l |-> order[i]]
      BY <1>1, <1>4, <1>6
    <2> QED BY <2>1
  <1>8. left = {order[i] : i \in 1..l} /\ \A i \in 1..l : i \in 1..m
    BY <1>4, <1>6, <1>7
  <1> HIDE DEF left
  <1>9. left \subseteq items
    BY <1>4, <1>8
  <1>10. CASE l = m
    <2>1. left = items
      BY <1>4, <1>8, <1>9, <1>10
    <2> QED BY <1>9, <2>1 DEF left, part, items
  <1>11. CASE l = TopKMax
    <2> DEFINE f == [i \in 1..l |-> order[i]]
    <2>1. f \in [1..l -> left] /\ \A i, j \in 1..l : i # j => f[i] # f[j]
      BY <1>4, <1>8
    <2>2. \A c \in left : \E i \in 1..l : f[i] = c
      BY <1>8
    <2> HIDE DEF f
    <2>3. IsFiniteSet(left) /\ Cardinality(left) = TopKMax
      BY <1>6, <1>11, <2>1, <2>2, ListedCardinality
    <2>4. ASSUME NEW c \in items \ left, NEW x \in left PROVE ~Above(c, x)
      <3>1. PICK j \in 1..m : order[j] = c
        BY <1>4
      <3>2. PICK i \in 1..l : order[i] = x
        BY <1>8
      <3>3. ~(j \in 1..l)
        BY <1>8, <2>4, <3>1
      <3>4. i \in 1..m /\ j \in i..m
        BY <1>4, <1>6, <1>8, <3>3
      <3> QED BY <1>4, <3>1, <3>2, <3>4
    <2> QED BY <1>9, <2>3, <2>4 DEF left, part, items
  <1> QED BY <1>6, <1>10, <1>11

\* The candidates the blocks of a row leave.
LeftOf(row) ==
    UNION {{qwen_topk_block_partials(row)[b][i] : i \in DOMAIN qwen_topk_block_partials(row)[b]} :
               b \in DOMAIN qwen_topk_block_partials(row)}

\* A candidate that no block leaves has TopKMax of them it is not above.
LEMMA LeftFacts ==
    ASSUME NEW row \in TopkRows
    PROVE  /\ LeftOf(row) \subseteq CandidatesOf(row)
           /\ \A c \in CandidatesOf(row) \ LeftOf(row) :
                 \E U \in SUBSET LeftOf(row) : /\ IsFiniteSet(U) /\ Cardinality(U) = TopKMax
                                               /\ \A x \in U : ~Above(c, x)
  <1> DEFINE partials == qwen_topk_block_partials(row)
             B == 1..TopkBlocks(row)
             left(b) == {partials[b][i] : i \in DOMAIN partials[b]}
  <1>1. DOMAIN partials = B
    BY DEF qwen_topk_block_partials
  <1>2. LeftOf(row) = UNION {left(b) : b \in B}
    BY <1>1 DEF LeftOf
  <1>3. ASSUME NEW b \in B
        PROVE  /\ left(b) \subseteq ItemsOf(row, b)
               /\ \/ left(b) = ItemsOf(row, b)
                  \/ /\ IsFiniteSet(left(b)) /\ Cardinality(left(b)) = TopKMax
                     /\ \A c \in ItemsOf(row, b) \ left(b), x \in left(b) : ~Above(c, x)
    BY BlockLeaves
  <1>4. \A b : ItemsOf(row, b) \subseteq CandidatesOf(row)
    BY DEF ItemsOf, CandidatesOf
  <1> HIDE DEF left
  <1>5. LeftOf(row) \subseteq CandidatesOf(row)
    BY <1>2, <1>3, <1>4
  <1>6. ASSUME NEW c \in CandidatesOf(row) PROVE \E b \in B : c \in ItemsOf(row, b)
    <2>1. PICK i \in IndicesOf(row) : c = Candidate(row, i)
      BY DEF CandidatesOf
    <2> DEFINE q == i \div TileItems
    <2>2. TileItems \in Nat \ {0} /\ i \in Nat /\ Len(row) \in Nat /\ i <= Len(row) - 1
      BY SelectionAssumption, CandidateFacts DEF IndicesOf
    <2>3. q \in Nat /\ TileItems * q <= i
      <3>1. q \in Int /\ i % TileItems \in Int /\ i = TileItems * q + (i % TileItems) /\ 0 <= i % TileItems
        BY <2>2, Division
      <3>2. q \in Nat
        BY <2>2
      <3>3. TileItems * q \in Int
        BY <2>2, <3>1
      <3> HIDE DEF q
      <3> QED BY <2>2, <3>1, <3>2, <3>3
    <2> HIDE DEF q
    <2> DEFINE a == Len(row) + TileItems - 1
    <2>4. a \in Int /\ TileItems * (q + 1) <= a
      <3>1. TileItems * (q + 1) = TileItems * q + TileItems /\ TileItems * q \in Int
        BY <2>2, <2>3
      <3> QED BY <2>2, <2>3, <3>1
    <2> HIDE DEF a
    <2>5. q + 1 <= a \div TileItems
      <3>1. q + 1 \in Int
        BY <2>3
      <3> QED BY <2>2, <2>4, <3>1, QuotientAtLeast
    <2>6. TopkBlocks(row) = a \div TileItems
      BY DEF TopkBlocks, a
    <2>7. a \div TileItems \in Int
      BY <2>2, <2>4
    <2>8. q + 1 \in B /\ (q + 1) - 1 = q
      BY <2>3, <2>5, <2>6, <2>7
    <2>9. c \in ItemsOf(row, q + 1)
      BY <2>1, <2>8 DEF ItemsOf, q
    <2> QED BY <2>8, <2>9
  <1>7. ASSUME NEW c \in CandidatesOf(row) \ LeftOf(row)
        PROVE  \E U \in SUBSET LeftOf(row) : /\ IsFiniteSet(U) /\ Cardinality(U) = TopKMax
                                             /\ \A x \in U : ~Above(c, x)
    <2>1. PICK b \in B : c \in ItemsOf(row, b)
      BY <1>6
    <2>2. left(b) \subseteq LeftOf(row)
      BY <1>2
    <2>3. c \notin left(b)
      BY <2>2
    <2> QED BY <1>3, <2>1, <2>2, <2>3
  <1> QED BY <1>5, <1>7

\* k tokens of a row as TopkExact wants them.
RowTopk(row, k, res) ==
    LET chosen == {res[i] : i \in 1..k}
    IN  /\ Len(res) = k /\ Cardinality(chosen) = k
        /\ \A i \in 1..(k - 1) : At(row, res[i]) >= At(row, res[i + 1])
        /\ \A j \in IndicesOf(row) \ chosen : At(row, j) <= At(row, res[k])

\* A candidate not above another has no larger logit.
LEMMA AboveIsLarger ==
    ASSUME NEW row \in TopkRows, NEW i \in IndicesOf(row), NEW j \in IndicesOf(row),
           ~Above(Candidate(row, i), Candidate(row, j))
    PROVE  At(row, i) <= At(row, j)
  <1>1. /\ At(row, i) \in Int /\ Candidate(row, i).key[1] = At(row, i)
        /\ At(row, j) \in Int /\ Candidate(row, j).key[1] = At(row, j)
    BY CandidateFacts
  <1> QED BY <1>1 DEF Above

\* The final block sorts what the blocks left, and its first k are k largest.
LEMMA RadixTopk ==
    ASSUME NEW row \in TopkRows, NEW k \in 1..TopKMax, k <= Len(row)
    PROVE  RowTopk(row, k, qwen_topk_block_finalize(qwen_topk_block_partials(row), k))
  <1> DEFINE all == LeftOf(row)
             order == CHOOSE s \in Sorted(all) : TRUE
             m == Cardinality(all)
             res == qwen_topk_block_finalize(qwen_topk_block_partials(row), k)
             chosen == {res[i] : i \in 1..k}
  <1>1. res = [i \in 1..k |-> order[i].index]
    BY DEF qwen_topk_block_finalize, LeftOf
  <1>2. TopKMax \in Nat /\ k \in Nat /\ 1 <= k /\ k <= TopKMax
    BY SelectionAssumption
  <1>3. all \subseteq CandidatesOf(row) /\ all \in SUBSET Ranked /\ IsFiniteSet(all)
    BY LeftFacts, CandidateFacts, FS_Subset
  <1>4. \A c \in CandidatesOf(row) \ all :
           \E U \in SUBSET all : /\ IsFiniteSet(U) /\ Cardinality(U) = TopKMax
                                 /\ \A x \in U : ~Above(c, x)
    BY LeftFacts
  <1> HIDE DEF all, res
  <1>5. /\ m \in Nat /\ order \in [1..m -> all] /\ Len(order) = m
        /\ \A i, j \in 1..m : i # j => order[i] # order[j]
        /\ \A x \in all : \E i \in 1..m : order[i] = x
        /\ \A i \in 1..m : \A j \in i..m : ~Above(order[j], order[i])
    BY <1>3, SortedFacts
  <1>6. k <= m
    <2>1. CASE all = CandidatesOf(row)
      BY <1>2, <2>1, CandidateFacts
    <2>2. CASE all # CandidatesOf(row)
      <3>1. PICK c \in CandidatesOf(row) \ all : TRUE
        BY <1>3, <2>2
      <3>2. PICK U \in SUBSET all : Cardinality(U) = TopKMax
        BY <1>4, <3>1
      <3>3. Cardinality(U) <= m
        BY <1>3, <3>2, FS_Subset
      <3> HIDE DEF m
      <3> QED BY <1>2, <1>5, <3>2, <3>3
    <2> QED BY <2>1, <2>2
  <1> HIDE DEF order, m
  <1>7. ASSUME NEW i \in 1..k
        PROVE  /\ i \in 1..m /\ order[i] \in all
               /\ res[i] = order[i].index /\ res[i] \in IndicesOf(row)
               /\ Candidate(row, res[i]) = order[i]
    <2>1. i \in 1..m
      BY <1>2, <1>5, <1>6
    <2>2. order[i] \in all /\ order[i] \in CandidatesOf(row)
      BY <1>3, <1>5, <2>1
    <2>3. PICK x \in IndicesOf(row) : order[i] = Candidate(row, x)
      BY <2>2 DEF CandidatesOf
    <2>4. order[i].index = x
      BY <2>3, CandidateFacts
    <2>5. res[i] = order[i].index
      BY <1>1
    <2> QED BY <2>1, <2>2, <2>3, <2>4, <2>5
  <1>8. Len(res) = k
    <2>1. res \in [1..k -> IndicesOf(row)]
      BY <1>1, <1>7
    <2>2. res \in Seq(IndicesOf(row))
      BY <1>2, <2>1, SeqDef
    <2> QED BY <1>2, <2>1, <2>2, LenProperties
  <1>9. Cardinality(chosen) = k
    <2>1. res \in [1..k -> chosen]
      BY <1>1
    <2>2. ASSUME NEW i \in 1..k, NEW j \in 1..k, i # j PROVE res[i] # res[j]
      BY <1>5, <1>7, <2>2
    <2>3. \A c \in chosen : \E i \in 1..k : res[i] = c
      OBVIOUS
    <2> HIDE DEF chosen
    <2> QED BY <1>2, <2>1, <2>2, <2>3, ListedCardinality
  <1>10. ASSUME NEW i \in 1..k, NEW j \in i..k PROVE At(row, res[j]) <= At(row, res[i])
    <2>1. j \in 1..k /\ i \in 1..m /\ j \in i..m
      BY <1>2, <1>5, <1>6
    <2>2. ~Above(order[j], order[i])
      BY <1>5, <2>1
    <2> QED BY <1>7, <2>1, <2>2, AboveIsLarger
  <1>11. ASSUME NEW i \in 1..(k - 1) PROVE At(row, res[i]) >= At(row, res[i + 1])
    <2>1. i \in 1..k /\ i + 1 \in i..k /\ i + 1 \in 1..k
      BY <1>2
    <2>2. At(row, res[i]) \in Int /\ At(row, res[i + 1]) \in Int
      BY <1>7, <2>1, CandidateFacts
    <2> QED BY <1>10, <2>1, <2>2
  <1>12. ASSUME NEW j \in IndicesOf(row) \ chosen PROVE At(row, j) <= At(row, res[k])
    <2> DEFINE c == Candidate(row, j)
    <2>1. c \in CandidatesOf(row) /\ c \in Ranked /\ c.index = j
      BY CandidateFacts DEF CandidatesOf
    <2>2. k \in 1..k /\ order[k] \in all /\ Candidate(row, res[k]) = order[k] /\ res[k] \in IndicesOf(row)
      BY <1>2, <1>7
    <2>3. ASSUME NEW i \in 1..k PROVE order[i] # c
      <3>1. res[i] # j
        BY <1>12
      <3> QED BY <1>7, <2>1, <3>1
    <2> HIDE DEF c
    <2>4. ~Above(c, order[k])
      <3>1. CASE c \in all
        <4>1. PICK p \in 1..m : order[p] = c
          BY <1>5, <3>1
        <4>2. ~(p \in 1..k)
          BY <2>3, <4>1
        <4>3. k \in 1..m /\ p \in k..m
          BY <1>2, <1>5, <1>6, <4>2
        <4> QED BY <1>5, <4>1, <4>3
      <3>2. CASE c \notin all
        <4>1. PICK U \in SUBSET all : /\ IsFiniteSet(U) /\ Cardinality(U) = TopKMax
                                      /\ \A x \in U : ~Above(c, x)
          BY <1>4, <2>1, <3>2
        <4> DEFINE F == {order[i] : i \in 1..(k - 1)}
                   f == [i \in 1..(k - 1) |-> order[i]]
        <4>2. IsFiniteSet(F) /\ Cardinality(F) = k - 1
          <5>1. k - 1 \in Nat /\ \A i \in 1..(k - 1) : i \in 1..m
            BY <1>2, <1>5, <1>6
          <5>2. f \in [1..(k - 1) -> F] /\ \A i, j1 \in 1..(k - 1) : i # j1 => f[i] # f[j1]
            BY <1>5, <5>1
          <5>3. \A x \in F : \E i \in 1..(k - 1) : f[i] = x
            OBVIOUS
          <5> HIDE DEF f, F
          <5> QED BY <5>1, <5>2, <5>3, ListedCardinality
        <4>3. ~(U \subseteq F)
          <5> SUFFICES ASSUME U \subseteq F PROVE FALSE
            OBVIOUS
          <5> HIDE DEF F
          <5>1. Cardinality(U) <= Cardinality(F)
            BY <4>2, FS_Subset
          <5> QED BY <1>2, <4>1, <4>2, <5>1
        <4>4. PICK x \in U : x \notin F
          BY <4>3
        <4>5. PICK p \in 1..m : order[p] = x
          BY <1>5, <4>4
        <4>6. ~(p \in 1..(k - 1))
          BY <4>4, <4>5
        <4>7. k \in 1..m /\ p \in k..m
          BY <1>2, <1>5, <1>6, <4>6
        <4>8. ~Above(x, order[k])
          BY <1>5, <4>5, <4>7
        <4>9. ~Above(c, x) /\ x \in Ranked /\ order[k] \in Ranked
          BY <1>3, <2>2, <4>1, <4>4
        <4> QED BY <2>1, <4>8, <4>9, AboveFacts
      <3> QED BY <3>1, <3>2
    <2> QED BY <2>2, <2>4, AboveIsLarger DEF c
  <1> QED BY <1>8, <1>9, <1>11, <1>12 DEF RowTopk, res

\* The host's sort of k largest of a row.
LEMMA HostTopk ==
    ASSUME NEW row \in TopkRows, NEW k \in 1..TopKMax, NEW set \in DeviceTopK(row, k)
    PROVE  RowTopk(row, k, HostSort(row, set))
  <1> DEFINE Falling(s) == \A i \in 1..(k - 1) :
                 \/ At(row, s[i]) > At(row, s[i + 1])
                 \/ At(row, s[i]) = At(row, s[i + 1]) /\ s[i] < s[i + 1]
             res == HostSort(row, set)
             C == {Candidate(row, i) : i \in set}
             chosen == {res[i] : i \in 1..k}
  <1>1. /\ set \subseteq IndicesOf(row) /\ Cardinality(set) = k
        /\ \A i \in set, j \in IndicesOf(row) \ set : At(row, i) >= At(row, j)
    BY DEF DeviceTopK
  <1>2. k \in Nat /\ 1 <= k
    BY SelectionAssumption
  <1>3. IsFiniteSet(set)
    <2>1. Len(row) - 1 \in Int
      BY CandidateFacts
    <2>2. IsFiniteSet(IndicesOf(row))
      BY <2>1, FS_Interval DEF IndicesOf
    <2> QED BY <1>1, <2>2, FS_Subset
  <1>4. C \in SUBSET Ranked /\ IsFiniteSet(C) /\ Cardinality(C) = k
    <2> DEFINE f == [i \in set |-> Candidate(row, i)]
    <2>1. C \in SUBSET Ranked
      BY <1>1, CandidateFacts
    <2>2. f \in Surjection(set, C)
      BY DEF Surjection
    <2>3. ASSUME NEW i \in set, NEW j \in set, f[i] = f[j] PROVE i = j
      <3>1. Candidate(row, i).index = i /\ Candidate(row, j).index = j
        BY <1>1, CandidateFacts
      <3> QED BY <2>3, <3>1
    <2>4. f \in Injection(set, C)
      BY <2>2, <2>3 DEF Injection, IsInjective, Surjection
    <2> HIDE DEF f, C
    <2> QED BY <1>1, <1>3, <2>1, <2>2, <2>4, FS_Surjection
  <1>5. \E s \in SetToSeqs(set) : Falling(s)
    <2>1. PICK g : InOrder(g, k, C)
      BY <1>4, OrderExists
    <2>2. /\ g \in [1..k -> C]
          /\ \A i, j \in 1..k : i # j => g[i] # g[j]
          /\ \A i \in 1..(k - 1) : ~Above(g[i + 1], g[i])
      BY <2>1 DEF InOrder
    <2> DEFINE s == [i \in 1..k |-> g[i].index]
    <2>3. ASSUME NEW i \in 1..k
          PROVE  s[i] = g[i].index /\ s[i] \in set /\ g[i] = Candidate(row, s[i])
      <3>1. PICK x \in set : g[i] = Candidate(row, x)
        BY <2>2
      <3>2. g[i].index = x
        BY <1>1, <3>1, CandidateFacts
      <3> QED BY <3>1, <3>2
    <2>4. s \in [1..k -> set]
      BY <2>3
    <2> HIDE DEF s
    <2>5. \A i, j \in 1..k : i # j => s[i] # s[j]
      BY <2>2, <2>3
    <2>6. s \in SetToSeqs(set)
      BY <1>1, <2>4, <2>5 DEF SetToSeqs
    <2>7. ASSUME NEW i \in 1..(k - 1)
          PROVE  \/ At(row, s[i]) > At(row, s[i + 1])
                 \/ At(row, s[i]) = At(row, s[i + 1]) /\ s[i] < s[i + 1]
      <3>1. i \in 1..k /\ i + 1 \in 1..k /\ i # i + 1
        BY <1>2
      <3>2. s[i] # s[i + 1]
        BY <2>5, <3>1
      <3>3. ~Above(Candidate(row, s[i + 1]), Candidate(row, s[i]))
        BY <2>2, <2>3, <3>1
      <3>4. s[i] \in IndicesOf(row) /\ s[i + 1] \in IndicesOf(row)
        BY <1>1, <2>3, <3>1
      <3>5. /\ s[i] \in Nat /\ At(row, s[i]) \in Int
            /\ Candidate(row, s[i]).key[1] = At(row, s[i])
            /\ Candidate(row, s[i]).key[2] = NoIndex - s[i]
            /\ s[i + 1] \in Nat /\ At(row, s[i + 1]) \in Int
            /\ Candidate(row, s[i + 1]).key[1] = At(row, s[i + 1])
            /\ Candidate(row, s[i + 1]).key[2] = NoIndex - s[i + 1]
        BY <3>4, CandidateFacts
      <3>6. NoIndex \in Nat
        BY SelectionAssumption
      <3> QED BY <3>2, <3>3, <3>5, <3>6 DEF Above
    <2> QED BY <2>6, <2>7
  <1>6. res = CHOOSE s \in SetToSeqs(set) : Falling(s)
    BY <1>1 DEF HostSort
  <1>7. res \in SetToSeqs(set) /\ Falling(res)
    <2> HIDE DEF Falling, res
    <2> QED BY <1>5, <1>6
  <1> HIDE DEF res, C
  <1>8. res \in [1..k -> set] /\ \A i, j \in 1..k : i # j => res[i] # res[j]
    BY <1>1, <1>7 DEF SetToSeqs
  <1>9. \A x \in set : \E i \in 1..k : res[i] = x
    BY <1>1, <1>3, <1>8, OrderIsOnto
  <1>10. chosen = set
    BY <1>8, <1>9
  <1>11. Len(res) = k
    <2>1. res \in Seq(set)
      BY <1>2, <1>8, SeqDef
    <2> QED BY <1>2, <1>8, <2>1, LenProperties
  <1>12. ASSUME NEW i \in 1..(k - 1) PROVE At(row, res[i]) >= At(row, res[i + 1])
    <2>1. i \in 1..k /\ i + 1 \in 1..k
      BY <1>2
    <2>2. res[i] \in IndicesOf(row) /\ res[i + 1] \in IndicesOf(row)
      BY <1>1, <1>8, <2>1
    <2>3. At(row, res[i]) \in Int /\ At(row, res[i + 1]) \in Int
      BY <2>2, CandidateFacts
    <2> QED BY <1>7, <2>3
  <1>13. ASSUME NEW j \in IndicesOf(row) \ chosen PROVE At(row, j) <= At(row, res[k])
    <2>1. res[k] \in set /\ j \in IndicesOf(row) \ set
      BY <1>2, <1>8, <1>10
    <2>2. At(row, res[k]) \in Int /\ At(row, j) \in Int
      BY <1>1, <2>1, CandidateFacts
    <2> HIDE DEF chosen
    <2> QED BY <1>1, <2>1, <2>2
  <1> QED BY <1>1, <1>10, <1>11, <1>12, <1>13 DEF RowTopk, res

\* What the proof keeps: rows of numbers with k elements, and the candidates the
\* blocks leave of each of them.
TopkInv ==
    /\ op.name = "topk" => /\ op.k \in 1..TopKMax
                           /\ \A r \in DOMAIN op.rows :
                                 op.rows[r] \in TopkRows /\ op.k <= Len(op.rows[r])
    /\ selection = "partials" /\ op.name = "topk" =>
           partial = [r \in DOMAIN op.rows |-> qwen_topk_block_partials(op.rows[r])]
    /\ TopkExact

\* For every row length, tile, number of candidates and k: the k tokens of a row
\* are distinct, ordered by falling logit, and none left out is larger, on the
\* radix path and on that of cub::DeviceTopK and the host's sort
\* (fortai_cuda_qwen35_topk_rows_device).
THEOREM DeviceTopk == SelectSpec => []TopkExact
  <1>1. SelectInit => TopkInv
    BY DEF SelectInit, TopkInv, TopkExact, NoSelection
  <1>2. TopkInv /\ [SelectNext]_selectVars => TopkInv'
    <2> SUFFICES ASSUME TopkInv, [SelectNext]_selectVars PROVE TopkInv'
      OBVIOUS
    <2>1. CASE Select
      <3>1. PICK count \in 1..MaxRows, n \in 1..Elements, name \in {"argmax", "topk"} :
            \E rows \in [1..count -> [1..n -> Logits]], k \in 1..TopKMax :
               /\ name = "topk" => k <= n /\ \A r \in 1..count, i \in 1..n : rows[r][i] # NaN
               /\ op' = [name |-> name, rows |-> rows, k |-> k]
        BY <2>1, Zenon DEF Select
      <3>2. PICK rows \in [1..count -> [1..n -> Logits]], k \in 1..TopKMax :
               /\ name = "topk" => k <= n /\ \A r \in 1..count, i \in 1..n : rows[r][i] # NaN
               /\ op' = [name |-> name, rows |-> rows, k |-> k]
        BY <3>1
      <3>3. ASSUME name = "topk", NEW r \in DOMAIN rows PROVE rows[r] \in TopkRows /\ k <= Len(rows[r])
        <4>1. r \in 1..count /\ rows[r] \in [1..n -> Logits]
          OBVIOUS
        <4>2. \A i \in 1..n : rows[r][i] \in Logits \ {NaN}
          BY <3>2, <3>3, <4>1
        <4>3. rows[r] \in [1..n -> Logits \ {NaN}]
          <5>1. rows[r] = [i \in 1..n |-> rows[r][i]]
            BY <4>1
          <5> QED BY <4>2, <5>1
        <4>4. n \in Nat
          BY SelectionAssumption
        <4>5. rows[r] \in Seq(Logits)
          BY <4>1, <4>4, SeqDef
        <4>6. Len(rows[r]) = n
          BY <4>1, <4>4, <4>5, LenProperties
        <4> QED BY <3>2, <3>3, <4>3, <4>6 DEF TopkRows
      <3>4. op'.rows = rows /\ op'.k = k /\ op'.name = name /\ selection' = "launched"
        BY <2>1, <3>2 DEF Select
      <3> QED BY <3>3, <3>4 DEF TopkInv, TopkExact
    <2>2. CASE ArgmaxPartials
      BY <2>2 DEF ArgmaxPartials, TopkInv, TopkExact
    <2>3. CASE ArgmaxHost
      BY <2>3 DEF ArgmaxHost, TopkInv, TopkExact
    <2>4. CASE TopkPartials
      BY <2>4 DEF TopkPartials, TopkInv, TopkExact
    <2>5. CASE TopkFinalize
      <3>1. /\ op' = op /\ selection' = "done" /\ op.name = "topk" /\ selection = "partials"
            /\ result' = [r \in DOMAIN op.rows |-> qwen_topk_block_finalize(partial[r], op.k)]
        BY <2>5 DEF TopkFinalize
      <3>2. /\ op.k \in 1..TopKMax
            /\ \A r \in DOMAIN op.rows : op.rows[r] \in TopkRows /\ op.k <= Len(op.rows[r])
            /\ partial = [r \in DOMAIN op.rows |-> qwen_topk_block_partials(op.rows[r])]
        BY <3>1 DEF TopkInv
      <3>3. ASSUME NEW r \in DOMAIN op.rows PROVE RowTopk(op.rows[r], op.k, result'[r])
        <4>1. result'[r] = qwen_topk_block_finalize(qwen_topk_block_partials(op.rows[r]), op.k)
          BY <3>1, <3>2
        <4> QED BY <3>2, <4>1, RadixTopk
      <3>4. TopkExact'
        BY <3>1, <3>3 DEF TopkExact, RowTopk
      <3> QED BY <3>1, <3>2, <3>4 DEF TopkInv
    <2>6. CASE TopkStreams
      <3>1. PICK sets \in [DOMAIN op.rows -> UNION {DeviceTopK(op.rows[r], op.k) : r \in DOMAIN op.rows}] :
               /\ \A r \in DOMAIN op.rows : sets[r] \in DeviceTopK(op.rows[r], op.k)
               /\ result' = [r \in DOMAIN op.rows |-> HostSort(op.rows[r], sets[r])]
        BY <2>6, Zenon DEF TopkStreams
      <3>2. op' = op /\ selection' = "done" /\ op.name = "topk"
        BY <2>6 DEF TopkStreams
      <3>3. /\ op.k \in 1..TopKMax
            /\ \A r \in DOMAIN op.rows : op.rows[r] \in TopkRows /\ op.k <= Len(op.rows[r])
        BY <3>2 DEF TopkInv
      <3>4. ASSUME NEW r \in DOMAIN op.rows PROVE RowTopk(op.rows[r], op.k, result'[r])
        <4>1. result'[r] = HostSort(op.rows[r], sets[r])
          BY <3>1
        <4> QED BY <3>1, <3>3, <4>1, HostTopk
      <3>5. TopkExact'
        BY <3>2, <3>4 DEF TopkExact, RowTopk
      <3> QED BY <3>2, <3>3, <3>5 DEF TopkInv
    <2>7. CASE SelectReturn
      BY <2>7 DEF SelectReturn, TopkInv, TopkExact, NoSelection
    <2>8. CASE UNCHANGED selectVars
      <3>1. op' = op /\ partial' = partial /\ result' = result /\ selection' = selection
        BY <2>8 DEF selectVars
      <3>2. ASSUME selection = "done", op.name = "topk", NEW r \in DOMAIN op.rows
            PROVE  RowTopk(op.rows[r], op.k, result'[r])
        BY <3>1, <3>2 DEF TopkInv, TopkExact, RowTopk
      <3>3. TopkExact'
        BY <3>1, <3>2 DEF TopkExact, RowTopk
      <3> QED BY <3>1, <3>3 DEF TopkInv
    <2> QED BY <2>1, <2>2, <2>3, <2>4, <2>5, <2>6, <2>7, <2>8 DEF SelectNext
  <1>3. TopkInv => TopkExact
    BY DEF TopkInv
  <1> QED BY <1>1, <1>2, <1>3, PTL DEF SelectSpec

---------------------------------------------------------------------------
(* Output tiles.                                                             *)

\* Tiles of length b, rounded up, reach every index below a.
LEMMA CeilDivFacts ==
    ASSUME NEW a \in Nat \ {0}, NEW b \in Nat \ {0}
    PROVE  /\ CeilDiv(a, b) \in Nat \ {0}
           /\ \A x \in 0..(a - 1) : x \div b \in 0..(CeilDiv(a, b) - 1)
  <1> DEFINE q == CeilDiv(a, b)
  <1>1. /\ q \in Int /\ a + b - 1 = b * q + ((a + b - 1) % b) /\ (a + b - 1) % b \in Int
        /\ (a + b - 1) % b < b
    BY Division DEF CeilDiv
  <1>2. b * 1 <= a + b - 1 /\ a + b - 1 \in Int
    OBVIOUS
  <1>3. 1 <= q
    BY <1>2, QuotientAtLeast DEF CeilDiv
  <1>4. b * q \in Int /\ a <= b * q
    BY <1>1
  <1> HIDE DEF q
  <1>5. ASSUME NEW x \in 0..(a - 1) PROVE x \div b \in 0..(q - 1)
    <2>1. x \in Int /\ b * ((q - 1) + 1) = b * q /\ x < b * ((q - 1) + 1) /\ q - 1 \in Int
      BY <1>1, <1>4
    <2>2. x \div b <= q - 1
      BY <2>1, QuotientAtMost
    <2>3. b * 0 <= x
      BY <2>1
    <2>4. 0 <= x \div b
      BY <2>1, <2>3, QuotientAtLeast
    <2> QED BY <1>1, <2>1, <2>2, <2>4, Division
  <1> QED BY <1>1, <1>3, <1>5 DEF q

---------------------------------------------------------------------------
\* What a call may ask for.
IsShape(s) ==
    /\ s \in [rows : Nat \ {0}, blocks : Nat \ {0}, batch : Nat \ {0}, tokens : TileTokens,
              streamK : BOOLEAN, path : {"plain", "dp4a", "mma"}]
    /\ s.path # "plain" => s.blocks % Group = 0

\* What a kernel is launched with.
IsPart(part) ==
    part \in [offset : Nat, batch : Nat \ {0}, stride : Nat \ {0}, tokens : Nat \ {0}, grid : Nat \ {0}]

\* Output tiles of a part, its units of work, and those of thread block i.
TilesOf(s, part) == row_tiles(s) * CeilDiv(part.batch, part.tokens)
UnitsOf(s, part) == TilesOf(s, part) * k_tiles(s)
Holder(s, part, i) == Share(UnitsOf(s, part), i, part.grid)

\* Cells of a part, and chunks of the inner dimension.
CellsOf(s, part) == (0..(s.rows - 1)) \X (0..(part.batch - 1))
InnerOf(s) == 0..(s.blocks - 1)

\* The tile a cell lies in, the unit that adds chunk b to it, and its last unit.
TileOf(s, part, c) == (c[2] \div part.tokens) * row_tiles(s) + (c[1] \div RowTile)
UnitOf(s, part, c, b) == TileOf(s, part, c) * k_tiles(s) + (b \div BlocksPerTile)
LastUnit(s, part, c) == TileOf(s, part, c) * k_tiles(s) + (k_tiles(s) - 1)

\* Tile widths are natural.
LEMMA TokensFacts == TileTokens \subseteq Nat \ {0}
  BY ProductAssumption DEF TileTokens

\* A part has tiles, K tiles and units.
LEMMA ShapeFacts ==
    ASSUME NEW s, IsShape(s), NEW part, IsPart(part)
    PROVE  /\ row_tiles(s) \in Nat \ {0} /\ k_tiles(s) \in Nat \ {0}
           /\ CeilDiv(part.batch, part.tokens) \in Nat \ {0}
           /\ TilesOf(s, part) \in Nat \ {0} /\ UnitsOf(s, part) \in Nat \ {0}
  <1>1. row_tiles(s) \in Nat \ {0} /\ k_tiles(s) \in Nat \ {0}
    BY CeilDivFacts, ProductAssumption DEF IsShape, row_tiles, k_tiles
  <1>2. CeilDiv(part.batch, part.tokens) \in Nat \ {0}
    BY CeilDivFacts DEF IsPart
  <1>3. \A x, y \in Nat \ {0} : x * y \in Nat \ {0}
    <2>1. SUFFICES ASSUME NEW x \in Nat \ {0}, NEW y \in Nat \ {0} PROVE x * y \in Nat \ {0}
      OBVIOUS
    <2>2. x * 1 <= x * y
      BY Products
    <2> QED BY <2>2
  <1> QED BY <1>1, <1>2, <1>3 DEF TilesOf, UnitsOf

\* The tile of a cell, its row and its column of tiles.
LEMMA TileFacts ==
    ASSUME NEW s, IsShape(s), NEW part, IsPart(part), NEW c \in CellsOf(s, part)
    PROVE  /\ TileOf(s, part, c) \in 0..(TilesOf(s, part) - 1)
           /\ c[2] \div part.tokens \in Nat /\ c[1] \div RowTile \in 0..(row_tiles(s) - 1)
           /\ TileOf(s, part, c) \div row_tiles(s) = c[2] \div part.tokens
           /\ TileOf(s, part, c) % row_tiles(s) = c[1] \div RowTile
  <1> DEFINE n == CeilDiv(part.batch, part.tokens)
  <1>1. row_tiles(s) \in Nat \ {0} /\ n \in Nat \ {0}
    BY ShapeFacts
  <1>2. c[1] \in 0..(s.rows - 1) /\ c[2] \in 0..(part.batch - 1)
    BY DEF CellsOf
  <1>3. c[1] \div RowTile \in 0..(row_tiles(s) - 1)
    BY <1>2, CeilDivFacts, ProductAssumption DEF IsShape, row_tiles
  <1>4. c[2] \div part.tokens \in 0..(n - 1)
    BY <1>2, CeilDivFacts DEF IsPart
  <1>5. TilesOf(s, part) = n * row_tiles(s)
    BY <1>1 DEF TilesOf
  <1> DEFINE m == row_tiles(s)
             q == c[2] \div part.tokens
             r == c[1] \div RowTile
  <1>6. TileOf(s, part, c) = q * m + r
    BY DEF TileOf
  <1>7. m \in Nat \ {0} /\ n \in Nat /\ q \in 0..(n - 1) /\ r \in 0..(m - 1)
    BY <1>1, <1>3, <1>4
  <1> HIDE DEF n, m, q, r
  <1>8. q * m + r \in 0..(n * m - 1) /\ (q * m + r) \div m = q /\ (q * m + r) % m = r
    BY <1>7, CellOf
  <1>9. q \in Nat
    BY <1>7
  <1> QED BY <1>3, <1>5, <1>6, <1>8, <1>9 DEF m, q, r

\* The unit of a chunk, its tile and its K tile.
LEMMA UnitFacts ==
    ASSUME NEW s, IsShape(s), NEW part, IsPart(part), NEW c \in CellsOf(s, part), NEW b \in InnerOf(s)
    PROVE  /\ b \div BlocksPerTile \in 0..(k_tiles(s) - 1)
           /\ UnitOf(s, part, c, b) \in 0..(UnitsOf(s, part) - 1)
           /\ UnitOf(s, part, c, b) \div k_tiles(s) = TileOf(s, part, c)
           /\ UnitOf(s, part, c, b) % k_tiles(s) = b \div BlocksPerTile
  <1>1. k_tiles(s) \in Nat \ {0} /\ TilesOf(s, part) \in Nat \ {0}
    BY ShapeFacts
  <1>2. TileOf(s, part, c) \in 0..(TilesOf(s, part) - 1)
    BY TileFacts
  <1>3. b \div BlocksPerTile \in 0..(k_tiles(s) - 1)
    BY CeilDivFacts, ProductAssumption DEF InnerOf, IsShape, k_tiles
  <1> DEFINE m == k_tiles(s)
             n == TilesOf(s, part)
             q == TileOf(s, part, c)
             r == b \div BlocksPerTile
  <1>4. UnitOf(s, part, c, b) = q * m + r /\ UnitsOf(s, part) = n * m
    BY DEF UnitOf, UnitsOf
  <1>5. m \in Nat \ {0} /\ n \in Nat /\ q \in 0..(n - 1) /\ r \in 0..(m - 1)
    BY <1>1, <1>2, <1>3
  <1> HIDE DEF n, m, q, r
  <1>6. q * m + r \in 0..(n * m - 1) /\ (q * m + r) \div m = q /\ (q * m + r) % m = r
    BY <1>5, CellOf
  <1> QED BY <1>3, <1>4, <1>6 DEF m, q, r

\* No other unit has that tile and K tile.
LEMMA UnitIs ==
    ASSUME NEW s, IsShape(s), NEW part, IsPart(part), NEW c \in CellsOf(s, part), NEW b \in InnerOf(s),
           NEW u \in Nat, u \div k_tiles(s) = TileOf(s, part, c), u % k_tiles(s) = b \div BlocksPerTile
    PROVE  u = UnitOf(s, part, c, b)
  <1> DEFINE K == k_tiles(s)
             q == TileOf(s, part, c)
             r == b \div BlocksPerTile
  <1>1. K \in Nat \ {0} /\ q \in Nat /\ r \in Nat /\ u \in Int
    BY ShapeFacts, TileFacts, UnitFacts
  <1>2. u \div K = q /\ u % K = r /\ UnitOf(s, part, c, b) = q * K + r
    BY DEF UnitOf
  <1> HIDE DEF K, q, r
  <1>3. u = K * (u \div K) + (u % K)
    BY ONLY <1>1, Division
  <1>4. u = K * q + r
    BY <1>2, <1>3
  <1>5. K * q = q * K
    BY <1>1
  <1> QED BY <1>2, <1>4, <1>5

\* The last unit of the tile a cell lies in.
LEMMA LastFacts ==
    ASSUME NEW s, IsShape(s), NEW part, IsPart(part), NEW c \in CellsOf(s, part)
    PROVE  /\ LastUnit(s, part, c) \in 0..(UnitsOf(s, part) - 1)
           /\ LastUnit(s, part, c) \div k_tiles(s) = TileOf(s, part, c)
  <1>1. k_tiles(s) \in Nat \ {0} /\ TilesOf(s, part) \in Nat \ {0}
    BY ShapeFacts
  <1>2. TileOf(s, part, c) \in 0..(TilesOf(s, part) - 1)
    BY TileFacts
  <1>3. k_tiles(s) - 1 \in 0..(k_tiles(s) - 1)
    BY <1>1
  <1> QED BY <1>1, <1>2, <1>3, CellOf DEF LastUnit, UnitsOf

\* A quotient and a remainder below the divisor are the ones of the division.
LEMMA DivisionIs ==
    ASSUME NEW a \in Int, NEW b \in Nat \ {0}, NEW q \in Int, NEW r \in Int,
           a = b * q + r, 0 <= r, r < b
    PROVE  a \div b = q /\ a % b = r
  <1>1. b * q \in Int /\ b * (q + 1) = b * q + b
    OBVIOUS
  <1>2. a < b * (q + 1) /\ b * q <= a
    BY <1>1
  <1>3. a \div b <= q /\ q <= a \div b
    BY <1>2, QuotientAtMost, QuotientAtLeast
  <1>4. a \div b \in Int /\ a % b \in Int /\ a = b * (a \div b) + (a % b)
    BY Division
  <1>5. a \div b = q
    BY <1>3, <1>4
  <1>6. a = b * q + (a % b)
    BY <1>4, <1>5
  <1> QED BY <1>1, <1>4, <1>5, <1>6

\* A remainder of zero is divisibility.
LEMMA Divides ==
    ASSUME NEW a \in Int, NEW b \in Nat \ {0}, a % b = 0
    PROVE  a \div b \in Int /\ a = b * (a \div b)
  <1>1. a \div b \in Int /\ a = b * (a \div b) + (a % b)
    BY Division
  <1> DEFINE w == b * (a \div b)
  <1>2. w \in Int
    BY <1>1
  <1> HIDE DEF w
  <1>3. a = w + 0
    BY <1>1 DEF w
  <1>4. a = w
    BY <1>2, <1>3
  <1> QED BY <1>1, <1>4 DEF w

\* Multiples of a multiple.
LEMMA MultipleOf ==
    ASSUME NEW a \in Int, NEW b \in Nat \ {0}, NEW k \in Int, a % b = 0
    PROVE  \E w \in Int : k * a = b * w
  <1> DEFINE d == a \div b
  <1>1. d \in Int /\ a = b * d
    BY Divides
  <1> HIDE DEF d
  <1>2. k * d \in Int /\ k * (b * d) = b * (k * d)
    BY <1>1
  <1> QED BY <1>1, <1>2

\* Multiples of the divisor do not change a remainder.
LEMMA RemainderShift ==
    ASSUME NEW a \in Int, NEW b \in Nat \ {0}, NEW w \in Int
    PROVE  (a - b * w) % b = a % b
  <1> DEFINE q == a \div b
             r == a % b
  <1>1. q \in Int /\ r \in Int /\ a = b * q + r /\ 0 <= r /\ r < b
    BY Division
  <1> HIDE DEF q, r
  <1>2. a - b * w \in Int /\ q - w \in Int /\ b * (q - w) = b * q - b * w
    BY <1>1
  <1>3. b * q \in Int /\ b * w \in Int
    BY <1>1
  <1>4. a - b * w = b * (q - w) + r
    BY <1>1, <1>2, <1>3
  <1>5. (a - b * w) % b = r
    BY <1>1, <1>2, <1>4, DivisionIs
  <1> QED BY <1>5 DEF r

\* A row and its partner half a fragment away are both rows of the matrix.
LEMMA PartnerRow ==
    ASSUME NEW rows \in Nat, NEW H \in Nat \ {0}, rows % (2 * H) = 0,
           NEW row \in Nat, row < rows
    PROVE  /\ row % (2 * H) >= H \/ row + H < rows
           /\ row % (2 * H) \in Int
  <1> DEFINE h == 2 * H
             k == rows \div h
             q == row \div h
             r == row % h
  <1>1. h \in Nat \ {0}
    OBVIOUS
  <1>2. k \in Int /\ rows = h * k
    <2> HIDE DEF h
    <2> QED BY <1>1, Divides DEF h
  <1>3. q \in Int /\ r \in Int /\ row = h * q + r /\ 0 <= r /\ r < h
    <2> HIDE DEF h
    <2> QED BY <1>1, Division
  <1>4. h = 2 * H
    OBVIOUS
  <1> HIDE DEF h, k, q, r
  <1>5. h * q \in Int /\ h * k \in Int /\ h * (q + 1) = h * q + h
    BY <1>1, <1>2, <1>3
  <1>6. q + 1 <= k
    <2>1. SUFFICES ASSUME k <= q PROVE FALSE
      BY <1>2, <1>3
    <2>2. h * k <= h * q
      BY <1>1, <1>2, <1>3, <2>1, Products
    <2> QED BY <1>2, <1>3, <1>5, <2>2
  <1>7. h * (q + 1) <= h * k
    BY <1>1, <1>2, <1>3, <1>6, Products
  <1>8. h * q + h <= rows
    BY <1>2, <1>5, <1>7
  <1>9. r >= H \/ row + H < rows
    BY <1>3, <1>4, <1>5, <1>8
  <1> QED BY <1>3, <1>9 DEF r, h

\* A number lies in the q-th interval of length n when its quotient is q.
LEMMA IntervalQuotient ==
    ASSUME NEW x \in Nat, NEW n \in Nat \ {0}, NEW q \in Int
    PROVE  x \in (q * n)..(q * n + n - 1) <=> x \div n = q
  <1>1. /\ x \div n \in Int /\ x % n \in Int
        /\ x = n * (x \div n) + (x % n) /\ 0 <= x % n /\ x % n < n
    BY Division
  <1>2. q * n \in Int /\ n * q = q * n /\ n * (q + 1) = q * n + n
    OBVIOUS
  <1>3. ASSUME x \in (q * n)..(q * n + n - 1) PROVE x \div n = q
    <2>1. x < n * (q + 1) /\ n * q <= x
      BY <1>2, <1>3
    <2>2. x \div n <= q /\ q <= x \div n
      BY <2>1, QuotientAtMost, QuotientAtLeast
    <2> QED BY <1>1, <2>2
  <1>4. ASSUME x \div n = q PROVE x \in (q * n)..(q * n + n - 1)
    BY <1>1, <1>2, <1>4
  <1> QED BY <1>3, <1>4

\* A cell lies in exactly one tile.
LEMMA InTileMeans ==
    ASSUME IsShape(shape), NEW part, IsPart(part), NEW c \in CellsOf(shape, part), NEW t \in Nat
    PROVE  InTile(part, t, c[1], c[2]) <=> t = TileOf(shape, part, c)
  <1> DEFINE m == row_tiles(shape)
             q == c[2] \div part.tokens
             r == c[1] \div RowTile
  <1>1. m \in Nat \ {0} /\ q \in Nat /\ r \in 0..(m - 1)
    BY ShapeFacts, TileFacts
  <1>2. c[1] \in Nat /\ c[2] \in Nat /\ c[2] < part.batch /\ part.batch \in Nat
    BY DEF CellsOf, IsPart
  <1>3. RowTile \in Nat \ {0} /\ part.tokens \in Nat \ {0}
    BY ProductAssumption DEF IsPart
  <1>4. /\ t \div m \in Int /\ t % m \in Int /\ t = m * (t \div m) + (t % m)
    <2>1. m \in Nat \ {0} /\ t \in Int
      BY <1>1
    <2> HIDE DEF m
    <2> QED BY <2>1, Division
  <1>5. InTile(part, t, c[1], c[2]) <=> r = t % m /\ q = t \div m
    <2> DEFINE x == t % m
               y == t \div m
               row == c[1]
               col == c[2]
               width == part.tokens
    <2>1. /\ x \in Int /\ y \in Int /\ row \in Nat /\ col \in Nat /\ width \in Nat \ {0}
          /\ r = row \div RowTile /\ q = col \div width
      BY <1>2, <1>3, <1>4
    <2>2. InTile(part, t, c[1], c[2]) <=>
              row \in (x * RowTile)..(x * RowTile + RowTile - 1)
              /\ col \in (y * width)..(y * width + width - 1)
      BY <1>2 DEF InTile, RowBase, TokenBase
    <2> HIDE DEF x, y, row, col, width, q, r
    <2>3. row \in (x * RowTile)..(x * RowTile + RowTile - 1) <=> row \div RowTile = x
      BY <1>3, <2>1, IntervalQuotient
    <2>4. col \in (y * width)..(y * width + width - 1) <=> col \div width = y
      BY <2>1, IntervalQuotient
    <2> QED BY <2>1, <2>2, <2>3, <2>4 DEF x, y
  <1>6. TileOf(shape, part, c) = q * m + r
    BY DEF TileOf
  <1>7. TileOf(shape, part, c) \div m = q /\ TileOf(shape, part, c) % m = r
    BY TileFacts
  <1> HIDE DEF m, q, r
  <1>8. m * q = q * m
    BY <1>1
  <1> QED BY <1>4, <1>5, <1>6, <1>7, <1>8

\* No tile of a part reaches a column before it.
LEMMA InTileColumns ==
    ASSUME IsShape(shape), NEW part, IsPart(part), NEW t \in Nat, NEW row, NEW token \in Int,
           InTile(part, t, row, token)
    PROVE  0 <= token /\ token < part.batch
  <1>1. row_tiles(shape) \in Nat \ {0} /\ part.tokens \in Nat \ {0}
    BY ShapeFacts DEF IsPart
  <1>2. row_tiles(shape) * 0 <= t
    BY <1>1
  <1>3. 0 <= t \div row_tiles(shape) /\ t \div row_tiles(shape) \in Int
    BY <1>1, <1>2, Division, QuotientAtLeast
  <1>4. part.tokens * 0 <= part.tokens * (t \div row_tiles(shape))
    BY <1>1, <1>3, Products
  <1>5. 0 <= TokenBase(part, t) /\ TokenBase(part, t) \in Int
    BY <1>1, <1>3, <1>4 DEF TokenBase
  <1> QED BY <1>1, <1>5 DEF InTile

\* A main part covers the first columns of the call and reads their packed rows.
Leads(s, part) ==
    /\ IsPart(part) /\ part.offset = 0 /\ part.stride = s.batch /\ part.batch <= s.batch

\* What a thread block adds: its chunks of the column, from the column's rows.
LEMMA ContributionOf ==
    ASSUME IsShape(shape), shape.path # "plain",
           activation = qwen_quantize_q8_mmq_batch(shape),
           NEW part, Leads(shape, part), NEW token \in 0..(part.batch - 1), NEW ks
    PROVE  Contribution(part, token, ks) =
               [b \in InnerBlocks |-> IF b \div BlocksPerTile \in ks THEN 1 ELSE 0]
  <1> SUFFICES ASSUME NEW b \in InnerBlocks
               PROVE  Reads(part_activation(part) + (b \div Group) * part.stride + token,
                            b \div Group, part.offset + token)
    BY DEF Contribution
  <1> DEFINE m == shape.batch
             n == shape.blocks \div Group
             q == b \div Group
  <1>1. m \in Nat \ {0} /\ shape.blocks \in Nat \ {0} /\ Group \in Nat \ {0}
    BY ProductAssumption DEF IsShape
  <1>2. part_activation(part) = 0 /\ part.offset = 0 /\ part.stride = m
    BY <1>1 DEF Leads, part_activation
  <1>3. token \in 0..(m - 1)
    BY <1>1 DEF Leads, IsPart
  <1>4. n \in Int /\ shape.blocks = Group * n
    <2> DEFINE x == shape.blocks
    <2>1. x \in Int /\ x % Group = 0
      BY <1>1 DEF IsShape
    <2> HIDE DEF x
    <2>2. x \div Group \in Int /\ x = Group * (x \div Group)
      BY <1>1, <2>1, Divides
    <2> QED BY <2>2 DEF x
  <1>5. b \in Nat /\ b < Group * ((n - 1) + 1) /\ Group * 0 <= b
    BY <1>1, <1>4 DEF InnerBlocks
  <1>6. q \in Int /\ 0 <= q /\ q <= n - 1
    BY <1>1, <1>4, <1>5, QuotientAtMost, QuotientAtLeast, Division
  <1>7. q \in 0..(n - 1) /\ n \in Nat
    BY <1>4, <1>6
  <1>8. DOMAIN activation = 0..(m * n - 1)
    BY DEF qwen_quantize_q8_mmq_batch
  <1>9. \A a \in 0..(m * n - 1) : activation[a] = <<a \div m, a % m>>
    BY DEF qwen_quantize_q8_mmq_batch
  <1> HIDE DEF m, n, q
  <1>10. q * m + token \in 0..(n * m - 1) /\ (q * m + token) \div m = q /\ (q * m + token) % m = token
    BY <1>1, <1>3, <1>7, CellOf
  <1>11. n * m = m * n
    BY <1>1, <1>7
  <1>12. activation[q * m + token] = <<q, token>> /\ q * m + token \in DOMAIN activation
    BY <1>8, <1>9, <1>10, <1>11
  <1>13. 0 + q * m + token = q * m + token /\ 0 + token = token
    BY <1>1, <1>3, <1>7
  <1>14. Reads(q * m + token, q, token)
    BY <1>12 DEF Reads
  <1> QED BY <1>2, <1>13, <1>14 DEF q

\* The tensor-core lanes write every cell of a reached part.
LEMMA WritesAll ==
    ASSUME IsShape(shape), shape.rows % (2 * HalfFragment) = 0,
           NEW part, IsPart(part), part.batch % 2 = 0, part.tokens \in {TokenTile, 2 * TokenTile},
           NEW c \in CellsOf(shape, part)
    PROVE  Written(part, TileOf(shape, part, c), c[1], c[2])
  <1> DEFINE h == 2 * HalfFragment
             q == c[2] \div part.tokens
             r == c[1] \div RowTile
             row == c[1]
  <1>1. /\ RowBase(TileOf(shape, part, c)) = r * RowTile
        /\ TokenBase(part, TileOf(shape, part, c)) = q * part.tokens
    BY TileFacts DEF RowBase, TokenBase
  <1>2. row \in Nat /\ row < shape.rows /\ shape.rows \in Nat
        /\ c[2] \in Nat /\ c[2] < part.batch /\ part.batch \in Nat
    BY DEF CellsOf, IsPart, IsShape
  <1>3. HalfFragment \in Nat \ {0} /\ h \in Nat \ {0} /\ RowTile \in Nat \ {0} /\ RowTile % h = 0
        /\ TokenTile \in Nat \ {0} /\ TokenTile % 2 = 0
    BY ProductAssumption
  <1>4. part.tokens \in Nat \ {0}
    BY DEF IsPart
  <1> DEFINE base == r * RowTile
             tokenBase == q * part.tokens
  <1>5. q \in Int /\ r \in Int
    <2> DEFINE col == c[2]
               width == part.tokens
    <2>1. row \in Int /\ col \in Int /\ width \in Nat \ {0}
      BY <1>2, <1>4
    <2> HIDE DEF row, col, width
    <2>2. row \div RowTile \in Int /\ col \div width \in Int
      BY <1>3, <2>1, Division
    <2> QED BY <2>2 DEF row, col, width
  <1>6. row \in base..(base + RowTile - 1) /\ c[2] \in tokenBase..(tokenBase + part.tokens - 1)
    <2> DEFINE col == c[2]
               width == part.tokens
    <2>1. col \in Nat /\ row \in Nat /\ width \in Nat \ {0} /\ q = col \div width /\ r = row \div RowTile
      BY <1>2, <1>4
    <2> HIDE DEF col, width, row, q, r
    <2>2. row \in (r * RowTile)..(r * RowTile + RowTile - 1)
      BY <1>3, <1>5, <2>1, IntervalQuotient
    <2>3. col \in (q * width)..(q * width + width - 1)
      BY <1>3, <1>5, <2>1, IntervalQuotient
    <2> QED BY <2>2, <2>3 DEF col, width
  <1>7. base \in Int /\ tokenBase \in Int
    BY <1>3, <1>4, <1>5
  <1>8. \E w \in Int : tokenBase = 2 * w
    <2> DEFINE width == part.tokens
               two == 2
    <2>1. width % two = 0 /\ width \in Int /\ two \in Nat \ {0} /\ q \in Int
      BY <1>3, <1>4, <1>5
    <2> HIDE DEF q, width, two
    <2>2. \E w \in Int : q * width = two * w
      BY <2>1, MultipleOf
    <2> QED BY <2>2 DEF width, two
  <1>9. Computed(part, c[2] - tokenBase)
    BY <1>2, <1>3, <1>6, <1>7 DEF Computed
  <1>10. tokenBase + ((c[2] - tokenBase) - ((c[2] - tokenBase) % 2)) + 1 < part.batch
    <2> HIDE DEF tokenBase
    <2> QED BY <1>2, <1>7, <1>8
  <1>11. (row - base) % h = row % h
    <2> HIDE DEF h, r, row
    <2>1. h \in Nat \ {0} /\ RowTile \in Int /\ RowTile % h = 0 /\ r \in Int
      BY <1>3, <1>5
    <2>2. PICK w \in Int : r * RowTile = h * w
      BY <2>1, MultipleOf
    <2>3. row \in Int
      BY <1>2 DEF row
    <2>4. (row - h * w) % h = row % h
      BY <2>1, <2>3, RemainderShift
    <2> QED BY <2>2, <2>4
  <1>12. (row % h >= HalfFragment \/ row + HalfFragment < shape.rows) /\ row % h \in Int
    <2> HIDE DEF row
    <2> QED BY <1>2, <1>3, PartnerRow DEF row
  <1>13. base + ((row - base) - (IF (row - base) % h >= HalfFragment THEN HalfFragment ELSE 0))
             + HalfFragment < shape.rows
    <2> HIDE DEF h, base, row
    <2>1. row \in Nat /\ row < shape.rows
      BY <1>2 DEF row
    <2>2. CASE row % h >= HalfFragment
      BY <1>2, <1>3, <1>7, <1>11, <2>1, <2>2
    <2>3. CASE ~(row % h >= HalfFragment)
      BY <1>2, <1>3, <1>7, <1>11, <1>12, <2>1, <2>3
    <2> QED BY <2>2, <2>3
  <1> QED BY <1>1, <1>9, <1>10, <1>13 DEF Written

---------------------------------------------------------------------------
\* Products of counts are counts.
LEMMA Positive ==
    ASSUME NEW x \in Nat \ {0}, NEW y \in Nat \ {0}
    PROVE  x * y \in Nat \ {0}
  <1>1. x * 1 <= x * y /\ x * y \in Int
    BY Products
  <1> QED BY <1>1

\* Tiles and grids are never empty.
LEMMA GridFacts ==
    ASSUME NEW s, IsShape(s)
    PROVE  /\ \A n \in Nat \ {0} : tile_count(s, n) \in Nat \ {0}
           /\ grid_blocks(s) \in Nat \ {0} /\ KernelTokens(s) \in Nat \ {0}
  <1>1. row_tiles(s) \in Nat \ {0} /\ k_tiles(s) \in Nat \ {0}
    BY CeilDivFacts, ProductAssumption DEF IsShape, row_tiles, k_tiles
  <1>2. s.tokens \in Nat \ {0} /\ s.batch \in Nat \ {0}
    BY TokensFacts DEF IsShape
  <1>3. ASSUME NEW n \in Nat \ {0} PROVE tile_count(s, n) \in Nat \ {0}
    <2>1. CeilDiv(n, s.tokens) \in Nat \ {0}
      BY <1>2, CeilDivFacts
    <2> QED BY <1>1, <2>1, Positive DEF tile_count
  <1>4. tile_count(s, s.batch) * k_tiles(s) \in Nat \ {0}
    BY <1>1, <1>2, <1>3, Positive
  <1>5. grid_blocks(s) \in Nat \ {0}
    BY <1>2, <1>3, <1>4, ProductAssumption DEF grid_blocks, LeastOf
  <1>6. KernelTokens(s) \in Nat \ {0}
    BY <1>2, ProductAssumption DEF KernelTokens
  <1> QED BY <1>3, <1>5, <1>6

\* The parts of a tiled call: one, or the whole tiles and then the tail.
Tiled(s, launches) ==
    /\ Len(launches) \in {1, 2}
    /\ Leads(s, launches[1]) /\ launches[1].tokens = KernelTokens(s)
    /\ ~split_token_tail(s) =>
           Len(launches) = 1 /\ launches[1].batch = s.batch /\ launches[1].grid = grid_blocks(s)
    /\ split_token_tail(s) =>
           /\ Len(launches) = 2 /\ IsPart(launches[2]) /\ launches[2].offset = full_batch(s)
           /\ launches[1].batch = full_batch(s) /\ launches[1].grid = tile_count(s, full_batch(s))
           /\ full_batch(s) \in Nat \ {0} /\ full_batch(s) <= s.batch

\* The launches of fortai_cuda_q8_matmul_device_f32 are such parts.
LEMMA LaunchesTiled ==
    ASSUME NEW s, IsShape(s), s.path # "plain"
    PROVE  Tiled(s, Launches(s))
  <1> DEFINE f == full_batch(s)
  <1>1. /\ s.batch \in Nat \ {0} /\ s.tokens \in Nat \ {0} /\ KernelTokens(s) \in Nat \ {0}
        /\ grid_blocks(s) \in Nat \ {0} /\ \A n \in Nat \ {0} : tile_count(s, n) \in Nat \ {0}
    BY GridFacts, TokensFacts DEF IsShape
  <1>2. CASE ~split_token_tail(s)
    <2>1. Launches(s) = <<Part(0, s.batch, s.batch, KernelTokens(s), grid_blocks(s))>>
      BY <1>2 DEF Launches
    <2> QED BY <1>1, <1>2, <2>1 DEF Tiled, Leads, IsPart, Part
  <1>3. CASE split_token_tail(s)
    <2>1. f \in Nat \ {0} /\ f < s.batch
      <3> DEFINE n == s.batch
                 w == s.tokens
      <3>1. n \in Nat \ {0} /\ w \in Nat \ {0} /\ n > w /\ n % w # 0
        BY <1>1, <1>3 DEF split_token_tail
      <3>2. f = (n \div w) * w
        BY DEF full_batch
      <3> HIDE DEF f, n, w
      <3>3. /\ n \div w \in Int /\ n % w \in Int /\ n = w * (n \div w) + (n % w)
            /\ 0 <= n % w /\ n % w < w
        BY <3>1, Division
      <3>4. w * (n \div w) = (n \div w) * w /\ w * (n \div w) \in Int
        BY <3>1, <3>3
      <3>5. w * 1 <= n
        BY <3>1
      <3>6. 1 <= n \div w
        BY <3>1, <3>5, QuotientAtLeast
      <3>7. w * 1 <= w * (n \div w)
        BY <3>1, <3>3, <3>6, Products
      <3>8. f \in Nat \ {0} /\ f < n
        BY <3>1, <3>2, <3>3, <3>4, <3>7
      <3> QED BY <3>8 DEF n
    <2>2. Launches(s) = <<Part(0, f, s.batch, KernelTokens(s), tile_count(s, f)),
                          Part(f, s.batch - f, s.batch, KernelTokens(s), tile_count(s, s.batch - f))>>
      BY <1>3 DEF Launches
    <2>3. s.batch - f \in Nat \ {0}
      BY <1>1, <2>1
    <2> HIDE DEF f
    <2>4. IsPart(Part(0, f, s.batch, KernelTokens(s), tile_count(s, f)))
      BY <1>1, <2>1 DEF IsPart, Part
    <2>5. IsPart(Part(f, s.batch - f, s.batch, KernelTokens(s), tile_count(s, s.batch - f)))
      BY <1>1, <2>1, <2>3 DEF IsPart, Part
    <2> QED BY <1>1, <1>3, <2>1, <2>2, <2>4, <2>5 DEF Tiled, Leads, Part, f
  <1> QED BY <1>2, <1>3

\* Without a fix-up kernel the blocks take whole tiles.
LEMMA WholeGrid ==
    ASSUME NEW s, IsShape(s), s.path = "mma", s.tokens # (3 * TokenTile) \div 2,
           ~needs_fixup(s), NEW part, part = Launches(s)[1]
    PROVE  k_tiles(s) = 1 \/ TilesOf(s, part) % part.grid = 0
  <1>1. Tiled(s, Launches(s)) /\ IsPart(part)
    BY LaunchesTiled DEF Tiled, Leads
  <1>2. s.tokens \in {TokenTile, 2 * TokenTile}
    BY DEF IsShape, TileTokens
  <1>3. part.tokens = s.tokens
    BY <1>1, <1>2, ProductAssumption DEF Tiled, KernelTokens
  <1>4. TilesOf(s, part) = tile_count(s, part.batch)
    BY <1>3 DEF TilesOf, tile_count
  <1>5. TilesOf(s, part) \in Nat \ {0} /\ k_tiles(s) \in Nat \ {0}
    BY <1>1, ShapeFacts
  <1>6. \A n \in Nat \ {0} : n % n = 0
    <2>1. SUFFICES ASSUME NEW n \in Nat \ {0} PROVE n % n = 0
      OBVIOUS
    <2>2. n = n * 1 + 0
      OBVIOUS
    <2> QED BY <2>2, DivisionIs
  <1>7. CASE split_token_tail(s)
    BY <1>1, <1>4, <1>5, <1>6, <1>7 DEF Tiled
  <1>8. CASE ~split_token_tail(s) /\ ~s.streamK
    <2>1. part.grid = tile_count(s, s.batch) /\ part.batch = s.batch
      BY <1>1, <1>8 DEF Tiled, grid_blocks
    <2> QED BY <1>4, <1>5, <1>6, <2>1
  <1>9. CASE ~split_token_tail(s) /\ s.streamK
    <2>1. part.grid = grid_blocks(s) /\ part.batch = s.batch
      BY <1>1, <1>9 DEF Tiled
    <2>2. k_tiles(s) > 1 => tile_count(s, s.batch) % grid_blocks(s) = 0
      BY <1>9 DEF needs_fixup
    <2> QED BY <1>4, <1>5, <2>1, <2>2
  <1> QED BY <1>7, <1>8, <1>9

\* Then a block holds all units of a tile or none.
LEMMA WholeTiles ==
    ASSUME NEW s, IsShape(s), NEW part, IsPart(part),
           k_tiles(s) = 1 \/ TilesOf(s, part) % part.grid = 0,
           NEW u \in Nat, NEW v \in Nat, u \div k_tiles(s) = v \div k_tiles(s),
           NEW i \in 0..(part.grid - 1), u \in Holder(s, part, i)
    PROVE  v \in Holder(s, part, i)
  <1> DEFINE K == k_tiles(s)
             T == TilesOf(s, part)
             G == part.grid
  <1>1. K \in Nat \ {0} /\ T \in Nat \ {0} /\ G \in Nat \ {0} /\ i \in Int
    BY ShapeFacts DEF IsPart
  <1>2. Holder(s, part, i) = First(T * K, i, G)..(First(T * K, i + 1, G) - 1)
    BY DEF Holder, UnitsOf, Share
  <1>3. u \div K = v \div K /\ u \in First(T * K, i, G)..(First(T * K, i + 1, G) - 1)
    BY <1>2
  <1>4. K = 1 \/ T % G = 0
    OBVIOUS
  <1> HIDE DEF K, T, G
  <1>5. CASE K = 1
    <2>1. u = 1 * u + 0 /\ v = 1 * v + 0
      OBVIOUS
    <2>2. u \div 1 = u /\ v \div 1 = v
      BY <2>1
    <2> QED BY <1>2, <1>3, <1>5, <2>2
  <1>6. CASE T % G = 0
    <2> DEFINE m == T \div G
    <2>1. m \in Int /\ T = G * m
      BY <1>1, <1>6, Divides
    <2> HIDE DEF m
    <2>2. ASSUME NEW j \in Int PROVE First(T * K, j, G) = K * (m * j)
      <3>1. K * (m * j) \in Int /\ (G * m) * K * j = G * (K * (m * j)) + 0
        BY <1>1, <2>1
      <3>2. T * K * j = G * (K * (m * j)) + 0
        BY <2>1, <3>1
      <3>3. T * K * j \in Int
        BY <1>1
      <3>4. (T * K * j) \div G = K * (m * j)
        BY <1>1, <3>1, <3>2, <3>3, DivisionIs
      <3> QED BY <3>4 DEF First
    <2> DEFINE x == m * i
               y == m * (i + 1)
               q == v \div K
    <2>3. x \in Int /\ y \in Int /\ First(T * K, i, G) = K * x /\ First(T * K, i + 1, G) = K * y
      BY <1>1, <2>1, <2>2
    <2>4. u \div K = q /\ q \in Int
      BY <1>1, <1>3, Division
    <2> HIDE DEF x, y, q
    <2>5. K * x \in Int /\ K * y \in Int /\ K * x <= u /\ u < K * y
      BY <1>1, <1>3, <2>3
    <2>6. x <= q
      <3>1. u \in Int /\ K \in Nat \ {0} /\ x \in Int /\ K * x <= u
        BY <1>1, <2>3, <2>5
      <3>2. x <= u \div K
        BY ONLY <3>1, QuotientAtLeast
      <3> QED BY <2>4, <3>2
    <2>7. q <= y - 1
      <3>1. K * ((y - 1) + 1) = K * y /\ y - 1 \in Int
        BY <1>1, <2>3
      <3> QED BY <1>1, <2>4, <2>5, <3>1, QuotientAtMost
    <2>8. v = K * q + (v % K) /\ 0 <= v % K /\ v % K < K /\ v % K \in Int
      BY <1>1, Division DEF q
    <2>9. K * x <= K * q /\ K * (q + 1) <= K * y /\ K * (q + 1) = K * q + K /\ K * q \in Int
      BY <1>1, <2>3, <2>4, <2>6, <2>7, Products
    <2>10. K * x <= v /\ v < K * y
      BY <1>1, <2>5, <2>8, <2>9
    <2> QED BY <1>2, <2>3, <2>5, <2>10
  <1> QED BY <1>4, <1>5, <1>6

\* Every unit has one holder.
LEMMA OneHolder ==
    ASSUME NEW s, IsShape(s), NEW part, IsPart(part), NEW u \in 0..(UnitsOf(s, part) - 1)
    PROVE  /\ \E i \in 0..(part.grid - 1) : u \in Holder(s, part, i)
           /\ \A i, j \in 0..(part.grid - 1) :
                  u \in Holder(s, part, i) /\ u \in Holder(s, part, j) => i = j
  <1>1. UnitsOf(s, part) \in Nat /\ part.grid \in Nat \ {0}
    BY ShapeFacts DEF IsPart
  <1>2. \E i \in 0..(part.grid - 1) : u \in Holder(s, part, i)
    BY <1>1, SharesPartition DEF Holder
  <1>3. \A i, j \in 0..(part.grid - 1) : i # j =>
            Share(UnitsOf(s, part), i, part.grid) \intersect Share(UnitsOf(s, part), j, part.grid) = {}
    BY <1>1, SharesPartition
  <1>4. \A i, j \in 0..(part.grid - 1) : i # j => Holder(s, part, i) \intersect Holder(s, part, j) = {}
    BY <1>3 DEF Holder
  <1> QED BY <1>2, <1>4

---------------------------------------------------------------------------
(* The invariant of a product.                                               *)

AllCells(s) == (0..(s.rows - 1)) \X (0..(s.batch - 1))

ProductType(s, prod) == prod \in [AllCells(s) -> [set : BOOLEAN, sum : [InnerOf(s) -> Nat]]]

\* Every cell outside a split tail holds each chunk once.
AllExact(s, prod) ==
    \A c \in AllCells(s) :
        \/ split_token_tail(s) /\ c[2] >= full_batch(s)
        \/ prod[c].set /\ \A b \in InnerOf(s) : prod[c].sum[b] = 1

\* The scalar tiled kernel: a chunk is in a cell when the block it was dealt to
\* has run.
Dealt(s, part, run, prod) ==
    \A c \in CellsOf(s, part), b \in InnerOf(s) :
        /\ UnitOf(s, part, c, b) % part.grid \notin run => prod[c].set /\ prod[c].sum[b] = 1
        /\ k_tiles(s) > 1 => /\ prod[c].set
                             /\ UnitOf(s, part, c, b) % part.grid \in run => prod[c].sum[b] = 0

\* The tensor-core kernel: a cell is written by the holder of its last chunk.
Settled(s, part, run, prod) ==
    \A i \in (0..(part.grid - 1)) \ run, c \in CellsOf(s, part) :
        LastUnit(s, part, c) \in Holder(s, part, i) =>
            /\ prod[c].set
            /\ \A b \in InnerOf(s) :
                   prod[c].sum[b] = IF UnitOf(s, part, c, b) \in Holder(s, part, i) THEN 1 ELSE 0

\* The other holders of a cell's chunks leave theirs in their fix-up slot.
LeftOver(s, part, run, fix) ==
    /\ DOMAIN fix = 0..(part.grid - 1)
    /\ \A i \in run : DOMAIN fix[i].sum = {}
    /\ \A i \in (0..(part.grid - 1)) \ run, c \in CellsOf(s, part), b \in InnerOf(s) :
           (c \in DOMAIN fix[i].sum /\ fix[i].sum[c][b] = 1) <=>
               /\ LastUnit(s, part, c) \notin Holder(s, part, i)
               /\ UnitOf(s, part, c, b) \in Holder(s, part, i)

\* While the thread blocks `run' of the first launch have still to run.
FirstPart(s, part, run, prod, fix) ==
    /\ s.path = "plain" => (run = {} => AllExact(s, prod))
    /\ s.path = "dp4a" => Dealt(s, part, run, prod)
    /\ s.path = "mma" => /\ Settled(s, part, run, prod)
                         /\ needs_fixup(s) => LeftOver(s, part, run, fix)

Packed(s, act) ==
    act = IF s.path = "plain" THEN qwen_quantize_q8_batch(s) ELSE qwen_quantize_q8_mmq_batch(s)

\* Before the tail of a split call all other cells are exact.
ProductInv ==
    /\ progress \in {"idle", "running", "done", "failed"}
    /\ progress \in {"running", "done"} => IsShape(shape)
    /\ progress = "running" =>
           /\ Packed(shape, activation) /\ ProductType(shape, product)
           /\ running \subseteq 0..(parts[1].grid - 1)
           /\ \/ parts = Launches(shape) /\ (Reached => FirstPart(shape, parts[1], running, product, fixup))
              \/ /\ split_token_tail(shape) /\ parts = Tail(Launches(shape))
                 /\ Reached => AllExact(shape, product)
    /\ progress = "done" /\ Reached => AllExact(shape, product)

---------------------------------------------------------------------------
(* One thread block.                                                         *)

\* What one thread block of the scalar tiled kernel does to a cell.
LEMMA LayoutBlock ==
    ASSUME IsShape(shape), shape.path # "plain", Packed(shape, activation),
           NEW part, Leads(shape, part), part.batch = shape.batch,
           NEW i \in 0..(part.grid - 1), q8_gemm_batch_mmq_layout(part, i),
           NEW c \in AllCells(shape)
    PROVE  LET mine == {b \in InnerOf(shape) : UnitOf(shape, part, c, b) % part.grid = i}
               sum == [b \in InnerOf(shape) |-> IF b \in mine THEN 1 ELSE 0]
           IN  \/ mine = {} /\ product'[c] = product[c]
               \/ k_tiles(shape) = 1 /\ mine # {} /\ product'[c] = [set |-> TRUE, sum |-> sum]
               \/ k_tiles(shape) # 1 /\ product'[c] = Plus(product[c], sum)
  <1> DEFINE K == k_tiles(shape)
             U == UnitsOf(shape, part)
             units == {u \in 0..(PartTiles(part) * k_tiles(shape) - 1) : u % part.grid = i}
             Ks == {u % k_tiles(shape) :
                       u \in {v \in units : InTile(part, v \div k_tiles(shape), c[1], c[2])}}
             mine == {b \in InnerOf(shape) : UnitOf(shape, part, c, b) % part.grid = i}
             sum == [b \in InnerOf(shape) |-> IF b \in mine THEN 1 ELSE 0]
  <1>1. IsPart(part) /\ c \in CellsOf(shape, part) /\ c \in Cells
    BY DEF Leads, CellsOf, AllCells, Cells
  <1>2. K \in Nat \ {0} /\ U \in Nat \ {0} /\ PartTiles(part) * K = U
    BY <1>1, ShapeFacts DEF UnitsOf, TilesOf, PartTiles
  <1>3. ASSUME NEW b \in InnerOf(shape) PROVE b \div BlocksPerTile \in Ks <=> b \in mine
    <2> DEFINE w == UnitOf(shape, part, c, b)
    <2>1. /\ w \in 0..(U - 1) /\ w \div K = TileOf(shape, part, c) /\ w % K = b \div BlocksPerTile
      BY <1>1, UnitFacts
    <2>2. ASSUME b \in mine PROVE b \div BlocksPerTile \in Ks
      <3>1. w \in units
        BY <1>2, <2>1, <2>2
      <3>2. TileOf(shape, part, c) \in Nat
        BY <1>1, TileFacts
      <3>3. InTile(part, w \div K, c[1], c[2])
        BY <1>1, <2>1, <3>2, InTileMeans
      <3> HIDE DEF w
      <3> QED BY <2>1, <3>1, <3>3
    <2>3. ASSUME b \div BlocksPerTile \in Ks PROVE b \in mine
      <3>1. PICK u \in units : InTile(part, u \div K, c[1], c[2]) /\ u % K = b \div BlocksPerTile
        BY <2>3
      <3>2. u \in Nat /\ u % part.grid = i
        BY <1>2
      <3>3. u \div K \in Nat
        <4> HIDE DEF K
        <4>1. K * 0 <= u
          BY <1>2, <3>2
        <4> QED BY <1>2, <3>2, <4>1, Division, QuotientAtLeast
      <3>4. u \div K = TileOf(shape, part, c)
        BY <1>1, <3>1, <3>3, InTileMeans
      <3>5. u = w
        BY <1>1, <3>1, <3>2, <3>4, UnitIs
      <3> QED BY <3>2, <3>5
    <2> QED BY <2>2, <2>3
  <1>4. c[2] \in 0..(part.batch - 1)
    BY <1>1 DEF CellsOf
  <1>5. Contribution(part, c[2], Ks) = sum
    <2>1. Contribution(part, c[2], Ks) =
              [b \in InnerBlocks |-> IF b \div BlocksPerTile \in Ks THEN 1 ELSE 0]
      <3>1. activation = qwen_quantize_q8_mmq_batch(shape)
        BY DEF Packed
      <3> HIDE DEF Ks
      <3> QED BY <1>4, <3>1, ContributionOf
    <2> HIDE DEF Ks, mine
    <2> QED BY <1>3, <2>1 DEF InnerBlocks, InnerOf
  <1>6. product'[c] = IF Ks = {} THEN product[c]
                      ELSE IF K = 1 THEN [set |-> TRUE, sum |-> Contribution(part, c[2], Ks)]
                      ELSE Plus(product[c], Contribution(part, c[2], Ks))
    BY <1>1 DEF q8_gemm_batch_mmq_layout
  <1>7. Ks = {} => mine = {}
    <2> HIDE DEF Ks
    <2> QED BY <1>3
  <1>8. K = 1 /\ Ks # {} => mine # {}
    <2>1. SUFFICES ASSUME K = 1, NEW k \in Ks PROVE mine # {}
      OBVIOUS
    <2>2. k = 0
      <3>1. PICK u \in Nat : k = u % K
        <4>1. units \subseteq Nat
          BY <1>2
        <4> HIDE DEF units
        <4> QED BY <2>1, <4>1
      <3> HIDE DEF K, Ks
      <3>2. u = 1 * u + 0 /\ u \in Int
        OBVIOUS
      <3>3. u % 1 = 0
        BY <3>2, DivisionIs
      <3> QED BY <2>1, <3>1, <3>3
    <2>3. 0 \in InnerOf(shape) /\ 0 \div BlocksPerTile = 0
      BY ProductAssumption DEF IsShape, InnerOf
    <2> HIDE DEF Ks, mine
    <2> QED BY <1>3, <2>1, <2>2, <2>3
  <1> HIDE DEF Ks, sum, K, mine
  <1> QED BY <1>5, <1>6, <1>7, <1>8 DEF sum, K, mine

\* The range of units of a thread block.
LEMMA RangeIsHolder ==
    ASSUME IsShape(shape), NEW part, IsPart(part), NEW i \in 0..(part.grid - 1)
    PROVE  /\ UnitStart(part, i) \in Int /\ UnitStart(part, i + 1) \in Int
           /\ UnitStart(part, i)..(UnitStart(part, i + 1) - 1) = Holder(shape, part, i)
           /\ Holder(shape, part, i) \subseteq 0..(UnitsOf(shape, part) - 1)
  <1> DEFINE T == TilesOf(shape, part)
             K == k_tiles(shape)
             G == part.grid
  <1>1. T \in Nat \ {0} /\ K \in Nat \ {0} /\ G \in Nat \ {0} /\ T * K \in Nat
    BY ShapeFacts DEF IsPart, UnitsOf
  <1>2. PartTiles(part) = T /\ UnitsOf(shape, part) = T * K
    BY DEF PartTiles, TilesOf, UnitsOf
  <1> HIDE DEF T, K, G
  <1>3. ASSUME NEW j \in Int PROVE UnitStart(part, j) = First(T * K, j, G) /\ First(T * K, j, G) \in Int
    <2>1. j * T * K = T * K * j
      BY <1>1
    <2>2. UnitStart(part, j) = (j * T * K) \div G
      BY <1>2 DEF UnitStart, K, G
    <2> QED BY <1>1, <2>1, <2>2, FirstInt DEF First
  <1>4. i \in 0..(G - 1) /\ i \in Int /\ i + 1 \in Int
    BY <1>1 DEF G
  <1>5. Holder(shape, part, i) = Share(T * K, i, G)
    BY <1>2 DEF Holder, G
  <1>6. Share(T * K, i, G) \subseteq 0..(T * K - 1)
    BY <1>1, <1>4, SharesPartition
  <1>7. Share(T * K, i, G) = First(T * K, i, G)..(First(T * K, i + 1, G) - 1)
    BY DEF Share
  <1> QED BY <1>2, <1>3, <1>4, <1>5, <1>6, <1>7

\* A block that works on a tile ends it when it holds the tile's last unit.
LEMMA ClosesTile ==
    ASSUME IsShape(shape), NEW part, IsPart(part), NEW i \in 0..(part.grid - 1),
           NEW c \in CellsOf(shape, part)
    PROVE  LET t == TileOf(shape, part, c)
           IN  LastUnit(shape, part, c) \in Holder(shape, part, i) <=>
                   /\ \E u \in Holder(shape, part, i) : u \div k_tiles(shape) = t
                   /\ ~StopsInside(t, UnitStart(part, i + 1))
  <1> DEFINE t == TileOf(shape, part, c)
             K == k_tiles(shape)
             last == LastUnit(shape, part, c)
             start == UnitStart(part, i)
             stop == UnitStart(part, i + 1)
             mine == Holder(shape, part, i)
  <1>1. K \in Nat \ {0} /\ t \in Nat /\ last \in Nat /\ last \div K = t
    BY ShapeFacts, TileFacts, LastFacts
  <1>2. start \in Int /\ stop \in Int /\ mine = start..(stop - 1) /\ mine \subseteq Nat
    BY RangeIsHolder
  <1>3. last = t * K + (K - 1) /\ (StopsInside(t, stop) <=> stop < (t + 1) * K)
    BY DEF LastUnit, StopsInside
  <1> HIDE DEF t, K, last, start, stop, mine
  <1>4. t * K \in Int /\ (t + 1) * K = t * K + K
    BY <1>1
  <1>5. StopsInside(t, stop) <=> stop <= last
    BY <1>1, <1>2, <1>3, <1>4
  <1>6. ASSUME last \in mine PROVE (\E u \in mine : u \div K = t) /\ ~StopsInside(t, stop)
    <2>1. ~(stop <= last)
      BY <1>1, <1>2, <1>6
    <2> QED BY <1>1, <1>5, <1>6, <2>1
  <1>7. ASSUME NEW u \in mine, u \div K = t, ~StopsInside(t, stop) PROVE last \in mine
    <2>1. u \in Nat /\ u \in Int
      BY <1>2
    <2>2. u = K * (u \div K) + (u % K) /\ u % K < K /\ u % K \in Int
      BY ONLY <1>1, <2>1, Division
    <2>3. K * t = t * K
      BY <1>1
    <2>4. u <= last
      BY <1>1, <1>3, <1>4, <1>7, <2>1, <2>2, <2>3
    <2>5. start <= u
      BY <1>2, <2>1
    <2> QED BY <1>1, <1>2, <1>5, <1>7, <2>1, <2>4, <2>5
  <1>8. last \in mine <=> (\E u \in mine : u \div K = t) /\ ~StopsInside(t, stop)
    BY <1>6, <1>7
  <1> QED BY <1>8 DEF t, K, last, stop, mine

\* The chunks a block adds to a cell are the cell's units in its range.
LEMMA TakesChunk ==
    ASSUME IsShape(shape), NEW part, IsPart(part), NEW i \in 0..(part.grid - 1),
           NEW c \in CellsOf(shape, part), NEW b \in InnerOf(shape)
    PROVE  UnitOf(shape, part, c, b) \in Holder(shape, part, i) <=>
               \E u \in Holder(shape, part, i) :
                   u \div k_tiles(shape) = TileOf(shape, part, c) /\ u % k_tiles(shape) = b \div BlocksPerTile
  <1>1. Holder(shape, part, i) \subseteq Nat
    BY RangeIsHolder
  <1>2. /\ UnitOf(shape, part, c, b) \div k_tiles(shape) = TileOf(shape, part, c)
        /\ UnitOf(shape, part, c, b) % k_tiles(shape) = b \div BlocksPerTile
    BY UnitFacts
  <1> QED BY <1>1, <1>2, UnitIs

\* The chunks of tile t in a block's range, and what they add to a cell.
ChunksOf(s, part, i, t) == {u % k_tiles(s) : u \in {v \in Holder(s, part, i) : v \div k_tiles(s) = t}}
SumOf(s, part, i, c) == [b \in InnerOf(s) |-> IF UnitOf(s, part, c, b) \in Holder(s, part, i) THEN 1 ELSE 0]

\* The tiles a block works on, as the kernel finds them, and what it adds there.
LEMMA BlockTiles ==
    ASSUME IsShape(shape), shape.path = "mma", Packed(shape, activation),
           shape.rows % (2 * HalfFragment) = 0,
           NEW part, Leads(shape, part), part.batch % 2 = 0, part.tokens \in {TokenTile, 2 * TokenTile},
           NEW i \in 0..(part.grid - 1), NEW c \in CellsOf(shape, part)
    PROVE  LET K == k_tiles(shape)
               mine == Holder(shape, part, i)
               t == TileOf(shape, part, c)
           IN  /\ \A x \in {u \div K : u \in mine} :
                      (InTile(part, x, c[1], c[2] - part.offset)
                       /\ Written(part, x, c[1], c[2] - part.offset)) <=> x = t
               /\ Contribution(part, c[2] - part.offset, ChunksOf(shape, part, i, t)) =
                      SumOf(shape, part, i, c)
  <1> DEFINE K == k_tiles(shape)
             mine == Holder(shape, part, i)
             t == TileOf(shape, part, c)
             Ks == ChunksOf(shape, part, i, t)
  <1>1. IsPart(part) /\ part.offset = 0 /\ c[2] \in 0..(part.batch - 1) /\ c[2] - part.offset = c[2]
    BY DEF Leads, IsPart, CellsOf
  <1>2. K \in Nat \ {0} /\ mine \subseteq Nat
    BY <1>1, ShapeFacts, RangeIsHolder
  <1>3. ASSUME NEW u \in mine PROVE u \div K \in Nat
    <2> HIDE DEF K, mine
    <2>1. u \in Int /\ K * 0 <= u
      BY <1>2
    <2>2. u \div K \in Int /\ 0 <= u \div K
      BY <1>2, <2>1, Division, QuotientAtLeast
    <2> QED BY <2>2
  <1>4. ASSUME NEW x \in {u \div K : u \in mine}
        PROVE  (InTile(part, x, c[1], c[2]) /\ Written(part, x, c[1], c[2])) <=> x = t
    <2>1. x \in Nat
      BY <1>3
    <2>2. InTile(part, x, c[1], c[2]) <=> x = t
      BY <1>1, <2>1, InTileMeans
    <2>3. Written(part, t, c[1], c[2])
      BY <1>1, WritesAll
    <2> QED BY <2>2, <2>3
  <1>5. ASSUME NEW b \in InnerOf(shape)
        PROVE  b \div BlocksPerTile \in Ks <=> UnitOf(shape, part, c, b) \in mine
    <2>1. UnitOf(shape, part, c, b) \in mine <=> \E u \in mine : u \div K = t /\ u % K = b \div BlocksPerTile
      BY <1>1, TakesChunk
    <2>2. Ks = {u % K : u \in {v \in mine : v \div K = t}}
      BY DEF ChunksOf
    <2> HIDE DEF K, mine, t, Ks
    <2> QED BY <2>1, <2>2
  <1>6. Contribution(part, c[2], Ks) = [b \in InnerBlocks |-> IF b \div BlocksPerTile \in Ks THEN 1 ELSE 0]
    <2>1. activation = qwen_quantize_q8_mmq_batch(shape) /\ shape.path # "plain"
      BY DEF Packed
    <2> HIDE DEF Ks
    <2> QED BY <1>1, <2>1, ContributionOf
  <1>7. Contribution(part, c[2], Ks) = SumOf(shape, part, i, c)
    <2>1. SumOf(shape, part, i, c) =
              [b \in InnerOf(shape) |-> IF UnitOf(shape, part, c, b) \in mine THEN 1 ELSE 0]
      BY DEF SumOf
    <2> HIDE DEF Ks, mine
    <2> QED BY <1>5, <1>6, <2>1 DEF InnerBlocks, InnerOf
  <1> QED BY <1>1, <1>4, <1>7

\* What one thread block of the tensor-core kernel does to a cell of its part.
LEMMA MmaBlock ==
    ASSUME IsShape(shape), shape.path = "mma", Packed(shape, activation),
           shape.rows % (2 * HalfFragment) = 0,
           NEW part, Leads(shape, part), part.batch % 2 = 0, part.tokens \in {TokenTile, 2 * TokenTile},
           NEW i \in 0..(part.grid - 1), q8_gemm_batch_mmq_mma_layout(part, i),
           NEW c \in CellsOf(shape, part)
    PROVE  /\ LastUnit(shape, part, c) \in Holder(shape, part, i) =>
                  product'[c] = [set |-> TRUE, sum |-> SumOf(shape, part, i, c)]
           /\ LastUnit(shape, part, c) \notin Holder(shape, part, i) => product'[c] = product[c]
  <1> DEFINE K == k_tiles(shape)
             mine == Holder(shape, part, i)
             t == TileOf(shape, part, c)
             stop == UnitStart(part, i + 1)
             tiles == {u \div K : u \in mine}
             Ks(x) == ChunksOf(shape, part, i, x)
             Hits(x) == /\ InTile(part, x, c[1], c[2] - part.offset)
                        /\ Written(part, x, c[1], c[2] - part.offset)
             Sum(x) == Contribution(part, c[2] - part.offset, Ks(x))
             Ends(x) == ~StopsInside(x, stop) /\ Hits(x)
             sum == SumOf(shape, part, i, c)
  <1>1. IsPart(part) /\ part.offset = 0 /\ c \in Cells
    BY DEF Leads, IsPart, CellsOf, Cells, IsShape
  <1>2. product'[c] = IF \E x \in tiles : Ends(x)
                      THEN [set |-> TRUE, sum |-> Sum(CHOOSE x \in tiles : Ends(x))]
                      ELSE product[c]
    <2> DEFINE R == UnitStart(part, i)..(UnitStart(part, i + 1) - 1)
               Touched == {u \div K : u \in R}
               Chunks(x) == {u % K : u \in {v \in R : v \div K = x}}
               In(x, d) == /\ InTile(part, x, d[1], d[2] - part.offset)
                           /\ Written(part, x, d[1], d[2] - part.offset)
               Added(x, d) == Contribution(part, d[2] - part.offset, Chunks(x))
    <2>1. R = mine
      BY <1>1, RangeIsHolder
    <2>2. product' = [d \in Cells |->
              IF \E x \in Touched : ~StopsInside(x, stop) /\ In(x, d)
              THEN [set |-> TRUE,
                    sum |-> Added(CHOOSE x \in Touched : ~StopsInside(x, stop) /\ In(x, d), d)]
              ELSE product[d]]
      BY Zenon DEF q8_gemm_batch_mmq_mma_layout
    <2>3. Touched = tiles /\ \A x : Chunks(x) = Ks(x)
      BY <2>1 DEF ChunksOf
    <2>4. \A x : Added(x, c) = Sum(x) /\ (In(x, c) <=> Hits(x))
      BY <2>3
    <2> HIDE DEF Touched, tiles, Added, Sum, In, Hits
    <2>5. product'[c] =
              IF \E x \in Touched : ~StopsInside(x, stop) /\ In(x, c)
              THEN [set |-> TRUE,
                    sum |-> Added(CHOOSE x \in Touched : ~StopsInside(x, stop) /\ In(x, c), c)]
              ELSE product[c]
      BY <1>1, <2>2
    <2>6. (CHOOSE x \in Touched : ~StopsInside(x, stop) /\ In(x, c)) = (CHOOSE x \in tiles : Ends(x))
      BY <2>3, <2>4
    <2> QED BY <2>3, <2>4, <2>5, <2>6
  <1>3. ASSUME NEW x \in tiles PROVE Hits(x) <=> x = t
    BY BlockTiles
  <1>4. Sum(t) = sum
    BY BlockTiles
  <1>5. LastUnit(shape, part, c) \in mine <=> t \in tiles /\ ~StopsInside(t, stop)
    BY <1>1, ClosesTile
  <1> HIDE DEF K, mine, t, stop, tiles, Hits, Sum, sum
  <1>6. \A x \in tiles : Ends(x) => x = t
    BY <1>3
  <1>7. CASE LastUnit(shape, part, c) \in mine
    <2>1. t \in tiles /\ Ends(t)
      BY <1>3, <1>5, <1>7
    <2>2. (CHOOSE x \in tiles : Ends(x)) = t
      BY <1>6, <2>1
    <2>3. product'[c] = [set |-> TRUE, sum |-> Sum(t)]
      BY <1>2, <2>1, <2>2
    <2> QED BY <1>4, <1>7, <2>3 DEF mine, sum
  <1>8. CASE LastUnit(shape, part, c) \notin mine
    <2>1. ~\E x \in tiles : Ends(x)
      BY <1>3, <1>5, <1>8
    <2> QED BY <1>2, <1>8, <2>1 DEF mine
  <1> QED BY <1>7, <1>8

\* What it leaves in its fix-up slot.
LEMMA MmaFixup ==
    ASSUME IsShape(shape), shape.path = "mma", Packed(shape, activation),
           shape.rows % (2 * HalfFragment) = 0,
           NEW part, Leads(shape, part), part.batch % 2 = 0, part.tokens \in {TokenTile, 2 * TokenTile},
           NEW i \in 0..(part.grid - 1), q8_gemm_batch_mmq_mma_layout(part, i),
           i \in DOMAIN fixup, DOMAIN fixup[i].sum = {}
    PROVE  /\ DOMAIN fixup' = DOMAIN fixup
           /\ \A j \in DOMAIN fixup : j # i => fixup'[j] = fixup[j]
           /\ \A c \in CellsOf(shape, part), b \in InnerOf(shape) :
                  (c \in DOMAIN fixup'[i].sum /\ fixup'[i].sum[c][b] = 1) <=>
                      /\ LastUnit(shape, part, c) \notin Holder(shape, part, i)
                      /\ UnitOf(shape, part, c, b) \in Holder(shape, part, i)
  <1> DEFINE K == k_tiles(shape)
             mine == Holder(shape, part, i)
             start == UnitStart(part, i)
             stop == UnitStart(part, i + 1)
             tiles == {u \div K : u \in mine}
             Ks(x) == ChunksOf(shape, part, i, x)
             Hits(x, c) == /\ InTile(part, x, c[1], c[2] - part.offset)
                           /\ Written(part, x, c[1], c[2] - part.offset)
             Sum(x, c) == Contribution(part, c[2] - part.offset, Ks(x))
             left == {x \in tiles : StopsInside(x, stop)}
             t == CHOOSE x \in left : TRUE
             slot == [tile |-> t, sum |-> [c \in {d \in Cells : Hits(t, d)} |-> Sum(t, c)]]
  <1>1. IsPart(part) /\ CellsOf(shape, part) \subseteq Cells
    BY DEF Leads, IsPart, CellsOf, Cells, IsShape
  <1>2. start \in Int /\ stop \in Int /\ mine = start..(stop - 1) /\ mine \subseteq Nat
    BY <1>1, RangeIsHolder
  <1>3. fixup' = IF left = {} THEN fixup ELSE [fixup EXCEPT ![i] = slot]
    <2> HIDE DEF mine
    <2>1. \A x : Ks(x) = {u % K : u \in {v \in mine : v \div K = x}}
      BY DEF ChunksOf, mine
    <2> HIDE DEF Ks
    <2> QED BY <1>2, <2>1 DEF q8_gemm_batch_mmq_mma_layout
  <1>4. \A x, y \in left : x = y
    <2>1. K \in Nat \ {0}
      BY <1>1, ShapeFacts
    <2>2. ASSUME NEW x \in left PROVE x = (stop - 1) \div K
      <3>1. PICK u \in mine : u \div K = x
        OBVIOUS
      <3>2. stop < (x + 1) * K
        BY <2>2 DEF StopsInside
      <3> HIDE DEF K, mine, start, stop
      <3>3. u \in Int /\ u <= stop - 1 /\ stop - 1 \in Int
        BY <1>2
      <3>4. u \div K \in Int /\ u % K \in Int /\ u = K * (u \div K) + (u % K) /\ 0 <= u % K
        BY ONLY <2>1, <3>3, Division
      <3>5. x \in Int /\ K * x \in Int /\ (x + 1) * K = K * (x + 1)
        BY <2>1, <3>1, <3>4
      <3>6. K * x <= stop - 1 /\ stop - 1 < K * (x + 1)
        BY <1>2, <2>1, <3>1, <3>2, <3>3, <3>4, <3>5
      <3>7. (stop - 1) \div K <= x /\ x <= (stop - 1) \div K /\ (stop - 1) \div K \in Int
        BY ONLY <2>1, <3>3, <3>5, <3>6, QuotientAtMost, QuotientAtLeast, Division
      <3> QED BY <3>5, <3>7
    <2> HIDE DEF left, K, stop
    <2>3. \A x \in left : x = (stop - 1) \div K
      BY <2>2
    <2> QED BY <2>3
  <1>5. ASSUME NEW c \in CellsOf(shape, part), NEW b \in InnerOf(shape)
        PROVE  (c \in DOMAIN fixup'[i].sum /\ fixup'[i].sum[c][b] = 1) <=>
                   /\ LastUnit(shape, part, c) \notin mine
                   /\ UnitOf(shape, part, c, b) \in mine
    <2> DEFINE w == TileOf(shape, part, c)
               sum == SumOf(shape, part, i, c)
    <2>1. ASSUME NEW x \in tiles PROVE Hits(x, c) <=> x = w
      BY BlockTiles
    <2>2. Sum(w, c) = sum
      BY BlockTiles
    <2>3. LastUnit(shape, part, c) \in mine <=> w \in tiles /\ ~StopsInside(w, stop)
      BY <1>1, ClosesTile
    <2>4. UnitOf(shape, part, c, b) \in mine => w \in tiles
      BY <1>1, UnitFacts
    <2>5. sum[b] = 1 <=> UnitOf(shape, part, c, b) \in mine
      BY DEF SumOf
    <2> HIDE DEF w, sum, Sum, Hits, tiles, mine, stop
    <2>6. CASE left = {}
      BY <1>3, <2>3, <2>4, <2>6
    <2>7. CASE left # {}
      <3>1. t \in left
        BY <2>7
      <3> HIDE DEF t
      <3>2. fixup'[i].sum = [d \in {e \in Cells : Hits(t, e)} |-> Sum(t, d)]
        BY <1>3, <2>7
      <3>3. c \in DOMAIN fixup'[i].sum <=> t = w
        BY <1>1, <2>1, <3>1, <3>2
      <3>4. ASSUME t = w PROVE fixup'[i].sum[c] = sum
        BY <1>1, <2>1, <2>2, <3>1, <3>2, <3>4
      <3>5. w \in tiles /\ StopsInside(w, stop) <=> t = w
        <4>1. w \in left <=> w \in tiles /\ StopsInside(w, stop)
          BY DEF left
        <4> HIDE DEF left
        <4> QED BY <1>4, <3>1, <4>1
      <3> QED BY <2>3, <2>4, <2>5, <3>3, <3>4, <3>5
    <2> QED BY <2>6, <2>7
  <1>6. DOMAIN fixup' = DOMAIN fixup /\ \A j \in DOMAIN fixup : j # i => fixup'[j] = fixup[j]
    <2> HIDE DEF left, slot
    <2> QED BY <1>3
  <1> QED BY <1>5, <1>6

---------------------------------------------------------------------------
(* The call.                                                                 *)

\* The product keeps its shape.
LEMMA ProductTyped ==
    ASSUME IsShape(shape), ProductType(shape, product), NEW i, RunBlock(i)
    PROVE  ProductType(shape, product')
  <1> DEFINE Cell == [set : BOOLEAN, sum : [InnerOf(shape) -> Nat]]
  <1>1. Cells = AllCells(shape) /\ InnerBlocks = InnerOf(shape)
    BY DEF Cells, AllCells, InnerBlocks, InnerOf
  <1>2. \A c \in Cells : product[c] \in Cell
    BY <1>1 DEF ProductType
  <1>3. \A part, token, ks : Contribution(part, token, ks) \in [InnerOf(shape) -> Nat]
    BY <1>1 DEF Contribution
  <1>4. \A cell \in Cell, sum \in [InnerOf(shape) -> Nat] : Plus(cell, sum) \in Cell
    <2>1. SUFFICES ASSUME NEW cell \in Cell, NEW sum \in [InnerOf(shape) -> Nat]
                   PROVE  Plus(cell, sum) \in Cell
      OBVIOUS
    <2>2. \A b \in InnerOf(shape) : cell.sum[b] + sum[b] \in Nat
      BY <2>1
    <2> QED BY <1>1, <2>1, <2>2 DEF Plus
  <1>5. \A sum \in [InnerOf(shape) -> Nat] : [set |-> TRUE, sum |-> sum] \in Cell
    OBVIOUS
  <1>6. CASE q8_gemm_batch
    BY <1>1, <1>6 DEF q8_gemm_batch, ProductType
  <1>7. CASE q8_gemm_batch_mmq_layout(Head(parts), i)
    <2> HIDE DEF Cell
    <2>1. \A c \in Cells : product'[c] \in Cell
      BY <1>2, <1>3, <1>4, <1>5, <1>7 DEF q8_gemm_batch_mmq_layout
    <2>2. product' = [c \in Cells |-> product'[c]]
      BY <1>7 DEF q8_gemm_batch_mmq_layout
    <2>3. product' \in [Cells -> Cell]
      BY <2>1, <2>2
    <2> QED BY <1>1, <2>3 DEF ProductType, Cell
  <1>8. CASE q8_gemm_batch_mmq_mma_layout(Head(parts), i)
    <2> HIDE DEF Cell
    <2>1. \A c \in Cells : product'[c] \in Cell
      BY <1>2, <1>3, <1>5, <1>8 DEF q8_gemm_batch_mmq_mma_layout
    <2>2. product' = [c \in Cells |-> product'[c]]
      BY <1>8 DEF q8_gemm_batch_mmq_mma_layout
    <2>3. product' \in [Cells -> Cell]
      BY <2>1, <2>2
    <2> QED BY <1>1, <2>3 DEF ProductType, Cell
  <1>9. shape.path \in {"plain", "dp4a", "mma"}
    BY DEF IsShape
  <1> QED BY <1>6, <1>7, <1>8, <1>9 DEF RunBlock

\* The kernel of short shapes computes every cell in one step.
LEMMA PlainBlock ==
    ASSUME IsShape(shape), shape.path = "plain", Packed(shape, activation), Reached, q8_gemm_batch
    PROVE  AllExact(shape, product')
  <1> SUFFICES ASSUME NEW c \in AllCells(shape), NEW b \in InnerOf(shape)
               PROVE  product'[c].sum[b] = 1
    <2>1. ASSUME NEW c \in AllCells(shape) PROVE product'[c].set
      BY DEF q8_gemm_batch, AllCells, Cells
    <2> QED BY <2>1 DEF AllExact
  <1>1. c \in Cells /\ b \in InnerBlocks
    BY DEF Cells, AllCells, InnerBlocks, InnerOf
  <1>2. /\ Lanes \in Nat \ {0} /\ shape.blocks \in Nat \ {0} /\ shape.batch \in Nat \ {0}
        /\ b \in 0..(shape.blocks - 1)
    BY ProductAssumption DEF IsShape, InnerOf
  <1>3. b % (4 * Lanes) < threads(shape.blocks)
    <2> DEFINE w == 4 * Lanes
               n == shape.blocks
    <2>1. w \in Nat \ {0} /\ b \in Int /\ 0 <= b /\ b < n /\ n \in Nat /\ w = 4 * Lanes
      BY <1>2
    <2>2. threads(n) \in Int /\ threads(n) <= w /\ (n > 3 * Lanes => threads(n) = w)
      BY <1>2 DEF threads
    <2>3. n <= threads(n) \/ n > 3 * Lanes
      BY DEF Reached
    <2> HIDE DEF w, n
    <2>4. CASE n > 3 * Lanes
      <3>1. b % w < w
        BY <2>1, Division
      <3> QED BY <2>2, <2>4, <3>1 DEF w, n
    <2>5. CASE n <= threads(n)
      <3>1. b < w /\ b = w * 0 + b
        BY <2>1, <2>2, <2>5
      <3>2. b % w = b
        BY <2>1, <3>1, DivisionIs
      <3> QED BY <2>1, <2>2, <2>5, <3>2 DEF w, n
    <2> QED BY <2>3, <2>4, <2>5
  <1>4. Reads(c[2] * shape.blocks + b, b, c[2])
    <2> DEFINE m == shape.blocks
               n == shape.batch
               q == c[2]
    <2>1. m \in Nat \ {0} /\ n \in Nat /\ q \in 0..(n - 1) /\ b \in 0..(m - 1)
      BY <1>2 DEF AllCells
    <2>2. activation = [a \in 0..(n * m - 1) |-> <<a % m, a \div m>>]
      BY DEF Packed, qwen_quantize_q8_batch
    <2> HIDE DEF m, n, q
    <2>3. q * m + b \in 0..(n * m - 1) /\ (q * m + b) \div m = q /\ (q * m + b) % m = b
      BY <2>1, CellOf
    <2>4. q * m + b \in DOMAIN activation /\ activation[q * m + b] = <<b, q>>
      BY <2>2, <2>3
    <2> QED BY <2>4 DEF Reads, m, q
  <1> QED BY <1>1, <1>3, <1>4 DEF q8_gemm_batch

\* The scalar tiled kernel, block by block.
LEMMA DealtBlock ==
    ASSUME IsShape(shape), shape.path = "dp4a", Packed(shape, activation), ProductType(shape, product),
           NEW part, Leads(shape, part), part.batch = shape.batch,
           NEW run, NEW i \in 0..(part.grid - 1), i \in run, q8_gemm_batch_mmq_layout(part, i),
           Dealt(shape, part, run, product)
    PROVE  Dealt(shape, part, run \ {i}, product')
  <1> SUFFICES ASSUME NEW c \in CellsOf(shape, part), NEW b \in InnerOf(shape)
               PROVE  LET o == UnitOf(shape, part, c, b) % part.grid
                      IN  /\ o \notin run \ {i} => product'[c].set /\ product'[c].sum[b] = 1
                          /\ k_tiles(shape) > 1 => /\ product'[c].set
                                                   /\ o \in run \ {i} => product'[c].sum[b] = 0
    BY DEF Dealt
  <1> DEFINE o(d) == UnitOf(shape, part, c, d) % part.grid
             K == k_tiles(shape)
             mine == {d \in InnerOf(shape) : o(d) = i}
             sum == [d \in InnerOf(shape) |-> IF d \in mine THEN 1 ELSE 0]
             x == product[c]
             y == product'[c]
  <1>1. c \in AllCells(shape)
    BY DEF CellsOf, AllCells
  <1>2. x \in [set : BOOLEAN, sum : [InnerOf(shape) -> Nat]]
    BY <1>1 DEF ProductType
  <1>3. /\ o(b) \notin run => x.set /\ x.sum[b] = 1
        /\ K > 1 => x.set /\ (o(b) \in run => x.sum[b] = 0)
    BY DEF Dealt
  <1>4. \/ mine = {} /\ y = x
        \/ K = 1 /\ y = [set |-> TRUE, sum |-> sum] /\ mine # {}
        \/ K # 1 /\ y = Plus(x, sum)
    BY <1>1, LayoutBlock
  <1>5. K \in Nat \ {0}
    BY ShapeFacts DEF Leads
  <1>6. K = 1 => \A d \in InnerOf(shape) : o(d) = o(b)
    <2>1. ASSUME NEW d \in InnerOf(shape), K = 1 PROVE d \div BlocksPerTile = 0
      <3>1. d \div BlocksPerTile \in 0..(K - 1)
        BY UnitFacts DEF Leads
      <3> QED BY <2>1, <3>1
    <2> QED BY <2>1 DEF UnitOf
  <1>7. b \in mine <=> o(b) = i
    OBVIOUS
  <1>8. sum[b] = IF o(b) = i THEN 1 ELSE 0
    OBVIOUS
  <1>9. sum \in [InnerOf(shape) -> Nat]
    OBVIOUS
  <1> HIDE DEF o, K, mine, sum, x, y
  <1>10. CASE mine = {} /\ y = x
    BY <1>3, <1>7, <1>10 DEF o, K, y
  <1>11. CASE K = 1 /\ y = [set |-> TRUE, sum |-> sum] /\ mine # {}
    <2>1. o(b) = i
      <3>1. PICK d \in mine : TRUE
        BY <1>11
      <3>2. d \in InnerOf(shape) /\ o(d) = i
        BY <3>1 DEF mine
      <3> QED BY <1>6, <1>11, <3>2
    <2> QED BY <1>8, <1>11, <2>1 DEF o, K, y
  <1>12. CASE K # 1 /\ y = Plus(x, sum)
    <2>1. K > 1
      BY <1>5, <1>12
    <2>2. y.set = x.set /\ y.sum[b] = x.sum[b] + sum[b]
      <3>1. InnerBlocks = InnerOf(shape)
        BY DEF InnerBlocks, InnerOf
      <3> QED BY <1>2, <1>9, <1>12, <3>1 DEF Plus
    <2>3. CASE o(b) = i
      <3>1. x.set /\ x.sum[b] = 0 /\ sum[b] = 1
        BY <1>3, <1>8, <2>1, <2>3
      <3> QED BY <2>2, <2>3, <3>1 DEF o, K, y
    <2>4. CASE o(b) # i
      <3>1. x.set /\ sum[b] = 0 /\ x.sum[b] \in Nat
        BY <1>2, <1>3, <1>8, <2>1, <2>4
      <3>2. y.set /\ y.sum[b] = x.sum[b]
        BY <2>2, <3>1
      <3> QED BY <1>3, <2>1, <2>4, <3>2 DEF o, K, y
    <2> QED BY <2>3, <2>4
  <1> QED BY <1>4, <1>10, <1>11, <1>12

\* The main part of a reached tensor-core call.
ReachedPart(s, part) ==
    /\ s.path = "mma" /\ s.rows % (2 * HalfFragment) = 0
    /\ Leads(s, part) /\ part.batch % 2 = 0 /\ part.tokens \in {TokenTile, 2 * TokenTile}
    /\ ~needs_fixup(s) => k_tiles(s) = 1 \/ TilesOf(s, part) % part.grid = 0

\* The first launch of a reached call is such a part.
LEMMA MainPart ==
    ASSUME IsShape(shape), shape.path = "mma", Reached
    PROVE  ReachedPart(shape, Launches(shape)[1])
  <1> DEFINE part == Launches(shape)[1]
  <1>1. Tiled(shape, Launches(shape)) /\ Leads(shape, part)
    BY LaunchesTiled DEF Tiled
  <1>2. /\ shape.rows % (2 * HalfFragment) = 0 /\ shape.batch % 2 = 0
        /\ shape.tokens # (3 * TokenTile) \div 2
    BY DEF Reached
  <1>3. shape.tokens \in {TokenTile, 2 * TokenTile}
    BY <1>2 DEF IsShape, TileTokens
  <1>4. part.tokens = shape.tokens
    BY <1>1, <1>3, ProductAssumption DEF Tiled, KernelTokens
  <1>5. part.batch % 2 = 0
    <2>1. CASE ~split_token_tail(shape)
      BY <1>1, <1>2, <2>1 DEF Tiled
    <2>2. CASE split_token_tail(shape)
      <3> DEFINE k == shape.batch \div shape.tokens
                 w == shape.tokens
                 two == 2
      <3>1. full_batch(shape) = k * w
        BY DEF full_batch
      <3>2. w \in Nat \ {0} /\ w % two = 0 /\ two \in Nat \ {0} /\ shape.batch \in Int
        BY <1>3, ProductAssumption DEF IsShape
      <3>3. k \in Int
        <4> DEFINE n == shape.batch
        <4>1. n \in Int
          BY <3>2
        <4> HIDE DEF n, w
        <4>2. n \div w \in Int
          BY <3>2, <4>1, Division
        <4> QED BY <4>2 DEF n, w
      <3> HIDE DEF k, w, two
      <3>4. PICK x \in Int : k * w = two * x
        <4>1. k \in Int /\ w \in Int /\ w % two = 0 /\ two \in Nat \ {0}
          BY <3>2, <3>3
        <4> QED BY ONLY <4>1, MultipleOf
      <3>5. full_batch(shape) = 2 * x
        BY <3>1, <3>4 DEF two
      <3>6. full_batch(shape) % 2 = 0
        BY <3>5
      <3> QED BY <1>1, <2>2, <3>6 DEF Tiled
    <2> QED BY <2>1, <2>2
  <1>6. ~needs_fixup(shape) => k_tiles(shape) = 1 \/ TilesOf(shape, part) % part.grid = 0
    BY <1>2, WholeGrid
  <1> QED BY <1>1, <1>2, <1>3, <1>4, <1>5, <1>6 DEF ReachedPart

\* The tensor-core kernel, block by block: the cells.
LEMMA SettledBlock ==
    ASSUME IsShape(shape), Packed(shape, activation), NEW part, ReachedPart(shape, part),
           NEW run, NEW i \in 0..(part.grid - 1), q8_gemm_batch_mmq_mma_layout(part, i),
           Settled(shape, part, run, product)
    PROVE  Settled(shape, part, run \ {i}, product')
  <1> SUFFICES ASSUME NEW j \in 0..(part.grid - 1), j \notin run \ {i}, NEW c \in CellsOf(shape, part),
                      LastUnit(shape, part, c) \in Holder(shape, part, j)
               PROVE  /\ product'[c].set
                      /\ \A b \in InnerOf(shape) : product'[c].sum[b] =
                             IF UnitOf(shape, part, c, b) \in Holder(shape, part, j) THEN 1 ELSE 0
    BY DEF Settled
  <1>1. IsPart(part)
    BY DEF ReachedPart, Leads
  <1>2. /\ LastUnit(shape, part, c) \in Holder(shape, part, i) =>
               product'[c] = [set |-> TRUE, sum |-> SumOf(shape, part, i, c)]
        /\ LastUnit(shape, part, c) \notin Holder(shape, part, i) => product'[c] = product[c]
    BY MmaBlock DEF ReachedPart
  <1>3. CASE j = i
    BY <1>2, <1>3 DEF SumOf
  <1>4. CASE j # i
    <2>1. LastUnit(shape, part, c) \in 0..(UnitsOf(shape, part) - 1)
      BY <1>1, LastFacts
    <2>2. LastUnit(shape, part, c) \notin Holder(shape, part, i)
      BY <1>1, <1>4, <2>1, OneHolder
    <2> QED BY <1>2, <1>4, <2>2 DEF Settled
  <1> QED BY <1>3, <1>4

\* And the fix-up slots.
LEMMA LeftOverBlock ==
    ASSUME IsShape(shape), Packed(shape, activation), NEW part, ReachedPart(shape, part),
           NEW run \in SUBSET (0..(part.grid - 1)), NEW i \in run, q8_gemm_batch_mmq_mma_layout(part, i),
           LeftOver(shape, part, run, fixup)
    PROVE  LeftOver(shape, part, run \ {i}, fixup')
  <1>1. i \in DOMAIN fixup /\ DOMAIN fixup[i].sum = {} /\ i \in 0..(part.grid - 1)
    BY DEF LeftOver
  <1>2. /\ DOMAIN fixup' = DOMAIN fixup
        /\ \A j \in DOMAIN fixup : j # i => fixup'[j] = fixup[j]
        /\ \A c \in CellsOf(shape, part), b \in InnerOf(shape) :
               (c \in DOMAIN fixup'[i].sum /\ fixup'[i].sum[c][b] = 1) <=>
                   /\ LastUnit(shape, part, c) \notin Holder(shape, part, i)
                   /\ UnitOf(shape, part, c, b) \in Holder(shape, part, i)
    BY <1>1, MmaFixup DEF ReachedPart
  <1> QED BY <1>2 DEF LeftOver

\* Without a fix-up kernel the holder of a cell's last chunk holds all of them.
LEMMA SettledIsExact ==
    ASSUME IsShape(shape), NEW part, ReachedPart(shape, part), ~needs_fixup(shape),
           NEW prod, Settled(shape, part, {}, prod), NEW c \in CellsOf(shape, part)
    PROVE  prod[c].set /\ \A b \in InnerOf(shape) : prod[c].sum[b] = 1
  <1>1. IsPart(part) /\ (k_tiles(shape) = 1 \/ TilesOf(shape, part) % part.grid = 0)
    BY DEF ReachedPart, Leads
  <1>2. /\ LastUnit(shape, part, c) \in 0..(UnitsOf(shape, part) - 1)
        /\ LastUnit(shape, part, c) \div k_tiles(shape) = TileOf(shape, part, c)
    BY <1>1, LastFacts
  <1>3. PICK i \in 0..(part.grid - 1) : LastUnit(shape, part, c) \in Holder(shape, part, i)
    BY <1>1, <1>2, OneHolder
  <1>4. /\ prod[c].set
        /\ \A b \in InnerOf(shape) :
               prod[c].sum[b] = IF UnitOf(shape, part, c, b) \in Holder(shape, part, i) THEN 1 ELSE 0
    BY <1>3 DEF Settled
  <1>5. ASSUME NEW b \in InnerOf(shape) PROVE UnitOf(shape, part, c, b) \in Holder(shape, part, i)
    <2>1. /\ UnitOf(shape, part, c, b) \in 0..(UnitsOf(shape, part) - 1)
          /\ UnitOf(shape, part, c, b) \div k_tiles(shape) = TileOf(shape, part, c)
      BY <1>1, UnitFacts
    <2>2. UnitOf(shape, part, c, b) \in Nat /\ LastUnit(shape, part, c) \in Nat
      BY <1>2, <2>1
    <2> QED BY <1>1, <1>2, <1>3, <2>1, <2>2, WholeTiles
  <1> QED BY <1>4, <1>5

\* The fix-up kernel adds what the other holders left.
LEMMA FixupIsExact ==
    ASSUME IsShape(shape), NEW part, ReachedPart(shape, part), part.batch = shape.batch,
           ProductType(shape, product), Settled(shape, part, {}, product),
           LeftOver(shape, part, {}, fixup), shape.tokens \in {TokenTile, 2 * TokenTile},
           product' = q8_gemm_batch_mmq_fixup
    PROVE  AllExact(shape, product')
  <1> SUFFICES ASSUME NEW c \in AllCells(shape)
               PROVE  product'[c].set /\ \A b \in InnerOf(shape) : product'[c].sum[b] = 1
    BY DEF AllExact
  <1>1. c \in Cells /\ c \in CellsOf(shape, part) /\ IsPart(part) /\ InnerBlocks = InnerOf(shape)
    BY DEF Cells, AllCells, CellsOf, InnerBlocks, InnerOf, ReachedPart, Leads
  <1>2. product[c] \in [set : BOOLEAN, sum : [InnerOf(shape) -> Nat]]
    BY DEF ProductType
  <1> DEFINE H(g) == Holder(shape, part, g)
             last == LastUnit(shape, part, c)
             grid == 0..(part.grid - 1)
             Left(b) == {g \in {x \in DOMAIN fixup : c \in DOMAIN fixup[x].sum} : fixup[g].sum[c][b] = 1}
  <1>3. last \in 0..(UnitsOf(shape, part) - 1)
    BY <1>1, LastFacts
  <1>4. PICK i \in grid : last \in H(i)
    BY <1>1, <1>3, OneHolder
  <1>5. \A g \in grid : last \in H(g) => g = i
    BY <1>1, <1>3, <1>4, OneHolder
  <1>6. /\ product[c].set
        /\ \A b \in InnerOf(shape) :
               product[c].sum[b] = IF UnitOf(shape, part, c, b) \in H(i) THEN 1 ELSE 0
    BY <1>1, <1>4 DEF Settled
  <1>7. /\ product'[c].set = product[c].set
        /\ \A b \in InnerOf(shape) : product'[c].sum[b] = product[c].sum[b] + Cardinality(Left(b))
    BY <1>1, <1>2 DEF q8_gemm_batch_mmq_fixup
  <1>8. ASSUME NEW b \in InnerOf(shape) PROVE product[c].sum[b] + Cardinality(Left(b)) = 1
    <2> DEFINE w == UnitOf(shape, part, c, b)
    <2>1. w \in 0..(UnitsOf(shape, part) - 1)
      BY <1>1, UnitFacts
    <2>2. PICK j \in grid : w \in H(j)
      BY <1>1, <2>1, OneHolder
    <2>3. \A g \in grid : w \in H(g) => g = j
      BY <1>1, <2>1, <2>2, OneHolder
    <2>4. Left(b) = {g \in grid : last \notin H(g) /\ w \in H(g)}
      <3>1. DOMAIN fixup = grid
        BY DEF LeftOver
      <3>2. \A g \in grid : (c \in DOMAIN fixup[g].sum /\ fixup[g].sum[c][b] = 1) <=>
                                last \notin H(g) /\ w \in H(g)
        BY <1>1 DEF LeftOver
      <3> HIDE DEF grid, H, last, w
      <3> QED BY <3>1, <3>2
    <2>5. product[c].sum[b] = IF w \in H(i) THEN 1 ELSE 0
      BY <1>6
    <2> HIDE DEF w, H, last, grid, Left
    <2>6. CASE w \in H(i)
      <3>1. Left(b) = {}
        BY <1>4, <2>2, <2>3, <2>4, <2>6
      <3>2. Cardinality(Left(b)) = 0
        BY <3>1, FS_EmptySet
      <3> QED BY <2>5, <2>6, <3>2
    <2>7. CASE w \notin H(i)
      <3>1. Left(b) = {j}
        BY <1>4, <1>5, <2>2, <2>3, <2>4, <2>7
      <3>2. Cardinality(Left(b)) = 1
        BY <3>1, FS_Singleton
      <3> QED BY <2>5, <2>7, <3>2
    <2> QED BY <2>6, <2>7
  <1> QED BY <1>6, <1>7, <1>8

\* A running block takes the call forward.
LEMMA RunBlockStep ==
    ASSUME ProductInv, NEW i \in running, RunBlock(i)
    PROVE  ProductInv'
  <1>1. /\ progress = "running" /\ running' = running \ {i}
        /\ progress' = progress /\ shape' = shape /\ activation' = activation /\ parts' = parts
    BY DEF RunBlock
  <1>2. /\ IsShape(shape) /\ Packed(shape, activation) /\ ProductType(shape, product)
        /\ running \subseteq 0..(parts[1].grid - 1)
        /\ \/ parts = Launches(shape) /\ (Reached => FirstPart(shape, parts[1], running, product, fixup))
           \/ /\ split_token_tail(shape) /\ parts = Tail(Launches(shape))
              /\ Reached => AllExact(shape, product)
    BY <1>1 DEF ProductInv
  <1>3. ProductType(shape, product')
    BY <1>2, ProductTyped
  <1>4. Reached' <=> Reached
    BY <1>1 DEF Reached
  <1>5. ASSUME parts = Launches(shape), Reached, FirstPart(shape, parts[1], running, product, fixup)
        PROVE  FirstPart(shape, parts[1], running \ {i}, product', fixup')
    <2> DEFINE part == parts[1]
    <2>1. running \subseteq 0..(part.grid - 1) /\ i \in 0..(part.grid - 1)
      BY <1>2
    <2>2. CASE shape.path = "plain"
      <3>1. q8_gemm_batch
        BY <2>2 DEF RunBlock
      <3>2. AllExact(shape, product')
        BY <1>2, <1>5, <2>2, <3>1, PlainBlock
      <3> QED BY <2>1, <2>2, <3>2 DEF FirstPart
    <2>3. CASE shape.path # "plain"
      <3>1. Tiled(shape, parts)
        BY <1>2, <1>5, <2>3, LaunchesTiled
      <3>2. Head(parts) = part
        OBVIOUS
      <3>3. CASE shape.path = "dp4a"
        <4>1. q8_gemm_batch_mmq_layout(part, i)
          BY <3>2, <3>3 DEF RunBlock
        <4>2. Leads(shape, part) /\ part.batch = shape.batch
          BY <3>1, <3>3 DEF Tiled, split_token_tail
        <4>3. Dealt(shape, part, running, product)
          BY <1>5, <3>3 DEF FirstPart
        <4>4. Dealt(shape, part, running \ {i}, product')
          BY <1>2, <2>1, <3>3, <4>1, <4>2, <4>3, DealtBlock
        <4> QED BY <2>1, <3>3, <4>4 DEF FirstPart
      <3>4. CASE shape.path = "mma"
        <4>1. q8_gemm_batch_mmq_mma_layout(part, i)
          BY <3>2, <3>4 DEF RunBlock
        <4>2. ReachedPart(shape, part)
          BY <1>2, <1>5, <3>4, MainPart
        <4>3. /\ Settled(shape, part, running, product)
              /\ needs_fixup(shape) => LeftOver(shape, part, running, fixup)
          BY <1>5, <3>4 DEF FirstPart
        <4>4. Settled(shape, part, running \ {i}, product')
          BY <1>2, <2>1, <4>1, <4>2, <4>3, SettledBlock
        <4>5. needs_fixup(shape) => LeftOver(shape, part, running \ {i}, fixup')
          BY <1>2, <2>1, <4>1, <4>2, <4>3, LeftOverBlock
        <4> QED BY <2>1, <3>4, <4>4, <4>5 DEF FirstPart
      <3> QED BY <1>2, <2>3, <3>3, <3>4 DEF IsShape
    <2> QED BY <2>2, <2>3
  <1>6. ASSUME split_token_tail(shape), parts = Tail(Launches(shape)), AllExact(shape, product)
        PROVE  AllExact(shape, product')
    <2> DEFINE part == Launches(shape)[2]
    <2>1. shape.path = "mma"
      BY <1>6 DEF split_token_tail
    <2>2. Tiled(shape, Launches(shape))
      BY <1>2, <2>1, LaunchesTiled
    <2>3. /\ Len(Launches(shape)) = 2 /\ IsPart(part) /\ part.offset = full_batch(shape)
          /\ full_batch(shape) \in Nat
      BY <1>6, <2>2 DEF Tiled
    <2>4. Head(parts) = part
      BY <1>6, <2>3 DEF Launches
    <2>5. q8_gemm_batch_mmq_mma_layout(part, i)
      BY <2>1, <2>4 DEF RunBlock
    <2> HIDE DEF part
    <2>6. i \in 0..(part.grid - 1) => AllExact(shape, product')
      <3> SUFFICES ASSUME i \in 0..(part.grid - 1), NEW c \in AllCells(shape), c[2] < full_batch(shape)
                   PROVE  product'[c] = product[c]
        <4>1. \A c \in AllCells(shape) : c[2] \in Nat
          BY <1>2 DEF AllCells
        <4>2. \A c \in AllCells(shape) : c[2] >= full_batch(shape) \/ c[2] < full_batch(shape)
          BY <2>3, <4>1
        <4> QED BY <1>6, <4>2 DEF AllExact
      <3> DEFINE R == UnitStart(part, i)..(UnitStart(part, i + 1) - 1)
                 K == k_tiles(shape)
                 tiles == {u \div K : u \in R}
      <3>1. R \subseteq Nat /\ K \in Nat \ {0}
        BY <1>2, <2>3, RangeIsHolder, ShapeFacts
      <3>2. ASSUME NEW t \in tiles PROVE ~InTile(part, t, c[1], c[2] - part.offset)
        <4>1. t \in Nat
          <5>1. PICK u \in R : t = u \div K
            BY <3>2
          <5> HIDE DEF R, K, tiles
          <5>2. u \in Int /\ K * 0 <= u
            BY <3>1
          <5>3. u \div K \in Int /\ 0 <= u \div K
            BY ONLY <3>1, <5>2, Division, QuotientAtLeast
          <5> QED BY <5>1, <5>3
        <4>2. c[2] - part.offset \in Int /\ c[2] - part.offset < 0
          BY <2>3 DEF AllCells
        <4>3. ~(0 <= c[2] - part.offset)
          BY <4>2
        <4> QED BY <1>2, <2>3, <4>1, <4>2, <4>3, InTileColumns
      <3>3. c \in Cells
        BY DEF Cells, AllCells
      <3> QED BY <2>5, <3>2, <3>3 DEF q8_gemm_batch_mmq_mma_layout
    <2>7. parts[1] = part
      BY <2>4
    <2> QED BY <1>2, <2>6, <2>7
  <1> QED BY <1>1, <1>2, <1>3, <1>4, <1>5, <1>6 DEF ProductInv

\* A new call starts in the invariant.
LEMMA MatmulStep ==
    ASSUME ProductInv, Matmul
    PROVE  ProductInv'
  <1>1. IsShape(shape')
    <2>1. PICK rows \in RowSizes, blocks \in BlockSizes, batch \in Batches,
               tokens \in TileTokens, streamK \in BOOLEAN, mma_available \in BOOLEAN :
            shape' = [rows |-> rows, blocks |-> blocks, batch |-> batch, tokens |-> tokens,
                      streamK |-> streamK, path |-> PathOf(rows, blocks, batch, mma_available)]
      BY Zenon DEF Matmul
    <2>2. PathOf(rows, blocks, batch, mma_available) \in {"plain", "dp4a", "mma"}
          /\ (PathOf(rows, blocks, batch, mma_available) # "plain" => blocks % Group = 0)
      BY DEF PathOf, use_mmq
    <2> QED BY <2>1, <2>2, ProductAssumption DEF IsShape
  <1>2. /\ activation' = IF shape'.path = "plain" THEN qwen_quantize_q8_batch(shape')
                         ELSE qwen_quantize_q8_mmq_batch(shape')
        /\ parts' = Launches(shape')
        /\ running' = 0..(parts'[1].grid - 1)
        /\ product' = [c \in Cells' |-> [Zero' EXCEPT !.set = needs_zero(shape')]]
        /\ fixup' = [b \in 0..(grid_blocks(shape') - 1) |-> [tile |-> NoTile, sum |-> <<>>]]
        /\ progress' = "running"
    BY Zenon DEF Matmul
  <1> DEFINE s == shape'
             part == Launches(s)[1]
  <1>3. IsShape(s) /\ parts' = Launches(s) /\ running' = 0..(part.grid - 1)
    BY <1>1, <1>2
  <1>4. product' = [c \in AllCells(s) |-> [set |-> needs_zero(s), sum |-> [b \in InnerOf(s) |-> 0]]]
    <2> DEFINE zero == [b \in InnerOf(s) |-> 0]
    <2>1. Cells' = AllCells(s)
      BY DEF Cells, AllCells
    <2>2. Zero' = [set |-> TRUE, sum |-> zero]
      BY DEF Zero, InnerBlocks, InnerOf
    <2> HIDE DEF zero
    <2>3. [Zero' EXCEPT !.set = needs_zero(s)] = [set |-> needs_zero(s), sum |-> zero]
      BY <2>2
    <2>4. product' = [c \in AllCells(s) |-> [set |-> needs_zero(s), sum |-> zero]]
      BY <1>2, <2>1, <2>3
    <2> QED BY <2>4 DEF zero
  <1>5. ProductType(s, product')
    BY <1>4 DEF ProductType, needs_zero
  <1>6. part.grid \in Nat \ {0} /\ (s.path # "plain" => Tiled(s, Launches(s)))
    <2>1. CASE s.path = "plain"
      BY <2>1 DEF Launches, Part
    <2>2. CASE s.path # "plain"
      BY <1>3, <2>2, LaunchesTiled DEF Tiled, Leads, IsPart
    <2> QED BY <2>1, <2>2
  <1> HIDE DEF part
  <1>7. FirstPart(s, part, running', product', fixup')
    <2>1. CASE s.path = "plain"
      <3>1. 0 \in running'
        BY <1>3, <1>6
      <3> QED BY <2>1, <3>1 DEF FirstPart
    <2>2. CASE s.path = "dp4a"
      <3> SUFFICES Dealt(s, part, running', product')
        BY <2>2 DEF FirstPart
      <3> SUFFICES ASSUME NEW c \in CellsOf(s, part), NEW b \in InnerOf(s)
                   PROVE  /\ UnitOf(s, part, c, b) % part.grid \in running'
                          /\ k_tiles(s) > 1 => product'[c].set /\ product'[c].sum[b] = 0
        BY DEF Dealt
      <3>1. IsPart(part) /\ part.batch = s.batch
        BY <1>6, <2>2 DEF Tiled, Leads, split_token_tail, part
      <3>2. UnitOf(s, part, c, b) \in Int
        BY <1>3, <3>1, UnitFacts
      <3>3. UnitOf(s, part, c, b) % part.grid \in 0..(part.grid - 1)
        <4> DEFINE x == UnitOf(s, part, c, b)
                   g == part.grid
        <4>1. x \in Int /\ g \in Nat \ {0}
          BY <1>6, <3>2
        <4> HIDE DEF x, g
        <4>2. x % g \in Int /\ 0 <= x % g /\ x % g < g
          BY <4>1, Division
        <4> QED BY <4>1, <4>2 DEF x, g
      <3>4. c \in AllCells(s)
        BY <3>1 DEF CellsOf, AllCells
      <3> QED BY <1>3, <1>4, <2>2, <3>3, <3>4 DEF needs_zero
    <2>3. CASE s.path = "mma"
      <3>1. Settled(s, part, running', product')
        BY <1>3 DEF Settled
      <3>2. ASSUME needs_fixup(s) PROVE LeftOver(s, part, running', fixup')
        <4>1. part.grid = grid_blocks(s)
          BY <1>6, <2>3, <3>2 DEF Tiled, needs_fixup, split_token_tail, part
        <4>2. DOMAIN fixup' = 0..(part.grid - 1) /\ \A g \in running' : DOMAIN fixup'[g].sum = {}
          <5>1. fixup' = [g \in 0..(part.grid - 1) |-> [tile |-> NoTile, sum |-> <<>>]]
            BY <1>2, <4>1
          <5>2. DOMAIN <<>> = {}
            OBVIOUS
          <5> QED BY <1>3, <5>1, <5>2
        <4> QED BY <1>3, <4>2 DEF LeftOver
      <3> QED BY <2>3, <3>1, <3>2 DEF FirstPart
    <2> QED BY <1>3, <2>1, <2>2, <2>3 DEF IsShape
  <1> QED BY <1>1, <1>2, <1>3, <1>5, <1>7 DEF ProductInv, Packed, part

\* When the blocks of the first launch have run and no fix-up follows, the cells
\* outside the tail are exact.
LEMMA FirstPartExact ==
    ASSUME IsShape(shape), Reached, parts = Launches(shape), ~needs_fixup(shape),
           FirstPart(shape, parts[1], {}, product, fixup), ProductType(shape, product)
    PROVE  AllExact(shape, product)
  <1> DEFINE part == parts[1]
  <1>1. CASE shape.path = "plain"
    BY <1>1 DEF FirstPart
  <1>2. CASE shape.path = "dp4a"
    <2>1. Tiled(shape, parts) /\ part.batch = shape.batch /\ IsPart(part)
      BY <1>2, LaunchesTiled DEF Tiled, Leads, split_token_tail
    <2>2. CellsOf(shape, part) = AllCells(shape)
      BY <2>1 DEF CellsOf, AllCells
    <2>3. 0 \in InnerOf(shape)
      BY DEF InnerOf, IsShape
    <2>4. \A c \in AllCells(shape), b \in InnerOf(shape) : product[c].set /\ product[c].sum[b] = 1
      BY <1>2, <2>2 DEF FirstPart, Dealt
    <2> QED BY <2>3, <2>4 DEF AllExact
  <1>3. CASE shape.path = "mma"
    <2>1. Tiled(shape, parts) /\ ReachedPart(shape, part)
      BY <1>3, LaunchesTiled, MainPart
    <2>2. Settled(shape, part, {}, product)
      BY <1>3 DEF FirstPart
    <2>3. \A c \in CellsOf(shape, part) : product[c].set /\ \A b \in InnerOf(shape) : product[c].sum[b] = 1
      BY <2>1, <2>2, SettledIsExact
    <2>4. CASE ~split_token_tail(shape)
      <3>1. CellsOf(shape, part) = AllCells(shape)
        BY <2>1, <2>4 DEF Tiled, CellsOf, AllCells
      <3> QED BY <2>3, <3>1 DEF AllExact
    <2>5. CASE split_token_tail(shape)
      <3>1. part.batch = full_batch(shape) /\ full_batch(shape) \in Nat
        BY <2>1, <2>5 DEF Tiled
      <3>2. ASSUME NEW c \in AllCells(shape), ~(c[2] >= full_batch(shape)) PROVE c \in CellsOf(shape, part)
        <4>1. c[2] \in Nat /\ c[1] \in 0..(shape.rows - 1) /\ c = <<c[1], c[2]>>
          BY DEF AllCells
        <4>2. c[2] \in 0..(part.batch - 1)
          BY <3>1, <3>2, <4>1
        <4> QED BY <4>1, <4>2 DEF CellsOf
      <3> QED BY <2>3, <2>5, <3>2 DEF AllExact
    <2> QED BY <2>4, <2>5
  <1> QED BY <1>1, <1>2, <1>3 DEF IsShape

\* The fix-up kernel, or none, ends the call.
LEMMA FinishStep ==
    ASSUME ProductInv, Finish
    PROVE  ProductInv'
  <1>1. /\ progress = "running" /\ running = {} /\ Len(parts) = 1
        /\ product' = IF needs_fixup(shape) THEN q8_gemm_batch_mmq_fixup ELSE product
        /\ progress' = "done" /\ shape' = shape
    BY DEF Finish
  <1>2. /\ IsShape(shape) /\ ProductType(shape, product)
        /\ \/ parts = Launches(shape) /\ (Reached => FirstPart(shape, parts[1], running, product, fixup))
           \/ /\ split_token_tail(shape) /\ parts = Tail(Launches(shape))
              /\ Reached => AllExact(shape, product)
    BY <1>1 DEF ProductInv
  <1>3. Reached' <=> Reached
    BY <1>1 DEF Reached
  <1>4. ASSUME Reached PROVE AllExact(shape, product')
    <2>1. CASE split_token_tail(shape) /\ parts = Tail(Launches(shape)) /\ AllExact(shape, product)
      <3>1. ~needs_fixup(shape)
        BY <2>1 DEF needs_fixup, split_token_tail
      <3> QED BY <1>1, <2>1, <3>1
    <2>2. CASE parts = Launches(shape) /\ FirstPart(shape, parts[1], running, product, fixup)
      <3>1. CASE ~needs_fixup(shape)
        BY <1>1, <1>2, <1>4, <2>2, <3>1, FirstPartExact
      <3>2. CASE needs_fixup(shape)
        <4>1. shape.path = "mma" /\ ~split_token_tail(shape)
          BY <3>2 DEF needs_fixup, split_token_tail
        <4>2. ReachedPart(shape, parts[1]) /\ Tiled(shape, parts)
          BY <1>2, <1>4, <2>2, <4>1, MainPart, LaunchesTiled
        <4>3. parts[1].batch = shape.batch
          BY <4>1, <4>2 DEF Tiled
        <4>4. Settled(shape, parts[1], {}, product) /\ LeftOver(shape, parts[1], {}, fixup)
          BY <1>1, <2>2, <3>2, <4>1 DEF FirstPart
        <4>5. shape.tokens \in {TokenTile, 2 * TokenTile}
          BY <1>2, <1>4, <4>1 DEF Reached, IsShape, TileTokens
        <4>6. product' = q8_gemm_batch_mmq_fixup
          BY <1>1, <3>2
        <4> QED BY <1>2, <4>2, <4>3, <4>4, <4>5, <4>6, FixupIsExact
      <3> QED BY <3>1, <3>2
    <2> QED BY <1>2, <1>4, <2>1, <2>2
  <1> QED BY <1>1, <1>2, <1>3, <1>4 DEF ProductInv

\* The launch of the tail finds the whole tiles exact.
LEMMA NextPartStep ==
    ASSUME ProductInv, NextPart
    PROVE  ProductInv'
  <1>1. /\ progress = "running" /\ running = {} /\ Len(parts) > 1
        /\ parts' = Tail(parts) /\ running' = 0..(parts[2].grid - 1)
        /\ progress' = progress /\ shape' = shape /\ activation' = activation
        /\ product' = product /\ fixup' = fixup
    BY DEF NextPart
  <1>2. /\ IsShape(shape) /\ Packed(shape, activation) /\ ProductType(shape, product)
        /\ \/ parts = Launches(shape) /\ (Reached => FirstPart(shape, parts[1], running, product, fixup))
           \/ split_token_tail(shape) /\ parts = Tail(Launches(shape))
    BY <1>1 DEF ProductInv
  <1>3. Reached' <=> Reached
    BY <1>1 DEF Reached
  <1>4. parts = Launches(shape) /\ split_token_tail(shape)
    <2>1. CASE shape.path = "plain"
      <3>1. Len(Launches(shape)) = 1 /\ ~split_token_tail(shape)
        BY <2>1 DEF Launches, split_token_tail
      <3> QED BY <1>1, <1>2, <3>1
    <2>2. CASE shape.path # "plain"
      <3>1. Tiled(shape, Launches(shape))
        BY <1>2, <2>2, LaunchesTiled
      <3>2. split_token_tail(shape) => Len(Tail(Launches(shape))) = 1
        BY <2>2 DEF Launches
      <3>3. ~split_token_tail(shape) => Len(Launches(shape)) = 1
        BY <3>1 DEF Tiled
      <3>4. parts = Launches(shape) \/ (split_token_tail(shape) /\ parts = Tail(Launches(shape)))
        BY <1>2
      <3>5. Len(parts) # 1
        BY <1>1
      <3> QED BY ONLY <3>2, <3>3, <3>4, <3>5
    <2> QED BY <2>1, <2>2
  <1>5. Reached => AllExact(shape, product)
    <2>1. ~needs_fixup(shape)
      BY <1>4 DEF needs_fixup, split_token_tail
    <2> QED BY <1>1, <1>2, <1>4, <2>1, FirstPartExact DEF FirstPart
  <1>6. Tail(parts)[1] = parts[2]
    BY <1>4 DEF Launches, split_token_tail
  <1> QED BY <1>1, <1>2, <1>3, <1>4, <1>5, <1>6 DEF ProductInv

\* fortai_cuda_q8_matmul_device_f32: whatever the path and the partition, and in
\* whichever order the thread blocks run, a finished product holds every chunk of
\* the inner dimension exactly once in each cell of a reached shape outside a
\* split tail.
THEOREM ProductsAreExact == ProductSpec => []MatmulExact
  <1>1. ProductInit => ProductInv
    BY DEF ProductInit, ProductInv
  <1>2. ProductInv /\ [ProductNext]_productVars => ProductInv'
    <2> SUFFICES ASSUME ProductInv, [ProductNext]_productVars PROVE ProductInv'
      OBVIOUS
    <2>1. CASE Matmul
      BY <2>1, MatmulStep
    <2>2. CASE ProductReturn
      BY <2>2 DEF ProductReturn, ProductInv
    <2>3. CASE NextPart
      BY <2>3, NextPartStep
    <2>4. CASE Finish
      BY <2>4, FinishStep
    <2>5. CASE Fail
      BY <2>5 DEF Fail, ProductInv
    <2>6. ASSUME NEW index \in running, RunBlock(index) PROVE ProductInv'
      BY <2>6, RunBlockStep
    <2>7. CASE UNCHANGED productVars
      <3>1. /\ progress' = progress /\ shape' = shape /\ activation' = activation /\ parts' = parts
            /\ running' = running /\ product' = product /\ fixup' = fixup
        BY <2>7 DEF productVars
      <3>2. Reached' <=> Reached
        BY <3>1 DEF Reached
      <3> QED BY <3>1, <3>2 DEF ProductInv
    <2> QED BY <2>1, <2>2, <2>3, <2>4, <2>5, <2>6, <2>7 DEF ProductNext
  <1>3. ProductInv => MatmulExact
    BY DEF ProductInv, MatmulExact, AllExact, InTail, CellExact, Cells, AllCells, InnerBlocks, InnerOf
  <1> QED BY <1>1, <1>2, <1>3, PTL DEF ProductSpec

=================================================================================
