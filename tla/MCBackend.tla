------------------------------ MODULE MCBackend ------------------------------
(* The models of the compute backends side by side: kernels, device memory and   *)
(* the llama.cpp adapter.  A behaviour belongs to one family, and no family      *)
(* reads the state of another.                                                   *)
EXTENDS AttentionPartition, GroupedAttention, Selection, Q8Matmul,
        DeviceBuffers, LlamaFast

CONSTANTS
    Families

VARIABLES
    family

(* Workloads of the device memory: every pair of entry points, and objects.      *)
\* Entry points with the same requests behave alike: one of each class is enough.
Classes ==
    {"matvec_resident", "matvec_device_f32", "matmul_device_f32", "ffn_device",
     "embedding_batch", "argmax_device", "attention_q8_view", "attention_q8_partitions",
     "device_buffer_download"}

MCWorkloads ==
    {{a, b} : a, b \in Classes} \union {{a} : a \in EntryPoints}
    \union {{"matvec_resident", "weights", "recurrent"}, {"matvec_resident", "buffer", "attention"}}

\* A greedy choice that depends on the length and the last token.
MCArgmax(s) == (Len(s) + (IF s = <<>> THEN 0 ELSE s[Len(s)])) % 2

allVars == <<family, vars, blockVars, productVars, selectVars, memoryVars, fastVars>>

BackendInit ==
    /\ family \in Families
    /\ Init /\ BlockInit /\ ProductInit /\ SelectInit /\ MemoryInit /\ FastInit
    /\ family # "grouped" => kernel = gqa_q8_batch
    /\ family # "memory" => work = {"matvec_resident"}
    /\ family # "fast" => library = "none" /\ optional = {} /\ cur = 0

BackendNext ==
    \/ /\ family = "partition" /\ Next
       /\ UNCHANGED <<family, blockVars, productVars, selectVars, memoryVars, fastVars>>
    \/ /\ family = "grouped" /\ BlockNext
       /\ UNCHANGED <<family, vars, productVars, selectVars, memoryVars, fastVars>>
    \/ /\ family = "matmul" /\ ProductNext
       /\ UNCHANGED <<family, vars, blockVars, selectVars, memoryVars, fastVars>>
    \/ /\ family = "select" /\ SelectNext
       /\ UNCHANGED <<family, vars, blockVars, productVars, memoryVars, fastVars>>
    \/ /\ family = "memory" /\ MemoryNext
       /\ UNCHANGED <<family, vars, blockVars, productVars, selectVars, fastVars>>
    \/ /\ family = "fast" /\ FastNext
       /\ UNCHANGED <<family, vars, blockVars, productVars, selectVars, memoryVars>>

BackendSpec == BackendInit /\ [][BackendNext]_allVars

==============================================================================
