----------------------------- MODULE DeviceBuffers -----------------------------
(* Device memory of one CUDA context: its scratch buffers, the objects created   *)
(* on it and the graphs captured from its stream, from                           *)
(* backend/cuda/fortai_cuda_backend.cu.                                          *)
(*                                                                               *)
(* Every host entry point makes sure of its scratch buffers, growing them when   *)
(* needed, and launches kernels on them.  A captured graph keeps the pointers    *)
(* it was captured with.  An allocation is named by its owner and the number of  *)
(* allocations the owner has made, and any CUDA call may fail.                   *)
EXTENDS Integers, Sequences, Functions

CONSTANTS
    MaxSize,     \* sizes of scratch are 1..MaxSize
    Workloads,   \* sets of entry points and objects; a model uses those of one set
    Slots,       \* graph slots (qwen_graph_slots = 66)
    MaxFailures    \* failing CUDA calls

VARIABLES
    work,      \* entry points this model's host calls and objects it creates
    context,   \* "none", "open", "ready" (scratch reserved), "bare" (used without), "closed"
    buffers,   \* buffer -> [ptr, bytes, made]
    heap,      \* live allocations [owner, number, size]
    objects,   \* object -> fields that hold an allocation
    graphs,    \* slot -> pointers recorded, NoGraph when empty
    capture,   \* [slot, uses, valid], or NotCapturing
    last,      \* [kind, uses] of the last launch
    failures

memoryVars == <<work, context, buffers, heap, objects, graphs, capture, last, failures>>

BufferNames == {"raw", "activation", "output", "aux", "batched", "fixup", "tiles", "tokens",
            "key_f16", "value_f16", "mask", "meta", "download"}
ObjectNames == {"weights", "buffer", "recurrent", "attention"}

Null == 0
NoGraph == {[owner |-> "none", number |-> 0, need |-> 0]}
NotCapturing == [slot |-> -1, uses |-> {}, valid |-> TRUE]
Quiet == [kind |-> "none", uses |-> {}]

---------------------------------------------------------------------------
(* The ensure functions.  `keeps': the size is compared alone and survives a *)
(* failing allocation; `resets': pointer and size are cleared first;         *)
(* `replaces': the new buffer is allocated before the old one is freed.      *)

Request(b, policy, size) == [buffer |-> b, policy |-> policy, size |-> size]

ensure_host_matvec_scratch(s) ==
    <<Request("raw", "keeps", s), Request("activation", "keeps", s), Request("output", "keeps", s)>>
ensure_device_matvec_scratch(s) == <<Request("activation", "resets", s)>>
ensure_aux_scratch(s) == <<Request("aux", "keeps", s)>>
ensure_batched_activation_scratch(s) == <<Request("batched", "resets", s)>>
ensure_mmq_fixup_scratch(partial, tiles) ==
    <<Request("fixup", "resets", partial), Request("tiles", "resets", tiles)>>
ensure_token_scratch(s) == <<Request("tokens", "resets", s)>>
ensure_download_host(s) == <<Request("download", "resets", s)>>
ensure_attention_f16_view(s) ==
    <<Request("key_f16", "replaces", s), Request("value_f16", "replaces", s)>>
ensure_attention_fattn_scratch(mask, meta) ==
    <<Request("mask", "replaces", mask), Request("meta", "replaces", meta)>>

GrowsSmaller(buf, r) == r.size > buf.bytes + 1   \* mutant: the comparison is off by one
Grows(buf, r) == r.size > buf.bytes \/ (r.policy = "resets" /\ buf.ptr = Null)
Growing(requests) == {r \in requests : Grows(buffers[r.buffer], r)}

Allocation(b, number, size) == [owner |-> b, number |-> number, size |-> size]
Owns(r, a) == a.owner = r.buffer /\ a.number = buffers[r.buffer].ptr

\* cudaFree of the allocations that the requested buffers have.
ForgetFree(requests) == heap   \* mutant: the old buffer is not freed
Freed(requests) == {a \in heap : \A r \in requests : ~Owns(r, a)}

\* What meeting requests, each for a buffer of its own, leaves behind.
Grown(requests) ==
    [b \in BufferNames |->
        IF \E r \in requests : r.buffer = b
        THEN [ptr |-> buffers[b].made + 1, made |-> buffers[b].made + 1,
              bytes |-> (CHOOSE r \in requests : r.buffer = b).size]
        ELSE buffers[b]]
Allocated(requests) ==
    {Allocation(r.buffer, buffers[r.buffer].made + 1, r.size) : r \in requests}

Capturing == capture # NotCapturing

\* Every ensure step succeeds.  Growing during a capture is an error.
Met(requests) ==
    /\ Capturing => Growing(Range(requests)) = {}
    /\ buffers' = Grown(Growing(Range(requests)))
    /\ heap' = Freed(Growing(Range(requests))) \union Allocated(Growing(Range(requests)))
    /\ UNCHANGED failures

\* A step that has to grow its buffer fails, behind others that were done.
Refused(requests) ==
    \E i \in 1..Len(requests) :
        LET r == requests[i]
            done == Growing({requests[k] : k \in 1..(i - 1)})
        IN  /\ Grows(buffers[r.buffer], r)
            /\ IF Capturing THEN done = {} /\ UNCHANGED failures
               ELSE failures < MaxFailures /\ failures' = failures + 1
            /\ \/ /\ buffers' = Grown(done)
                  /\ heap' = Freed(done) \union Allocated(done)
               \/ /\ ~Capturing /\ r.policy # "replaces"
                  /\ buffers' = [Grown(done) EXCEPT ![r.buffer].ptr = Null,
                         ![r.buffer].bytes = IF r.policy = "keeps" THEN @ ELSE 0]
                  /\ heap' = Freed(done \union {r}) \union Allocated(done)

---------------------------------------------------------------------------
(* The entry points: what they make sure of, in order.                       *)

matvec_host_many(s) == ensure_host_matvec_scratch(s)
matvec_host(s) == ensure_host_matvec_scratch(s)
matvec_resident(s) == ensure_host_matvec_scratch(s)
matvec_device_f32(s) == ensure_device_matvec_scratch(s)
matvec_device_f32_pair(s) == ensure_device_matvec_scratch(s)
\* The tiled paths make sure of the fix-up whether or not they launch it; the plain
\* path would ask for the activation alone.
matmul_device_f32(s) ==
    ensure_batched_activation_scratch(s) \o ensure_mmq_fixup_scratch(MaxSize, s)
ffn_host(s) == ensure_host_matvec_scratch(s) \o ensure_aux_scratch(s)
ffn_device(s) == ensure_host_matvec_scratch(s) \o ensure_aux_scratch(s)
embedding_batch(s) == ensure_token_scratch(s)
argmax_device(s) == ensure_aux_scratch(s) \o ensure_download_host(s)
topk_rows_device(s) == ensure_aux_scratch(s) \o ensure_download_host(s)
attention_q8_view(s) == ensure_attention_f16_view(s) \o ensure_attention_fattn_scratch(s, s)
attention_q8_partitions(s) == ensure_attention_fattn_scratch(0, s)
recurrent_run(s) == ensure_host_matvec_scratch(s)
recurrent_run_device(s) == ensure_host_matvec_scratch(s)
attention_run_device(s) == ensure_host_matvec_scratch(s)
device_buffer_download(s) == ensure_download_host(s)

EntryPoints ==
    {"matvec_host_many", "matvec_host", "matvec_resident", "matvec_device_f32",
     "matvec_device_f32_pair", "matmul_device_f32", "ffn_host", "ffn_device",
     "embedding_batch", "argmax_device", "topk_rows_device", "attention_q8_view",
     "attention_q8_partitions", "recurrent_run", "recurrent_run_device",
     "attention_run_device", "device_buffer_download"}

ASSUME MemoryAssumption ==
    /\ MaxSize \in Nat \ {0} /\ Slots \subseteq Nat /\ MaxFailures \in Nat
    /\ \A w \in Workloads : w \subseteq EntryPoints \union ObjectNames

RequestsOf(name, s) ==
    CASE name = "matvec_host_many" -> matvec_host_many(s)
      [] name = "matvec_host" -> matvec_host(s)
      [] name = "matvec_resident" -> matvec_resident(s)
      [] name = "matvec_device_f32" -> matvec_device_f32(s)
      [] name = "matvec_device_f32_pair" -> matvec_device_f32_pair(s)
      [] name = "matmul_device_f32" -> matmul_device_f32(s)
      [] name = "ffn_host" -> ffn_host(s)
      [] name = "ffn_device" -> ffn_device(s)
      [] name = "embedding_batch" -> embedding_batch(s)
      [] name = "argmax_device" -> argmax_device(s)
      [] name = "topk_rows_device" -> topk_rows_device(s)
      [] name = "attention_q8_view" -> attention_q8_view(s)
      [] name = "attention_q8_partitions" -> attention_q8_partitions(s)
      [] name = "recurrent_run" -> recurrent_run(s)
      [] name = "recurrent_run_device" -> recurrent_run_device(s)
      [] name = "attention_run_device" -> attention_run_device(s)
      [] name = "device_buffer_download" -> device_buffer_download(s)

\* Pointers the kernels of an entry point are given.
UsesOf(requests, bufs) ==
    {[owner |-> r.buffer, number |-> bufs[r.buffer].ptr, need |-> r.size] :
        r \in {r \in Range(requests) : r.size > 0}}

MemoryInit ==
    /\ work \in Workloads
    /\ context = "none"
    /\ buffers = [b \in BufferNames |-> [ptr |-> Null, bytes |-> 0, made |-> 0]]
    /\ heap = {} /\ objects = [o \in ObjectNames |-> {}]
    /\ graphs = [s \in Slots |-> NoGraph] /\ capture = NotCapturing
    /\ last = Quiet /\ failures = 0

\* context_create; its error paths release what was made and leave no context.
ContextCreate ==
    /\ context = "none"
    /\ \/ context' = "open" /\ UNCHANGED failures
       \/ context' = "none" /\ failures < MaxFailures /\ failures' = failures + 1
    /\ UNCHANGED <<work, buffers, heap, objects, graphs, capture, last>>

\* q8_reserve_matvec_scratch, called once by the model's set-up.  When it fails
\* the pipeline is given up, but cuda_enabled stays and the host entry points run.
ReserveTiles == ensure_mmq_fixup_scratch(MaxSize, 1)   \* mutant: only the fix-up buffers are reserved
reserve_requests == ensure_host_matvec_scratch(MaxSize) \o ensure_mmq_fixup_scratch(MaxSize, 1)

Reserve ==
    /\ context = "open"
    /\ \/ Met(reserve_requests) /\ context' = "ready"
       \/ Refused(reserve_requests) /\ context' = "bare"
    /\ last' = Quiet
    /\ UNCHANGED <<work, objects, graphs, capture>>

\* The set-up returns before it reserves (no flash attention, the pipeline
\* disabled or not supported), or the context is the second device's, for which
\* nothing is reserved.
SkipReserve ==
    /\ context = "open" /\ context' = "bare"
    /\ last' = Quiet
    /\ UNCHANGED <<work, buffers, heap, objects, graphs, capture, failures>>

Serving == context \in {"ready", "bare"}

\* What the layers of a captured segment call: device entry points, which
\* never wait for the stream.
Captured == {"matvec_device_f32", "matvec_device_f32_pair", "matmul_device_f32",
             "ffn_device", "recurrent_run_device", "attention_run_device",
             "attention_q8_view", "attention_q8_partitions"}

\* An entry point of the host: a failing step returns the error.  The host then
\* returns without ending a capture, and the stream rejects all later work.
Call(name, s) ==
    /\ Serving /\ capture.valid
    /\ Capturing => name \in Captured
    /\ \/ /\ Met(RequestsOf(name, s))
          /\ last' = [kind |-> "eager", uses |-> UsesOf(RequestsOf(name, s), buffers')]
          /\ capture' = IF ~Capturing THEN capture
                        ELSE [capture EXCEPT !.uses = @ \union last'.uses]
       \/ /\ Refused(RequestsOf(name, s))
          /\ last' = Quiet
          /\ capture' = IF ~Capturing THEN capture ELSE [capture EXCEPT !.valid = FALSE]
    /\ UNCHANGED <<work, context, objects, graphs>>

capture_begin_slot(slot) ==
    /\ Serving /\ graphs[slot] = NoGraph /\ ~Capturing
    /\ capture' = [slot |-> slot, uses |-> {}, valid |-> TRUE]
    /\ last' = Quiet
    /\ UNCHANGED <<work, context, buffers, heap, objects, graphs, failures>>

capture_end_slot ==
    /\ Capturing /\ capture.valid
    /\ \/ graphs' = [graphs EXCEPT ![capture.slot] = capture.uses] /\ UNCHANGED failures
       \/ failures < MaxFailures /\ failures' = failures + 1 /\ UNCHANGED graphs
    /\ capture' = NotCapturing
    /\ last' = Quiet
    /\ UNCHANGED <<work, context, buffers, heap, objects>>

graph_launch_slot(slot) ==
    /\ Serving /\ graphs[slot] # NoGraph /\ ~Capturing
    /\ last' = [kind |-> "graph", uses |-> graphs[slot]]
    /\ UNCHANGED <<work, context, buffers, heap, objects, graphs, capture, failures>>

---------------------------------------------------------------------------
(* Objects on the context, each with a list of allocations to make and a list *)
(* to free.  An allocation of an object is named by the field that keeps it.  *)

recurrent_tensors == <<"conv_weights", "ssm_a", "ssm_dt", "ssm_norm", "conv_state", "gdn_state",
    "conv_state_first", "gdn_state_first", "conv_state_second", "gdn_state_second">>
recurrent_outputs == <<"qkv_output", "gate_output", "alpha_output", "beta_output">>
attention_tensors(k, v) == <<"query_norm", "key_norm",
    IF k = "f16" THEN "key_cache" ELSE "key_cache_q8",
    IF v = "f16" THEN "value_cache" ELSE "value_cache_q8">>

free_recurrent_device_buffers ==
    Range(recurrent_tensors) \union Range(recurrent_outputs) \union {"gdn_output"}
free_attention_device_buffers ==
    {"query_norm", "key_norm", "key_cache", "value_cache", "key_cache_q8", "value_cache_q8",
     "query", "key", "value", "attention"}

\* What the error path of a creation and the destruction of the object free.
FreeList(o) ==
    CASE o = "weights" -> {"device_data"}
      [] o = "buffer" -> {"device_buffer"}
      [] o = "recurrent" -> free_recurrent_device_buffers
      [] o = "attention" -> free_attention_device_buffers

Released(h, o) == {a \in h : a.owner \notin FreeList(o)}

\* The fields are allocated in order; when a call fails, here or in the copies
\* and memsets behind, what was made is freed and no object is left.
Create(o, fields) ==
    /\ (context = "open" \/ Serving) /\ objects[o] = {} /\ ~Capturing /\ o \in work
    /\ \/ /\ heap' = heap \union {Allocation(f, 1, 1) : f \in Range(fields)}
          /\ objects' = [objects EXCEPT ![o] = Range(fields)]
          /\ UNCHANGED failures
       \/ /\ failures < MaxFailures /\ failures' = failures + 1
          /\ \E made \in 0..Len(fields) :
                heap' = Released(heap \union {Allocation(f, 1, 1) : f \in Range(SubSeq(fields, 1, made))}, o)
          /\ UNCHANGED objects
    /\ last' = Quiet
    /\ UNCHANGED <<work, context, buffers, graphs, capture>>

weights_upload == Create("weights", <<"device_data">>)
device_buffer_create == Create("buffer", <<"device_buffer">>)
recurrent_create == Create("recurrent", recurrent_tensors \o recurrent_outputs \o <<"gdn_output">>)
recurrent_create_state == Create("recurrent", Append(recurrent_tensors, "gdn_output"))
attention_create(k, v) ==
    Create("attention", attention_tensors(k, v) \o <<"query", "key", "value", "attention">>)
attention_create_state(k, v) == Create("attention", attention_tensors(k, v))

\* The host drops the object whether or not the free succeeds.
Destroy(o) ==
    /\ objects[o] # {} /\ ~Capturing
    /\ heap' = Released(heap, o)
    /\ objects' = [objects EXCEPT ![o] = {}]
    /\ last' = Quiet
    /\ UNCHANGED <<work, context, buffers, graphs, capture, failures>>

weights_destroy == Destroy("weights")
device_buffer_destroy == Destroy("buffer")
recurrent_destroy == Destroy("recurrent")
attention_destroy == Destroy("attention")

\* context_destroy, after the objects in qwen35_cpu_close.
ContextDestroy ==
    /\ (context = "open" \/ Serving) /\ ~Capturing
    /\ \A o \in ObjectNames : objects[o] = {}
    /\ heap' = {a \in heap : a.owner \in BufferNames => a.number # buffers[a.owner].ptr}
    /\ buffers' = [b \in BufferNames |-> [ptr |-> Null, bytes |-> 0, made |-> 0]]
    /\ graphs' = [s \in Slots |-> NoGraph]
    /\ context' = "closed" /\ last' = Quiet
    /\ UNCHANGED <<work, objects, capture, failures>>

\* Nothing more happens: the context is gone, or its stream is in a capture that
\* failed and every call returns the error.
Closed == (context = "closed" \/ ~capture.valid) /\ UNCHANGED memoryVars

MemoryNext ==
    \/ ContextCreate \/ Reserve \/ SkipReserve \/ ContextDestroy \/ Closed
    \/ \E name \in work \ ObjectNames, s \in 1..MaxSize : Call(name, s)
    \/ \E slot \in Slots : capture_begin_slot(slot) \/ graph_launch_slot(slot)
    \/ capture_end_slot
    \/ weights_upload \/ device_buffer_create \/ recurrent_create \/ recurrent_create_state
    \/ \E k, v \in {"f16", "quantized"} : attention_create(k, v) \/ attention_create_state(k, v)
    \/ weights_destroy \/ device_buffer_destroy \/ recurrent_destroy \/ attention_destroy

MemorySpec == MemoryInit /\ [][MemoryNext]_memoryVars

---------------------------------------------------------------------------
Live(u) == \E a \in heap : a.owner = u.owner /\ a.number = u.number /\ a.size >= u.need

\* Every allocation is reachable from exactly the pointer or object that will
\* free it, on every error path, and nothing is left when the context is gone.
NothingLeaks ==
    /\ \A a \in heap :
          IF a.owner \in BufferNames THEN buffers[a.owner].ptr = a.number
          ELSE \E o \in ObjectNames : a.owner \in objects[o]
    /\ \A b \in BufferNames : buffers[b].ptr # Null => \E a \in heap : a.owner = b /\ a.number = buffers[b].ptr
    /\ \A o \in ObjectNames : \A f \in objects[o] : Allocation(f, 1, 1) \in heap
    /\ context = "closed" => heap = {}

\* qwen35_cpu.f90:1749 reserves the scalar scratch before any capture, so that a
\* replayed graph finds it where it was captured, whatever ran in between.
Reserved == {"raw", "activation", "output", "fixup"}

\* The ensure functions of these buffers keep the recorded size when an
\* allocation fails: a later, smaller request is met with the null pointer that
\* the failure left.  A reserve that succeeded rules it out for what it reserved.
KeepSize == {"raw", "activation", "output", "aux"}
MayBeNull == IF context = "ready" THEN KeepSize \ Reserved ELSE KeepSize

\* A kernel launched by the host never works on a freed buffer or on one that is
\* too small.  It can be given a null pointer, because the host goes on after an
\* allocation that failed (forward_body, qwen35_cpu.f90:4202): only then, and only
\* for a buffer that keeps its size, which is aux alone once the set-up reserved.
LaunchBacked ==
    last.kind = "eager" => \A u \in last.uses :
        Live(u) \/ (u.number = Null /\ u.owner \in MayBeNull /\ failures > 0)

\* On a context whose scratch was reserved a replayed graph finds the reserved
\* buffers alive and large enough.  The batch, tile and partition buffers are not
\* reserved, and nothing is on the second device's context: a larger request after
\* the capture moves those under the graph.
ReservedStays ==
    last.kind = "graph" /\ context = "ready" =>
        \A u \in last.uses : u.owner \in Reserved => Live(u)

=============================================================================
