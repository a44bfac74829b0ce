-------------------------- MODULE DeviceBuffersProofs --------------------------
(* For any sizes, graph slots and failing calls: no allocation of a context is   *)
(* lost or freed twice, what the host launches works on live memory of the size  *)
(* it asked for, and a replayed graph finds the reserved scratch where it was    *)
(* captured.                                                                     *)
EXTENDS DeviceBuffers, SequenceTheorems, TLAPS

Requested == [buffer : BufferNames, policy : {"keeps", "resets", "replaces"}, size : 0..MaxSize]
BufferRecord == [ptr : Nat, bytes : Nat, made : Nat]

\* Requests of one entry point: each is for a buffer of its own.
WellFormed(requests) ==
    /\ requests \in Seq(Requested)
    /\ \A i, j \in 1..Len(requests) : requests[i].buffer = requests[j].buffer => i = j
    /\ \A i \in 1..Len(requests) : requests[i].policy = "keeps" => requests[i].buffer \in KeepSize

Used == [owner : BufferNames \union {"none"}, number : Nat, need : Nat]
Fields == UNION {FreeList(o) : o \in ObjectNames}

TypeInv ==
    /\ work \in Workloads
    /\ context \in {"none", "open", "ready", "bare", "closed"}
    /\ failures \in Nat
    /\ buffers \in [BufferNames -> BufferRecord]
    /\ objects \in [ObjectNames -> SUBSET Fields]
    /\ graphs \in [Slots -> SUBSET Used]
    /\ capture \in [slot : Int, uses : SUBSET Used, valid : BOOLEAN]
    /\ last \in [kind : {"none", "eager", "graph"}, uses : SUBSET Used]

\* A buffer's pointer, its recorded size and its live allocation agree, and so do
\* an object's fields.
HeapInv ==
    /\ \A a \in heap : a.owner \in BufferNames =>
          a.number = buffers[a.owner].ptr /\ a.number # Null
    /\ \A a \in heap : a.owner \notin BufferNames => \E o \in ObjectNames : a.owner \in objects[o]
    /\ \A b \in BufferNames :
          /\ buffers[b].ptr <= buffers[b].made
          /\ buffers[b].ptr # Null => Allocation(b, buffers[b].ptr, buffers[b].bytes) \in heap
          /\ buffers[b].ptr = Null => buffers[b].bytes = 0 \/ (b \in KeepSize /\ failures > 0)
    /\ \A o \in ObjectNames : \A f \in objects[o] : f \in FreeList(o) /\ Allocation(f, 1, 1) \in heap
    /\ context = "closed" => heap = {}

\* The reserved buffers have nothing before they are reserved, and then their full size.
ReservedInv ==
    /\ context \in {"none", "open"} => \A b \in Reserved : buffers[b].bytes = 0
    /\ context = "ready" => \A b \in Reserved : buffers[b].bytes = MaxSize /\ buffers[b].ptr # Null

\* What was recorded on a reserved context points at the reserved buffers.
Placed(uses) == \A u \in uses :
    u.owner \in Reserved => u.number = buffers[u.owner].ptr /\ u.need \in 0..MaxSize

GraphInv ==
    /\ ~Serving => ~Capturing /\ \A s \in Slots : graphs[s] = NoGraph
    /\ context = "ready" => Placed(capture.uses) /\ \A s \in Slots : Placed(graphs[s])
    /\ last.kind # "none" => Serving
    /\ last.kind = "graph" /\ context = "ready" => Placed(last.uses)

\* The inductive invariant.
MemoryInv == TypeInv /\ HeapInv /\ ReservedInv /\ GraphInv /\ LaunchBacked

--------------------------------------------------------------------------------
(* What the entry points ask for.                                                *)

\* Requests one behind the other are well formed if they share no buffer.
LEMMA ConcatWellFormed ==
  ASSUME NEW s, NEW t, WellFormed(s), WellFormed(t),
         \A i \in 1..Len(s), j \in 1..Len(t) : s[i].buffer # t[j].buffer
  PROVE  WellFormed(s \o t)
<1>1. s \in Seq(Requested) /\ t \in Seq(Requested) /\ Len(s) \in Nat /\ Len(t) \in Nat
  BY LenProperties DEF WellFormed
<1>2. /\ s \o t \in Seq(Requested) /\ Len(s \o t) = Len(s) + Len(t)
      /\ \A i \in 1..(Len(s) + Len(t)) : (s \o t)[i] = IF i <= Len(s) THEN s[i] ELSE t[i - Len(s)]
  BY <1>1, ConcatProperties
<1> DEFINE w == s \o t
<1> DEFINE m == Len(s)
           n == Len(t)
<1>3. /\ w \in Seq(Requested) /\ Len(w) = m + n /\ m \in Nat /\ n \in Nat
      /\ \A i \in 1..(m + n) : w[i] = IF i <= m THEN s[i] ELSE t[i - m]
  BY <1>1, <1>2
<1>4. /\ \A i, j \in 1..m : s[i].buffer = s[j].buffer => i = j
      /\ \A i, j \in 1..n : t[i].buffer = t[j].buffer => i = j
      /\ \A i \in 1..m, j \in 1..n : s[i].buffer # t[j].buffer
      /\ \A i \in 1..m : s[i].policy = "keeps" => s[i].buffer \in KeepSize
      /\ \A i \in 1..n : t[i].policy = "keeps" => t[i].buffer \in KeepSize
  BY DEF WellFormed
<1> HIDE DEF w, m, n
<1>5. \A i \in 1..(m + n) :
          \/ i \in 1..m /\ w[i] = s[i]
          \/ i > m /\ i - m \in 1..n /\ w[i] = t[i - m]
  BY <1>3
<1>6. ASSUME NEW i \in 1..(m + n), NEW j \in 1..(m + n), w[i].buffer = w[j].buffer PROVE i = j
  <2>1. CASE i \in 1..m /\ w[i] = s[i] /\ j \in 1..m /\ w[j] = s[j]
    BY <1>4, <1>6, <2>1
  <2>2. CASE i > m /\ i - m \in 1..n /\ w[i] = t[i - m] /\ j > m /\ j - m \in 1..n /\ w[j] = t[j - m]
    <3>1. i - m = j - m
      BY <1>4, <1>6, <2>2
    <3> QED BY <1>3, <3>1
  <2>3. CASE i \in 1..m /\ w[i] = s[i] /\ j > m /\ j - m \in 1..n /\ w[j] = t[j - m]
    BY <1>4, <1>6, <2>3
  <2>4. CASE i > m /\ i - m \in 1..n /\ w[i] = t[i - m] /\ j \in 1..m /\ w[j] = s[j]
    <3>1. s[j].buffer # t[i - m].buffer
      BY <1>4, <2>4
    <3> QED BY <1>6, <2>4, <3>1
  <2> QED BY <1>5, <2>1, <2>2, <2>3, <2>4, Zenon
<1>7. \A i \in 1..(m + n) : w[i].policy = "keeps" => w[i].buffer \in KeepSize
  BY <1>4, <1>5
<1>8. WellFormed(w)
  BY <1>3, <1>6, <1>7, Zenon DEF WellFormed
<1> QED BY <1>8 DEF w

\* The ensure functions.
LEMMA EnsureWellFormed ==
  ASSUME NEW s \in 0..MaxSize, NEW t \in 0..MaxSize
  PROVE  /\ WellFormed(ensure_host_matvec_scratch(s))
         /\ WellFormed(ensure_device_matvec_scratch(s))
         /\ WellFormed(ensure_aux_scratch(s))
         /\ WellFormed(ensure_batched_activation_scratch(s))
         /\ WellFormed(ensure_mmq_fixup_scratch(s, t))
         /\ WellFormed(ensure_token_scratch(s))
         /\ WellFormed(ensure_download_host(s))
         /\ WellFormed(ensure_attention_f16_view(s))
         /\ WellFormed(ensure_attention_fattn_scratch(s, t))
<1>1. WellFormed(ensure_host_matvec_scratch(s))
  BY DEF WellFormed, ensure_host_matvec_scratch, Request, Requested, BufferNames, KeepSize
<1>2. WellFormed(ensure_device_matvec_scratch(s))
  BY DEF WellFormed, ensure_device_matvec_scratch, Request, Requested, BufferNames
<1>3. WellFormed(ensure_aux_scratch(s))
  BY DEF WellFormed, ensure_aux_scratch, Request, Requested, BufferNames, KeepSize
<1>4. WellFormed(ensure_batched_activation_scratch(s))
  BY DEF WellFormed, ensure_batched_activation_scratch, Request, Requested, BufferNames
<1>5. WellFormed(ensure_mmq_fixup_scratch(s, t))
  BY DEF WellFormed, ensure_mmq_fixup_scratch, Request, Requested, BufferNames
<1>6. WellFormed(ensure_token_scratch(s))
  BY DEF WellFormed, ensure_token_scratch, Request, Requested, BufferNames
<1>7. WellFormed(ensure_download_host(s))
  BY DEF WellFormed, ensure_download_host, Request, Requested, BufferNames
<1>8. WellFormed(ensure_attention_f16_view(s))
  BY DEF WellFormed, ensure_attention_f16_view, Request, Requested, BufferNames
<1>9. WellFormed(ensure_attention_fattn_scratch(s, t))
  BY DEF WellFormed, ensure_attention_fattn_scratch, Request, Requested, BufferNames
<1> QED BY <1>1, <1>2, <1>3, <1>4, <1>5, <1>6, <1>7, <1>8, <1>9

\* The entry points that ask for more than one kind of buffer.
LEMMA ComposedWellFormed ==
  ASSUME NEW s \in 1..MaxSize
  PROVE  /\ WellFormed(ensure_host_matvec_scratch(s) \o ensure_aux_scratch(s))
         /\ WellFormed(ensure_batched_activation_scratch(s) \o ensure_mmq_fixup_scratch(MaxSize, s))
         /\ WellFormed(ensure_aux_scratch(s) \o ensure_download_host(s))
         /\ WellFormed(ensure_attention_f16_view(s) \o ensure_attention_fattn_scratch(s, s))
         /\ WellFormed(reserve_requests)
<1>0. s \in 0..MaxSize /\ MaxSize \in 0..MaxSize /\ 1 \in 0..MaxSize
  BY MemoryAssumption
<1>1. WellFormed(ensure_host_matvec_scratch(s) \o ensure_aux_scratch(s))
  <2>1. \A i \in 1..Len(ensure_host_matvec_scratch(s)), j \in 1..Len(ensure_aux_scratch(s)) :
           ensure_host_matvec_scratch(s)[i].buffer # ensure_aux_scratch(s)[j].buffer
    BY DEF ensure_host_matvec_scratch, ensure_aux_scratch, Request
  <2> QED BY <1>0, <2>1, EnsureWellFormed, ConcatWellFormed
<1>2. WellFormed(ensure_batched_activation_scratch(s) \o ensure_mmq_fixup_scratch(MaxSize, s))
  <2>1. \A i \in 1..Len(ensure_batched_activation_scratch(s)),
           j \in 1..Len(ensure_mmq_fixup_scratch(MaxSize, s)) :
           ensure_batched_activation_scratch(s)[i].buffer # ensure_mmq_fixup_scratch(MaxSize, s)[j].buffer
    BY DEF ensure_batched_activation_scratch, ensure_mmq_fixup_scratch, Request
  <2> QED BY <1>0, <2>1, EnsureWellFormed, ConcatWellFormed
<1>3. WellFormed(ensure_aux_scratch(s) \o ensure_download_host(s))
  <2>1. \A i \in 1..Len(ensure_aux_scratch(s)), j \in 1..Len(ensure_download_host(s)) :
           ensure_aux_scratch(s)[i].buffer # ensure_download_host(s)[j].buffer
    BY DEF ensure_aux_scratch, ensure_download_host, Request
  <2> QED BY <1>0, <2>1, EnsureWellFormed, ConcatWellFormed
<1>4. WellFormed(ensure_attention_f16_view(s) \o ensure_attention_fattn_scratch(s, s))
  <2>1. \A i \in 1..Len(ensure_attention_f16_view(s)),
           j \in 1..Len(ensure_attention_fattn_scratch(s, s)) :
           ensure_attention_f16_view(s)[i].buffer # ensure_attention_fattn_scratch(s, s)[j].buffer
    BY DEF ensure_attention_f16_view, ensure_attention_fattn_scratch, Request
  <2> QED BY <1>0, <2>1, EnsureWellFormed, ConcatWellFormed
<1>5. WellFormed(reserve_requests)
  <2>1. \A i \in 1..Len(ensure_host_matvec_scratch(MaxSize)),
           j \in 1..Len(ensure_mmq_fixup_scratch(MaxSize, 1)) :
           ensure_host_matvec_scratch(MaxSize)[i].buffer # ensure_mmq_fixup_scratch(MaxSize, 1)[j].buffer
    BY DEF ensure_host_matvec_scratch, ensure_mmq_fixup_scratch, Request
  <2> QED BY <1>0, <2>1, EnsureWellFormed, ConcatWellFormed DEF reserve_requests
<1> QED BY <1>1, <1>2, <1>3, <1>4, <1>5

\* Every entry point asks once for each of its buffers.
LEMMA EntryWellFormed ==
  ASSUME NEW name \in EntryPoints, NEW s \in 1..MaxSize
  PROVE  WellFormed(RequestsOf(name, s))
<1>1. s \in 0..MaxSize /\ 0 \in 0..MaxSize
  BY MemoryAssumption
<1>2. RequestsOf(name, s) \in
        {ensure_host_matvec_scratch(s), ensure_device_matvec_scratch(s), ensure_token_scratch(s),
         ensure_download_host(s), ensure_attention_fattn_scratch(0, s),
         ensure_host_matvec_scratch(s) \o ensure_aux_scratch(s),
         ensure_batched_activation_scratch(s) \o ensure_mmq_fixup_scratch(MaxSize, s),
         ensure_aux_scratch(s) \o ensure_download_host(s),
         ensure_attention_f16_view(s) \o ensure_attention_fattn_scratch(s, s)}
  BY DEF EntryPoints, RequestsOf, matvec_host_many, matvec_host, matvec_resident,
         matvec_device_f32, matvec_device_f32_pair, matmul_device_f32, ffn_host, ffn_device,
         embedding_batch, argmax_device, topk_rows_device, attention_q8_view,
         attention_q8_partitions, recurrent_run, recurrent_run_device, attention_run_device,
         device_buffer_download
<1> QED BY <1>1, <1>2, EnsureWellFormed, ComposedWellFormed

\* What the set-up asks for: the reserved buffers, each at its full size.
LEMMA ReserveAsks ==
  /\ \A b \in Reserved : \E i \in 1..Len(reserve_requests) :
        reserve_requests[i].buffer = b /\ reserve_requests[i].size = MaxSize
  /\ \A i \in 1..Len(reserve_requests) :
        reserve_requests[i].buffer \in Reserved => reserve_requests[i].size = MaxSize
<1> DEFINE a == ensure_host_matvec_scratch(MaxSize)
           c == ensure_mmq_fixup_scratch(MaxSize, 1)
<1>1. /\ a[1] = Request("raw", "keeps", MaxSize) /\ a[2] = Request("activation", "keeps", MaxSize)
      /\ a[3] = Request("output", "keeps", MaxSize) /\ Len(a) = 3
      /\ c[1] = Request("fixup", "resets", MaxSize) /\ c[2] = Request("tiles", "resets", 1)
      /\ Len(c) = 2
  BY DEF ensure_host_matvec_scratch, ensure_mmq_fixup_scratch
<1>0. MaxSize \in 0..MaxSize /\ 1 \in 0..MaxSize
  BY MemoryAssumption
<1>a. WellFormed(a) /\ WellFormed(c)
  BY <1>0, EnsureWellFormed
<1> HIDE DEF a, c
<1>2. a \in Seq(Requested) /\ c \in Seq(Requested)
  BY <1>a DEF WellFormed
<1>b. /\ Len(a \o c) = Len(a) + Len(c)
      /\ \A i \in 1..(Len(a) + Len(c)) : (a \o c)[i] = IF i <= Len(a) THEN a[i] ELSE c[i - Len(a)]
  BY <1>2, ConcatProperties
<1>3. Len(a \o c) = 5 /\ \A i \in 1..5 : (a \o c)[i] = IF i <= 3 THEN a[i] ELSE c[i - 3]
  BY <1>1, <1>b
<1> DEFINE w == a \o c
<1>4. /\ Len(w) = 5 /\ w[1] = a[1] /\ w[2] = a[2] /\ w[3] = a[3] /\ w[4] = c[1] /\ w[5] = c[2]
  BY <1>3
<1> HIDE DEF w
<1>5. /\ \A b \in Reserved : \E i \in 1..Len(w) : w[i].buffer = b /\ w[i].size = MaxSize
      /\ \A i \in 1..Len(w) : w[i].buffer \in Reserved => w[i].size = MaxSize
  BY <1>1, <1>4 DEF Reserved, Request
<1> QED BY <1>5 DEF w, a, c, reserve_requests

--------------------------------------------------------------------------------
(* The fields of the objects.                                                    *)

\* No two objects have a field in common, and none is called as a buffer is.
LEMMA ObjectFields ==
  /\ \A o \in ObjectNames : FreeList(o) \intersect BufferNames = {}
  /\ \A o, p \in ObjectNames : o # p => FreeList(o) \intersect FreeList(p) = {}
<1>1. Range(recurrent_tensors) = {"conv_weights", "ssm_a", "ssm_dt", "ssm_norm", "conv_state",
        "gdn_state", "conv_state_first", "gdn_state_first", "conv_state_second", "gdn_state_second"}
  BY DEF Range, recurrent_tensors
<1>2. Range(recurrent_outputs) = {"qkv_output", "gate_output", "alpha_output", "beta_output"}
  BY DEF Range, recurrent_outputs
<1>3. /\ FreeList("weights") = {"device_data"} /\ FreeList("buffer") = {"device_buffer"}
      /\ FreeList("recurrent") = {"conv_weights", "ssm_a", "ssm_dt", "ssm_norm", "conv_state",
           "gdn_state", "conv_state_first", "gdn_state_first", "conv_state_second",
           "gdn_state_second", "qkv_output", "gate_output", "alpha_output", "beta_output", "gdn_output"}
      /\ FreeList("attention") = {"query_norm", "key_norm", "key_cache", "value_cache",
           "key_cache_q8", "value_cache_q8", "query", "key", "value", "attention"}
  BY <1>1, <1>2 DEF FreeList, free_recurrent_device_buffers, free_attention_device_buffers
<1>4. \A o \in ObjectNames : FreeList(o) \intersect BufferNames = {}
  BY <1>3 DEF ObjectNames, BufferNames
<1>5. \A o, p \in ObjectNames : o # p => FreeList(o) \intersect FreeList(p) = {}
  BY <1>3 DEF ObjectNames
<1> QED BY <1>4, <1>5

--------------------------------------------------------------------------------
(* Growing and freeing.                                                          *)

OwnBuffers(rs) ==
    /\ rs \subseteq Requested
    /\ \A r, q \in rs : r.buffer = q.buffer => r = q

\* Any part of an entry point's requests is for different buffers.
LEMMA PartsOwnBuffers ==
  ASSUME NEW requests, WellFormed(requests)
  PROVE  /\ OwnBuffers(Range(requests))
         /\ Range(requests) = {requests[i] : i \in 1..Len(requests)}
         /\ \A rs : rs \subseteq Range(requests) => OwnBuffers(rs)
<1>1. /\ DOMAIN requests = 1..Len(requests)
      /\ \A i \in 1..Len(requests) : requests[i] \in Requested
      /\ \A i, j \in 1..Len(requests) : requests[i].buffer = requests[j].buffer => i = j
  BY LenProperties, ElementOfSeq DEF WellFormed
<1>2. Range(requests) = {requests[i] : i \in 1..Len(requests)}
  BY <1>1 DEF Range
<1>3. OwnBuffers(Range(requests))
  BY <1>1, <1>2 DEF OwnBuffers
<1>4. ASSUME NEW rs, rs \subseteq Range(requests) PROVE OwnBuffers(rs)
  BY <1>3, <1>4 DEF OwnBuffers
<1> QED BY <1>2, <1>3, <1>4

\* The buffers that were grown, and the others.
LEMMA GrownBuffers ==
  ASSUME TypeInv, NEW rs, OwnBuffers(rs)
  PROVE  /\ Grown(rs) \in [BufferNames -> BufferRecord]
         /\ \A r \in rs : Grown(rs)[r.buffer] =
              [ptr |-> buffers[r.buffer].made + 1, made |-> buffers[r.buffer].made + 1, bytes |-> r.size]
         /\ \A b \in BufferNames : (\A r \in rs : r.buffer # b) => Grown(rs)[b] = buffers[b]
<1>1. \A b \in BufferNames : buffers[b] \in BufferRecord
  BY DEF TypeInv
<1>2. ASSUME NEW r \in rs
      PROVE  /\ (CHOOSE q \in rs : q.buffer = r.buffer) = r
             /\ r.buffer \in BufferNames /\ r.size \in Nat
  BY MemoryAssumption DEF OwnBuffers, Requested
<1>3. \A r \in rs : Grown(rs)[r.buffer] =
         [ptr |-> buffers[r.buffer].made + 1, made |-> buffers[r.buffer].made + 1, bytes |-> r.size]
  <2> TAKE r \in rs
  <2>1. r.buffer \in BufferNames /\ (\E q \in rs : q.buffer = r.buffer)
    BY <1>2
  <2> QED BY <1>2, <2>1 DEF Grown
<1>4. \A b \in BufferNames : (\A r \in rs : r.buffer # b) => Grown(rs)[b] = buffers[b]
  BY DEF Grown
<1>5. ASSUME NEW b \in BufferNames PROVE Grown(rs)[b] \in BufferRecord
  <2>1. CASE \E r \in rs : r.buffer = b
    <3>1. PICK r \in rs : r.buffer = b
      BY <2>1
    <3>2. Grown(rs)[b] = [ptr |-> buffers[b].made + 1, made |-> buffers[b].made + 1, bytes |-> r.size]
      BY <1>3, <3>1
    <3> QED BY <1>1, <1>2, <3>2 DEF BufferRecord
  <2>2. CASE \A r \in rs : r.buffer # b
    BY <1>1, <1>4, <2>2
  <2> QED BY <2>1, <2>2
<1>6. Grown(rs) \in [BufferNames -> BufferRecord]
  BY <1>5 DEF Grown
<1> QED BY <1>3, <1>4, <1>6

\* Buffers rs are reallocated and buffers fs \ rs only freed: pointers, sizes and
\* allocations agree again.
LEMMA HeapStep ==
  ASSUME TypeInv, HeapInv, NEW fs, NEW rs, OwnBuffers(fs), rs \subseteq fs,
         buffers' \in [BufferNames -> BufferRecord],
         \A r \in rs : buffers'[r.buffer] =
           [ptr |-> buffers[r.buffer].made + 1, made |-> buffers[r.buffer].made + 1, bytes |-> r.size],
         \A r \in fs \ rs : /\ buffers'[r.buffer].ptr = Null
                            /\ \/ buffers'[r.buffer].bytes = 0
                               \/ r.buffer \in KeepSize /\ failures' > 0,
         \A b \in BufferNames : (\A r \in fs : r.buffer # b) => buffers'[b] = buffers[b],
         heap' = Freed(fs) \union Allocated(rs),
         objects' = objects, context' # "closed", failures > 0 => failures' > 0
  PROVE  HeapInv'
<1>0. \A r \in fs : r.buffer \in BufferNames
  BY DEF OwnBuffers, Requested
<1>1. ASSUME NEW a \in heap', a \in Allocated(rs)
      PROVE  /\ a.owner \in BufferNames /\ a.number = buffers'[a.owner].ptr /\ a.number # Null
  <2>1. PICK r \in rs : a = Allocation(r.buffer, buffers[r.buffer].made + 1, r.size)
    BY <1>1 DEF Allocated
  <2>2. a.owner = r.buffer /\ a.number = buffers[r.buffer].made + 1 /\ r.buffer \in BufferNames
    BY <1>0, <2>1 DEF Allocation
  <2>3. buffers[r.buffer].made \in Nat
    BY <2>2 DEF TypeInv, BufferRecord
  <2>4. buffers'[r.buffer] =
          [ptr |-> buffers[r.buffer].made + 1, made |-> buffers[r.buffer].made + 1, bytes |-> r.size]
    OBVIOUS
  <2>5. buffers'[r.buffer].ptr = buffers[r.buffer].made + 1
    BY ONLY <2>4, SMT
  <2> QED BY <2>2, <2>3, <2>5 DEF Null
<1>2. ASSUME NEW a \in heap', a \in Freed(fs)
      PROVE  /\ a \in heap
             /\ a.owner \in BufferNames =>
                  a.number = buffers'[a.owner].ptr /\ a.number # Null
  <2>1. a \in heap /\ \A r \in fs : ~Owns(r, a)
    BY <1>2 DEF Freed
  <2>2. ASSUME a.owner \in BufferNames PROVE a.number = buffers'[a.owner].ptr /\ a.number # Null
    <3>1. a.number = buffers[a.owner].ptr /\ a.number # Null
      BY <2>1, <2>2 DEF HeapInv
    <3>2. \A r \in fs : r.buffer # a.owner
      BY <2>1, <3>1 DEF Owns
    <3> QED BY <2>2, <3>1, <3>2
  <2> QED BY <2>1, <2>2
<1>3. \A a \in heap' : a \in Allocated(rs) \/ a \in Freed(fs)
  OBVIOUS
<1>4. ASSUME NEW b \in BufferNames
      PROVE  /\ buffers'[b].ptr <= buffers'[b].made
             /\ buffers'[b].ptr # Null => Allocation(b, buffers'[b].ptr, buffers'[b].bytes) \in heap'
             /\ buffers'[b].ptr = Null =>
                  buffers'[b].bytes = 0 \/ (b \in KeepSize /\ failures' > 0)
  <2>0. buffers'[b] \in BufferRecord /\ buffers[b] \in BufferRecord
    BY DEF TypeInv
  <2>1. CASE \E r \in rs : r.buffer = b
    <3>1. PICK r \in rs : r.buffer = b
      BY <2>1
    <3>a. buffers'[b] = [ptr |-> buffers[b].made + 1, made |-> buffers[b].made + 1, bytes |-> r.size]
      BY <3>1
    <3>2. /\ buffers'[b].ptr = buffers[b].made + 1 /\ buffers'[b].made = buffers[b].made + 1
          /\ buffers'[b].bytes = r.size
      BY ONLY <3>a, SMT
    <3>3. Allocation(b, buffers[b].made + 1, r.size) \in Allocated(rs)
      BY <3>1 DEF Allocated
    <3> QED BY <2>0, <3>2, <3>3 DEF BufferRecord, Null
  <2>2. CASE \E r \in fs \ rs : r.buffer = b
    <3>1. /\ buffers'[b].ptr = 0
          /\ buffers'[b].bytes = 0 \/ (b \in KeepSize /\ failures' > 0)
      BY <2>2 DEF Null
    <3>2. 0 <= buffers'[b].made
      BY <2>0 DEF BufferRecord
    <3> QED BY <3>1, <3>2 DEF Null
  <2>3. CASE \A r \in fs : r.buffer # b
    <3>1. buffers'[b] = buffers[b]
      BY <2>3
    <3>2. buffers[b].ptr # Null => Allocation(b, buffers[b].ptr, buffers[b].bytes) \in Freed(fs)
      BY <2>3 DEF HeapInv, Freed, Owns, Allocation
    <3> QED BY <3>1, <3>2 DEF HeapInv
  <2> QED BY <2>1, <2>2, <2>3
<1>5. ASSUME NEW o \in ObjectNames, NEW f \in objects[o]
      PROVE  f \in FreeList(o) /\ Allocation(f, 1, 1) \in heap'
  <2>1. f \in FreeList(o) /\ Allocation(f, 1, 1) \in heap
    BY DEF HeapInv
  <2>2. f \notin BufferNames
    BY <2>1, ObjectFields
  <2>3. Allocation(f, 1, 1) \in Freed(fs)
    BY <1>0, <2>1, <2>2 DEF Freed, Owns, Allocation
  <2> QED BY <2>1, <2>3
<1>6. \A a \in heap' : a.owner \notin BufferNames => \E o \in ObjectNames : a.owner \in objects'[o]
  BY <1>1, <1>2, <1>3 DEF HeapInv
<1>7. \A a \in heap' : a.owner \in BufferNames => a.number = buffers'[a.owner].ptr /\ a.number # Null
  BY <1>1, <1>2, <1>3
<1> QED BY <1>4, <1>5, <1>6, <1>7 DEF HeapInv

\* A buffer is touched for a request that makes it grow, and for its size.
Touched(requests) ==
    \A b \in BufferNames :
        \/ buffers'[b] = buffers[b]
        \/ \E i \in 1..Len(requests) :
              /\ requests[i].buffer = b /\ Grows(buffers[b], requests[i])
              /\ \/ buffers'[b].bytes = requests[i].size /\ buffers'[b].ptr # Null
                 \/ /\ buffers'[b].ptr = Null
                    /\ buffers'[b].bytes = 0 \/ buffers'[b].bytes = buffers[b].bytes

\* All requests of an entry point are met.
LEMMA MetStep ==
  ASSUME TypeInv, HeapInv, NEW requests, WellFormed(requests), Met(requests),
         objects' = objects, context' # "closed"
  PROVE  /\ buffers' \in [BufferNames -> BufferRecord] /\ failures' \in Nat
         /\ HeapInv'
         /\ Touched(requests)
         /\ \A i \in 1..Len(requests) :
              IF Grows(buffers[requests[i].buffer], requests[i])
              THEN /\ buffers'[requests[i].buffer].bytes = requests[i].size
                   /\ buffers'[requests[i].buffer].ptr # Null
              ELSE buffers'[requests[i].buffer] = buffers[requests[i].buffer]
<1> DEFINE rs == Growing(Range(requests))
<1>1. /\ rs \subseteq Range(requests) /\ OwnBuffers(rs) /\ OwnBuffers(Range(requests))
      /\ Range(requests) = {requests[i] : i \in 1..Len(requests)}
      /\ \A r \in Range(requests) : Grows(buffers[r.buffer], r) <=> r \in rs
  BY PartsOwnBuffers DEF Growing
<1>2. buffers' = Grown(rs) /\ heap' = Freed(rs) \union Allocated(rs) /\ failures' = failures
  BY DEF Met
<1> HIDE DEF rs
<1>3. /\ buffers' \in [BufferNames -> BufferRecord]
      /\ \A r \in rs : buffers'[r.buffer] =
           [ptr |-> buffers[r.buffer].made + 1, made |-> buffers[r.buffer].made + 1, bytes |-> r.size]
      /\ \A b \in BufferNames : (\A r \in rs : r.buffer # b) => buffers'[b] = buffers[b]
  BY <1>1, <1>2, GrownBuffers
<1>4. HeapInv' /\ failures' \in Nat
  <2>1. failures' \in Nat /\ (failures > 0 => failures' > 0) /\ rs \ rs = {}
    BY <1>2 DEF TypeInv
  <2> QED BY <1>1, <1>2, <1>3, <2>1, HeapStep
<1>5. ASSUME NEW r \in rs
      PROVE  buffers'[r.buffer].bytes = r.size /\ buffers'[r.buffer].ptr # Null
  <2>1. buffers'[r.buffer] =
          [ptr |-> buffers[r.buffer].made + 1, made |-> buffers[r.buffer].made + 1, bytes |-> r.size]
    BY <1>3
  <2>2. buffers'[r.buffer].ptr = buffers[r.buffer].made + 1 /\ buffers'[r.buffer].bytes = r.size
    BY ONLY <2>1, SMT
  <2>3. buffers[r.buffer].made \in Nat
    BY <1>1 DEF OwnBuffers, Requested, TypeInv, BufferRecord
  <2> QED BY <2>2, <2>3 DEF Null
<1>6. ASSUME NEW i \in 1..Len(requests)
      PROVE  IF Grows(buffers[requests[i].buffer], requests[i])
             THEN /\ buffers'[requests[i].buffer].bytes = requests[i].size
                  /\ buffers'[requests[i].buffer].ptr # Null
             ELSE buffers'[requests[i].buffer] = buffers[requests[i].buffer]
  <2>1. requests[i] \in Range(requests)
    BY <1>1
  <2>2. CASE requests[i] \in rs
    BY <1>1, <1>5, <2>1, <2>2
  <2>3. CASE requests[i] \notin rs
    <3>1. \A r \in rs : r.buffer # requests[i].buffer
      BY <1>1, <2>1, <2>3 DEF OwnBuffers
    <3>2. requests[i].buffer \in BufferNames
      BY <1>1, <2>1 DEF OwnBuffers, Requested
    <3> QED BY <1>1, <1>3, <2>1, <2>3, <3>1, <3>2
  <2> QED BY <2>2, <2>3
<1>7. Touched(requests)
  <2> SUFFICES ASSUME NEW b \in BufferNames, buffers'[b] # buffers[b]
               PROVE  \E i \in 1..Len(requests) :
                        /\ requests[i].buffer = b /\ Grows(buffers[b], requests[i])
                        /\ buffers'[b].bytes = requests[i].size /\ buffers'[b].ptr # Null
    BY DEF Touched
  <2>1. PICK r \in rs : r.buffer = b
    BY <1>3
  <2>2. PICK i \in 1..Len(requests) : requests[i] = r
    BY <1>1, <2>1
  <2> QED BY <1>1, <1>5, <2>1, <2>2
<1> QED BY <1>3, <1>4, <1>6, <1>7

\* A buffer whose pointer and size are overwritten.
LEMMA ClearedRecord ==
  ASSUME NEW x \in BufferRecord, NEW v \in Nat, NEW y, y = [x EXCEPT !.ptr = Null, !.bytes = v]
  PROVE  y.ptr = Null /\ y.bytes = v /\ y \in BufferRecord
  BY DEF BufferRecord, Null

\* One request fails, and the entry point gives up.
LEMMA RefusedStep ==
  ASSUME TypeInv, HeapInv, NEW requests, WellFormed(requests), Refused(requests),
         objects' = objects, context' # "closed"
  PROVE  /\ buffers' \in [BufferNames -> BufferRecord] /\ failures' \in Nat
         /\ HeapInv'
         /\ Touched(requests)
<1>1. PICK n \in 1..Len(requests) :
        LET r == requests[n]
            done == Growing({requests[k] : k \in 1..(n - 1)})
        IN  /\ Grows(buffers[r.buffer], r)
            /\ IF Capturing THEN done = {} /\ UNCHANGED failures
               ELSE failures < MaxFailures /\ failures' = failures + 1
            /\ \/ /\ buffers' = Grown(done)
                  /\ heap' = Freed(done) \union Allocated(done)
               \/ /\ ~Capturing /\ r.policy # "replaces"
                  /\ buffers' = [Grown(done) EXCEPT ![r.buffer].ptr = Null,
                         ![r.buffer].bytes = IF r.policy = "keeps" THEN @ ELSE 0]
                  /\ heap' = Freed(done \union {r}) \union Allocated(done)
  BY Zenon DEF Refused
<1> DEFINE r == requests[n]
           done == Growing({requests[k] : k \in 1..(n - 1)})
           all == Range(requests)
<1>2. /\ Grows(buffers[r.buffer], r)
      /\ failures' = failures \/ failures' = failures + 1
      /\ \/ /\ buffers' = Grown(done)
            /\ heap' = Freed(done) \union Allocated(done)
         \/ /\ failures' = failures + 1 /\ r.policy # "replaces"
            /\ buffers' = [Grown(done) EXCEPT ![r.buffer].ptr = Null,
                   ![r.buffer].bytes = IF r.policy = "keeps" THEN @ ELSE 0]
            /\ heap' = Freed(done \union {r}) \union Allocated(done)
  BY <1>1
<1>3. /\ OwnBuffers(all) /\ all = {requests[i] : i \in 1..Len(requests)} /\ r \in all
      /\ Len(requests) \in Nat
  BY PartsOwnBuffers, LenProperties DEF WellFormed
<1>4. /\ done \subseteq all
      /\ \A q \in done : Grows(buffers[q.buffer], q)
  BY <1>3 DEF Growing
<1>5. r \notin done
  <2>1. \A k \in 1..(n - 1) : requests[k] # r
    BY <1>3 DEF WellFormed
  <2> QED BY <2>1 DEF Growing
<1>6. r.policy = "keeps" => r.buffer \in KeepSize
  BY DEF WellFormed
<1> HIDE DEF r, done, all
<1>7. OwnBuffers(done) /\ OwnBuffers(done \union {r})
  BY <1>3, <1>4 DEF OwnBuffers
<1>8. /\ Grown(done) \in [BufferNames -> BufferRecord]
      /\ \A q \in done : Grown(done)[q.buffer] =
           [ptr |-> buffers[q.buffer].made + 1, made |-> buffers[q.buffer].made + 1, bytes |-> q.size]
      /\ \A b \in BufferNames : (\A q \in done : q.buffer # b) => Grown(done)[b] = buffers[b]
  BY <1>7, GrownBuffers
<1>9. /\ r.buffer \in BufferNames /\ \A q \in done : q.buffer \in BufferNames /\ q.buffer # r.buffer
  BY <1>3, <1>4, <1>5 DEF OwnBuffers, Requested
<1>10. ASSUME NEW q \in done
       PROVE  Grown(done)[q.buffer].bytes = q.size /\ Grown(done)[q.buffer].ptr # Null
  <2>1. Grown(done)[q.buffer] =
          [ptr |-> buffers[q.buffer].made + 1, made |-> buffers[q.buffer].made + 1, bytes |-> q.size]
    BY <1>8
  <2>2. /\ Grown(done)[q.buffer].ptr = buffers[q.buffer].made + 1
        /\ Grown(done)[q.buffer].bytes = q.size
    BY ONLY <2>1, SMT
  <2>3. buffers[q.buffer].made \in Nat
    BY <1>9 DEF TypeInv, BufferRecord
  <2> QED BY <2>2, <2>3 DEF Null
<1>11. ASSUME NEW b \in BufferNames, Grown(done)[b] # buffers[b]
       PROVE  \E i \in 1..Len(requests) :
                /\ requests[i].buffer = b /\ Grows(buffers[b], requests[i])
                /\ Grown(done)[b].bytes = requests[i].size /\ Grown(done)[b].ptr # Null
  <2>1. PICK q \in done : q.buffer = b
    BY <1>8, <1>11
  <2>2. PICK i \in 1..Len(requests) : requests[i] = q
    BY <1>3, <1>4, <2>1
  <2> QED BY <1>4, <1>10, <2>1, <2>2
<1>a. failures' \in Nat /\ (failures > 0 => failures' > 0)
  BY <1>2 DEF TypeInv
<1>12. CASE /\ buffers' = Grown(done)
            /\ heap' = Freed(done) \union Allocated(done)
  <2>1. HeapInv'
    BY <1>7, <1>8, <1>a, <1>12, HeapStep
  <2>2. Touched(requests)
    BY <1>11, <1>12 DEF Touched
  <2> QED BY <1>8, <1>a, <1>12, <2>1, <2>2
<1>13. CASE /\ failures' = failures + 1 /\ r.policy # "replaces"
            /\ buffers' = [Grown(done) EXCEPT ![r.buffer].ptr = Null,
                   ![r.buffer].bytes = IF r.policy = "keeps" THEN @ ELSE 0]
            /\ heap' = Freed(done \union {r}) \union Allocated(done)
  <2>1. Grown(done)[r.buffer] = buffers[r.buffer] /\ buffers[r.buffer] \in BufferRecord
    BY <1>8, <1>9 DEF TypeInv
  <2>2. /\ \A b \in BufferNames : b # r.buffer => buffers'[b] = Grown(done)[b]
        /\ buffers'[r.buffer] = [buffers[r.buffer] EXCEPT !.ptr = Null,
              !.bytes = IF r.policy = "keeps" THEN buffers[r.buffer].bytes ELSE 0]
        /\ DOMAIN buffers' = BufferNames
        /\ buffers' = [b \in BufferNames |-> buffers'[b]]
    BY <1>8, <1>9, <1>13, <2>1
  <2>3. /\ buffers'[r.buffer].ptr = Null
        /\ buffers'[r.buffer].bytes = IF r.policy = "keeps" THEN buffers[r.buffer].bytes ELSE 0
        /\ buffers'[r.buffer] \in BufferRecord
    <3> DEFINE v == IF r.policy = "keeps" THEN buffers[r.buffer].bytes ELSE 0
    <3>1. buffers[r.buffer] \in BufferRecord /\ v \in Nat
      BY <2>1 DEF BufferRecord
    <3>2. buffers'[r.buffer] = [buffers[r.buffer] EXCEPT !.ptr = Null, !.bytes = v]
      BY <2>2
    <3> HIDE DEF v
    <3>3. /\ buffers'[r.buffer].ptr = Null /\ buffers'[r.buffer].bytes = v
          /\ buffers'[r.buffer] \in BufferRecord
      BY ONLY <3>1, <3>2, ClearedRecord, Zenon
    <3> QED BY <3>3 DEF v
  <2>4. buffers' \in [BufferNames -> BufferRecord]
    <3>1. \A b \in BufferNames : buffers'[b] \in BufferRecord
      BY <1>8, <2>2, <2>3
    <3> QED BY <2>2, <3>1
  <2>5. \A q \in done : buffers'[q.buffer] =
           [ptr |-> buffers[q.buffer].made + 1, made |-> buffers[q.buffer].made + 1, bytes |-> q.size]
    BY <1>8, <1>9, <2>2
  <2>6. \A q \in (done \union {r}) \ done :
           /\ buffers'[q.buffer].ptr = Null
           /\ buffers'[q.buffer].bytes = 0 \/ (q.buffer \in KeepSize /\ failures' > 0)
    <3>1. failures' > 0
      BY <1>13 DEF TypeInv
    <3> QED BY <1>6, <2>3, <3>1
  <2>7. \A b \in BufferNames : (\A q \in done \union {r} : q.buffer # b) => buffers'[b] = buffers[b]
    BY <1>8, <2>2
  <2>8. HeapInv'
    BY <1>7, <1>a, <1>13, <2>4, <2>5, <2>6, <2>7, HeapStep
  <2>9. ASSUME NEW b \in BufferNames, buffers'[b] # buffers[b]
        PROVE  \E i \in 1..Len(requests) :
                 /\ requests[i].buffer = b /\ Grows(buffers[b], requests[i])
                 /\ \/ buffers'[b].bytes = requests[i].size /\ buffers'[b].ptr # Null
                    \/ /\ buffers'[b].ptr = Null
                       /\ buffers'[b].bytes = 0 \/ buffers'[b].bytes = buffers[b].bytes
    <3>1. CASE b = r.buffer
      BY <1>2, <2>3, <3>1 DEF r
    <3>2. CASE b # r.buffer
      BY <1>11, <2>2, <2>9, <3>2
    <3> QED BY <3>1, <3>2
  <2> QED BY <1>a, <2>4, <2>8, <2>9 DEF Touched
<1> QED BY <1>2, <1>12, <1>13

--------------------------------------------------------------------------------
(* The steps.                                                                    *)

\* Nothing is allocated before the context is created.
LEMMA InitMemory == MemoryInit => MemoryInv
<1> SUFFICES ASSUME MemoryInit PROVE MemoryInv
  OBVIOUS
<1>1. Quiet \in [kind : {"none", "eager", "graph"}, uses : SUBSET Used] /\ Quiet.kind = "none"
  BY DEF Quiet
<1>2. NoGraph \in SUBSET Used
  BY DEF NoGraph, Used
<1>3. NotCapturing \in [slot : Int, uses : SUBSET Used, valid : BOOLEAN]
  BY DEF NotCapturing
<1>4. \A b \in BufferNames : buffers[b] = [ptr |-> 0, bytes |-> 0, made |-> 0]
  BY DEF MemoryInit, Null
<1>5. buffers \in [BufferNames -> BufferRecord]
  BY <1>4 DEF MemoryInit, BufferRecord, Null
<1>6. \A b \in BufferNames : buffers[b].ptr = 0 /\ buffers[b].bytes = 0 /\ buffers[b].made = 0
  BY <1>4
<1>7. TypeInv
  BY <1>1, <1>2, <1>3, <1>5 DEF MemoryInit, TypeInv
<1>8. HeapInv
  BY <1>6 DEF MemoryInit, HeapInv, Null
<1>9. ReservedInv
  BY <1>6 DEF MemoryInit, ReservedInv, Reserved, BufferNames
<1>10. GraphInv /\ LaunchBacked
  BY <1>1 DEF MemoryInit, GraphInv, LaunchBacked, Capturing, Serving
<1> QED BY <1>7, <1>8, <1>9, <1>10 DEF MemoryInv

\* The set-up reserves the scratch, or fails and leaves a context without.
LEMMA ReserveStep ==
  ASSUME MemoryInv, Reserve
  PROVE  MemoryInv'
<1>1. /\ context = "open" /\ last' = Quiet /\ objects' = objects /\ graphs' = graphs
      /\ capture' = capture /\ work' = work /\ context' \in {"ready", "bare"}
      /\ \/ Met(reserve_requests) /\ context' = "ready"
         \/ Refused(reserve_requests) /\ context' = "bare"
  BY DEF Reserve
<1>2. WellFormed(reserve_requests)
  BY ComposedWellFormed, MemoryAssumption
<1>3. /\ buffers' \in [BufferNames -> BufferRecord] /\ failures' \in Nat
      /\ HeapInv' /\ Touched(reserve_requests)
  BY <1>1, <1>2, MetStep, RefusedStep DEF MemoryInv
<1>4. TypeInv'
  BY <1>1, <1>3 DEF MemoryInv, TypeInv, Quiet
<1>5. GraphInv' /\ LaunchBacked'
  <2>1. last'.kind = "none" /\ ~Capturing /\ \A s \in Slots : graphs[s] = NoGraph
    BY <1>1 DEF Quiet, MemoryInv, GraphInv, Serving
  <2>2. Placed(capture.uses)' /\ \A s \in Slots : Placed(graphs[s])'
    BY <1>1, <2>1 DEF Capturing, NotCapturing, NoGraph, Placed, Reserved
  <2> QED BY <1>1, <2>1, <2>2 DEF GraphInv, LaunchBacked, Serving
<1>6. ASSUME NEW b \in Reserved
      PROVE  /\ b \in BufferNames /\ buffers[b].bytes = 0
             /\ MaxSize \in Nat /\ MaxSize > 0
  BY <1>1, MemoryAssumption DEF MemoryInv, ReservedInv, Reserved, BufferNames
<1>7. CASE Met(reserve_requests) /\ context' = "ready"
  <2> SUFFICES ASSUME NEW b \in Reserved PROVE buffers'[b].bytes = MaxSize /\ buffers'[b].ptr # Null
    BY <1>3, <1>4, <1>5, <1>7 DEF MemoryInv, ReservedInv
  <2>1. PICK i \in 1..Len(reserve_requests) :
           reserve_requests[i].buffer = b /\ reserve_requests[i].size = MaxSize
    BY ReserveAsks
  <2>2. Grows(buffers[b], reserve_requests[i])
    BY <1>6, <2>1 DEF Grows
  <2>3. \A k \in 1..Len(reserve_requests) :
            IF Grows(buffers[reserve_requests[k].buffer], reserve_requests[k])
            THEN /\ buffers'[reserve_requests[k].buffer].bytes = reserve_requests[k].size
                 /\ buffers'[reserve_requests[k].buffer].ptr # Null
            ELSE buffers'[reserve_requests[k].buffer] = buffers[reserve_requests[k].buffer]
    BY <1>1, <1>2, <1>7, MetStep DEF MemoryInv
  <2> QED BY <2>1, <2>2, <2>3
<1>8. CASE Refused(reserve_requests) /\ context' = "bare"
  <2>1. ReservedInv'
    BY <1>8 DEF ReservedInv
  <2> QED BY <1>3, <1>4, <1>5, <2>1 DEF MemoryInv
<1> QED BY <1>1, <1>7, <1>8

\* A context for which nothing is reserved.
LEMMA SkipReserveStep ==
  ASSUME MemoryInv, SkipReserve
  PROVE  MemoryInv'
<1>1. /\ context = "open" /\ context' = "bare" /\ last' = Quiet /\ work' = work
      /\ buffers' = buffers /\ heap' = heap /\ objects' = objects /\ graphs' = graphs
      /\ capture' = capture /\ failures' = failures
  BY DEF SkipReserve
<1>2. last' \in [kind : {"none", "eager", "graph"}, uses : SUBSET Used] /\ last'.kind = "none"
  BY <1>1 DEF Quiet
<1>3. TypeInv'
  BY <1>1, <1>2 DEF MemoryInv, TypeInv
<1>4. HeapInv' /\ ReservedInv'
  BY <1>1 DEF MemoryInv, HeapInv, ReservedInv
<1>5. GraphInv' /\ LaunchBacked'
  BY <1>1, <1>2 DEF GraphInv, LaunchBacked, Serving
<1> QED BY <1>3, <1>4, <1>5 DEF MemoryInv

\* The reserved buffers stay where they are.
LEMMA ReservedUntouched ==
  ASSUME MemoryInv, context = "ready", NEW requests, WellFormed(requests), Touched(requests)
  PROVE  \A b \in Reserved : buffers'[b] = buffers[b]
<1> SUFFICES ASSUME NEW b \in Reserved, buffers'[b] # buffers[b] PROVE FALSE
  OBVIOUS
<1>1. PICK i \in 1..Len(requests) : requests[i].buffer = b /\ Grows(buffers[b], requests[i])
  BY DEF Touched, Reserved, BufferNames
<1>2. requests[i] \in Requested
  BY ElementOfSeq DEF WellFormed
<1>3. buffers[b].bytes = MaxSize /\ buffers[b].ptr # Null
  BY DEF MemoryInv, ReservedInv
<1>4. requests[i].size \in 0..MaxSize
  BY <1>2 DEF Requested
<1> QED BY <1>1, <1>3, <1>4, MemoryAssumption DEF Grows

\* The pointers that a met entry point hands to its kernels.
LEMMA UsesBacked ==
  ASSUME MemoryInv, Serving, NEW requests, WellFormed(requests), Met(requests),
         objects' = objects, context' = context
  PROVE  /\ UsesOf(requests, buffers') \in SUBSET Used
         /\ \A u \in UsesOf(requests, buffers') : u.owner \in Reserved =>
              u.number = buffers'[u.owner].ptr /\ u.need \in 0..MaxSize
         /\ \A u \in UsesOf(requests, buffers') :
              Live(u)' \/ (u.number = Null /\ u.owner \in MayBeNull' /\ failures' > 0)
<1>1. /\ buffers' \in [BufferNames -> BufferRecord] /\ HeapInv' /\ Touched(requests)
      /\ \A i \in 1..Len(requests) :
           IF Grows(buffers[requests[i].buffer], requests[i])
           THEN /\ buffers'[requests[i].buffer].bytes = requests[i].size
                /\ buffers'[requests[i].buffer].ptr # Null
           ELSE buffers'[requests[i].buffer] = buffers[requests[i].buffer]
  BY MetStep DEF MemoryInv, Serving
<1>2. context = "ready" => \A b \in Reserved : buffers'[b].ptr # Null
  BY <1>1, ReservedUntouched DEF MemoryInv, ReservedInv
<1>3. ASSUME NEW u \in UsesOf(requests, buffers')
      PROVE  /\ u \in Used /\ u.owner \in BufferNames /\ u.number = buffers'[u.owner].ptr
             /\ u.need \in 0..MaxSize
             /\ Live(u)' \/ (u.number = Null /\ u.owner \in MayBeNull' /\ failures' > 0)
  <2>1. PICK i \in 1..Len(requests) :
           /\ requests[i].size > 0
           /\ u = [owner |-> requests[i].buffer, number |-> buffers'[requests[i].buffer].ptr,
                   need |-> requests[i].size]
    BY PartsOwnBuffers DEF UsesOf
  <2>2. requests[i] \in Requested
    BY ElementOfSeq DEF WellFormed
  <2>3. /\ requests[i].buffer \in BufferNames /\ requests[i].size \in 0..MaxSize
        /\ MaxSize \in Nat
    BY <2>2, MemoryAssumption DEF Requested
  <2> DEFINE b == requests[i].buffer
             n == requests[i].size
  <2>4. u.owner = b /\ u.number = buffers'[b].ptr /\ u.need = n
    BY ONLY <2>1, SMT
  <2>5. buffers'[b] \in BufferRecord /\ buffers[b] \in BufferRecord
    BY <1>1, <2>3 DEF MemoryInv, TypeInv
  <2>6. u \in Used
    <3>1. buffers'[b].ptr \in Nat
      BY <2>5 DEF BufferRecord
    <3> QED BY <2>1, <2>3, <3>1 DEF Used
  <2>7. buffers'[b].bytes \in Nat /\ buffers'[b].bytes >= n
    <3>1. CASE Grows(buffers[b], requests[i])
      BY <1>1, <2>3, <2>5, <3>1 DEF BufferRecord
    <3>2. CASE ~Grows(buffers[b], requests[i])
      <4>1. buffers'[b] = buffers[b] /\ ~(n > buffers[b].bytes)
        BY <1>1, <3>2 DEF Grows
      <4> QED BY <2>3, <2>5, <4>1 DEF BufferRecord
    <3> QED BY <3>1, <3>2
  <2>8. CASE buffers'[b].ptr # Null
    <3>1. Allocation(b, buffers'[b].ptr, buffers'[b].bytes) \in heap'
      BY <1>1, <2>3, <2>8 DEF HeapInv
    <3>2. Live(u)'
      BY <2>4, <2>7, <3>1 DEF Live, Allocation
    <3> QED BY <2>3, <2>4, <2>6, <3>2
  <2>9. CASE buffers'[b].ptr = Null
    <3>1. b \in KeepSize /\ failures' > 0
      BY <1>1, <2>1, <2>3, <2>7, <2>9 DEF HeapInv
    <3>2. context = "ready" => b \notin Reserved
      BY <1>2, <2>9
    <3>3. b \in MayBeNull'
      BY <3>1, <3>2 DEF MayBeNull
    <3> QED BY <2>3, <2>4, <2>6, <2>9, <3>1, <3>3
  <2> QED BY <2>8, <2>9
<1> QED BY <1>3

\* An entry point is carried out or gives up; a captured one is recorded.
LEMMA CallStep ==
  ASSUME MemoryInv, NEW name \in EntryPoints, NEW s \in 1..MaxSize, Call(name, s)
  PROVE  MemoryInv'
<1> DEFINE requests == RequestsOf(name, s)
<1>1. /\ Serving /\ context' = context /\ objects' = objects /\ graphs' = graphs
      /\ work' = work
      /\ \/ /\ Met(requests)
            /\ last' = [kind |-> "eager", uses |-> UsesOf(requests, buffers')]
            /\ capture' = IF ~Capturing THEN capture
                          ELSE [capture EXCEPT !.uses = @ \union last'.uses]
         \/ /\ Refused(requests)
            /\ last' = Quiet
            /\ capture' = IF ~Capturing THEN capture ELSE [capture EXCEPT !.valid = FALSE]
  BY DEF Call
<1>2. WellFormed(requests)
  BY EntryWellFormed
<1> HIDE DEF requests
<1>3. /\ buffers' \in [BufferNames -> BufferRecord] /\ failures' \in Nat
      /\ HeapInv' /\ Touched(requests)
  BY <1>1, <1>2, MetStep, RefusedStep DEF MemoryInv, Serving
<1>4. context = "ready" => \A b \in Reserved : buffers'[b] = buffers[b]
  BY <1>1, <1>2, <1>3, ReservedUntouched
<1>5. ReservedInv'
  BY <1>1, <1>4 DEF MemoryInv, ReservedInv, Serving
<1>6. /\ Placed(capture.uses)' /\ \A g \in Slots : Placed(graphs[g])'
    <=> /\ \A u \in capture'.uses : u.owner \in Reserved =>
             u.number = buffers'[u.owner].ptr /\ u.need \in 0..MaxSize
        /\ \A g \in Slots : \A u \in graphs'[g] : u.owner \in Reserved =>
             u.number = buffers'[u.owner].ptr /\ u.need \in 0..MaxSize
  BY DEF Placed
<1>7. /\ context = "ready" => Placed(capture.uses) /\ \A g \in Slots : Placed(graphs[g])
      /\ capture \in [slot : Int, uses : SUBSET Used, valid : BOOLEAN]
      /\ graphs \in [Slots -> SUBSET Used] /\ work \in Workloads
      /\ objects \in [ObjectNames -> SUBSET Fields]
  BY <1>1 DEF MemoryInv, TypeInv, GraphInv
<1>8. \A uses : context = "ready" /\ Placed(uses) => \A u \in uses : u.owner \in Reserved =>
         u.number = buffers'[u.owner].ptr /\ u.need \in 0..MaxSize
  BY <1>4 DEF Placed
<1>9. CASE /\ Met(requests)
           /\ last' = [kind |-> "eager", uses |-> UsesOf(requests, buffers')]
           /\ capture' = IF ~Capturing THEN capture
                         ELSE [capture EXCEPT !.uses = @ \union last'.uses]
  <2> DEFINE new == UsesOf(requests, buffers')
  <2>1. /\ new \in SUBSET Used
        /\ \A u \in new : u.owner \in Reserved =>
             u.number = buffers'[u.owner].ptr /\ u.need \in 0..MaxSize
        /\ \A u \in new :
             Live(u)' \/ (u.number = Null /\ u.owner \in MayBeNull' /\ failures' > 0)
    BY <1>1, <1>2, <1>9, UsesBacked
  <2>2. last' = [kind |-> "eager", uses |-> new]
    BY <1>9
  <2> HIDE DEF new
  <2>3. last'.kind = "eager" /\ last'.uses = new
    BY ONLY <2>2, SMT
  <2>4. last' \in [kind : {"none", "eager", "graph"}, uses : SUBSET Used]
    BY <2>1, <2>2
  <2>5. capture' = capture \/ capture' = [capture EXCEPT !.uses = capture.uses \union new]
    BY <1>7, <1>9, <2>3
  <2>6. /\ capture' \in [slot : Int, uses : SUBSET Used, valid : BOOLEAN]
        /\ capture'.uses \subseteq capture.uses \union new
    BY <1>7, <2>1, <2>5
  <2>7. LaunchBacked'
    BY <2>1, <2>3 DEF LaunchBacked
  <2>8. context = "ready" => Placed(capture.uses)' /\ \A g \in Slots : Placed(graphs[g])'
    BY <1>1, <1>6, <1>7, <1>8, <2>1, <2>6
  <2>9. GraphInv'
    BY <1>1, <2>3, <2>8 DEF GraphInv, Serving
  <2>10. TypeInv'
    BY <1>1, <1>3, <1>7, <2>4, <2>6 DEF TypeInv, Serving
  <2> QED BY <1>3, <1>5, <2>7, <2>9, <2>10 DEF MemoryInv
<1>10. CASE /\ Refused(requests)
            /\ last' = Quiet
            /\ capture' = IF ~Capturing THEN capture ELSE [capture EXCEPT !.valid = FALSE]
  <2>1. last'.kind = "none" /\ last' \in [kind : {"none", "eager", "graph"}, uses : SUBSET Used]
    BY <1>10 DEF Quiet
  <2>2. capture' = capture \/ capture' = [capture EXCEPT !.valid = FALSE]
    BY <1>10
  <2>3. /\ capture' \in [slot : Int, uses : SUBSET Used, valid : BOOLEAN]
        /\ capture'.uses = capture.uses
    BY <1>7, <2>2
  <2>4. context = "ready" => Placed(capture.uses)' /\ \A g \in Slots : Placed(graphs[g])'
    BY <1>1, <1>6, <1>7, <1>8, <2>3
  <2>5. GraphInv' /\ LaunchBacked'
    BY <1>1, <2>1, <2>4 DEF GraphInv, LaunchBacked, Serving
  <2>6. TypeInv'
    BY <1>1, <1>3, <1>7, <2>1, <2>3 DEF TypeInv, Serving
  <2> QED BY <1>3, <1>5, <2>5, <2>6 DEF MemoryInv
<1> QED BY <1>1, <1>9, <1>10

\* The context is created, or its creation fails and leaves nothing.
LEMMA ContextCreateStep ==
  ASSUME MemoryInv, ContextCreate
  PROVE  MemoryInv'
<1>1. /\ context = "none" /\ context' \in {"none", "open"}
      /\ work' = work /\ buffers' = buffers /\ heap' = heap /\ objects' = objects
      /\ graphs' = graphs /\ capture' = capture /\ last' = last
      /\ failures' = failures \/ failures' = failures + 1
  BY DEF ContextCreate
<1>a. failures' \in Nat /\ (failures > 0 => failures' > 0)
  BY <1>1 DEF MemoryInv, TypeInv
<1>2. TypeInv'
  BY <1>1, <1>a DEF MemoryInv, TypeInv
<1>3. HeapInv'
  BY <1>1, <1>a DEF MemoryInv, HeapInv
<1>4. ReservedInv'
  BY <1>1 DEF MemoryInv, ReservedInv
<1>5. GraphInv' /\ last'.kind = "none"
  BY <1>1 DEF MemoryInv, GraphInv, Capturing, Serving
<1>6. LaunchBacked'
  BY <1>5 DEF LaunchBacked
<1> QED BY <1>2, <1>3, <1>4, <1>5, <1>6 DEF MemoryInv

\* The context is destroyed behind its objects, and nothing is left.
LEMMA ContextDestroyStep ==
  ASSUME MemoryInv, ContextDestroy
  PROVE  MemoryInv'
<1>1. /\ context' = "closed" /\ ~Capturing /\ work' = work /\ objects' = objects
      /\ failures' = failures
      /\ capture' = capture /\ last' = Quiet /\ graphs' = [s \in Slots |-> NoGraph]
      /\ \A o \in ObjectNames : objects[o] = {}
      /\ buffers' = [b \in BufferNames |-> [ptr |-> Null, bytes |-> 0, made |-> 0]]
      /\ heap' = {a \in heap : a.owner \in BufferNames => a.number # buffers[a.owner].ptr}
  BY DEF ContextDestroy
<1>2. heap' = {}
  <2> SUFFICES ASSUME NEW a \in heap, a.owner \in BufferNames => a.number # buffers[a.owner].ptr
               PROVE  FALSE
    BY <1>1
  <2>1. a.owner \notin BufferNames
    BY DEF MemoryInv, HeapInv
  <2> QED BY <1>1, <2>1 DEF MemoryInv, HeapInv
<1>3. \A b \in BufferNames : buffers'[b] = [ptr |-> 0, bytes |-> 0, made |-> 0]
  BY <1>1 DEF Null
<1>4. \A b \in BufferNames : buffers'[b].ptr = 0 /\ buffers'[b].bytes = 0 /\ buffers'[b].made = 0
  BY <1>3
<1>5. buffers' \in [BufferNames -> BufferRecord]
  BY <1>1 DEF BufferRecord, Null
<1>6. NoGraph \in SUBSET Used
  BY DEF NoGraph, Used
<1>7. last' \in [kind : {"none", "eager", "graph"}, uses : SUBSET Used] /\ last'.kind = "none"
  BY <1>1 DEF Quiet
<1>8. TypeInv'
  BY <1>1, <1>5, <1>6, <1>7 DEF MemoryInv, TypeInv
<1>9. HeapInv'
  BY <1>1, <1>2, <1>4 DEF HeapInv, Null
<1>10. ReservedInv'
  BY <1>1 DEF ReservedInv
<1>11. GraphInv' /\ LaunchBacked'
  BY <1>1, <1>7 DEF GraphInv, LaunchBacked, Capturing, Serving
<1> QED BY <1>8, <1>9, <1>10, <1>11 DEF MemoryInv

\* A capture starts with nothing recorded.
LEMMA CaptureBeginStep ==
  ASSUME MemoryInv, NEW slot \in Slots, capture_begin_slot(slot)
  PROVE  MemoryInv'
<1>1. /\ Serving /\ context' = context /\ work' = work /\ buffers' = buffers
      /\ heap' = heap /\ objects' = objects /\ graphs' = graphs /\ last' = Quiet
      /\ failures' = failures
      /\ capture' = [slot |-> slot, uses |-> {}, valid |-> TRUE]
  BY DEF capture_begin_slot
<1>2. last' \in [kind : {"none", "eager", "graph"}, uses : SUBSET Used] /\ last'.kind = "none"
  BY <1>1 DEF Quiet
<1>3. capture' \in [slot : Int, uses : SUBSET Used, valid : BOOLEAN] /\ capture'.uses = {}
  BY <1>1, MemoryAssumption
<1>4. TypeInv'
  BY <1>1, <1>2, <1>3 DEF MemoryInv, TypeInv
<1>5. HeapInv' /\ ReservedInv'
  BY <1>1 DEF MemoryInv, HeapInv, ReservedInv
<1>6. GraphInv' /\ LaunchBacked'
  BY <1>1, <1>2, <1>3 DEF MemoryInv, GraphInv, Placed, LaunchBacked, Serving
<1> QED BY <1>4, <1>5, <1>6 DEF MemoryInv

\* A capture becomes the graph of its slot, or its instantiation fails.
LEMMA CaptureEndStep ==
  ASSUME MemoryInv, capture_end_slot
  PROVE  MemoryInv'
<1>1. /\ Capturing /\ context' = context /\ work' = work /\ buffers' = buffers
      /\ heap' = heap /\ objects' = objects /\ last' = Quiet /\ capture' = NotCapturing
      /\ graphs' = [graphs EXCEPT ![capture.slot] = capture.uses] \/ graphs' = graphs
      /\ failures' = failures \/ failures' = failures + 1
  BY DEF capture_end_slot
<1>2. Serving /\ failures' \in Nat /\ (failures > 0 => failures' > 0)
  BY <1>1 DEF MemoryInv, TypeInv, GraphInv
<1>3. last' \in [kind : {"none", "eager", "graph"}, uses : SUBSET Used] /\ last'.kind = "none"
  BY <1>1 DEF Quiet
<1>4. capture' \in [slot : Int, uses : SUBSET Used, valid : BOOLEAN] /\ capture'.uses = {}
  BY <1>1 DEF NotCapturing
<1>5. /\ graphs \in [Slots -> SUBSET Used] /\ capture.uses \in SUBSET Used
      /\ context = "ready" => Placed(capture.uses) /\ \A s \in Slots : Placed(graphs[s])
  BY <1>2 DEF MemoryInv, TypeInv, GraphInv
<1>6. /\ graphs' \in [Slots -> SUBSET Used]
      /\ \A s \in Slots : graphs'[s] = graphs[s] \/ graphs'[s] = capture.uses
  BY <1>1, <1>5
<1>7. TypeInv'
  BY <1>1, <1>2, <1>3, <1>4, <1>6 DEF MemoryInv, TypeInv
<1>8. HeapInv' /\ ReservedInv'
  BY <1>1, <1>2 DEF MemoryInv, HeapInv, ReservedInv
<1>9. context = "ready" => \A s \in Slots : Placed(graphs[s])'
  BY <1>1, <1>5, <1>6 DEF Placed
<1>10. GraphInv' /\ LaunchBacked'
  BY <1>1, <1>2, <1>3, <1>4, <1>9 DEF GraphInv, Placed, LaunchBacked, Serving
<1> QED BY <1>7, <1>8, <1>10 DEF MemoryInv

\* A replay launches what the graph recorded.
LEMMA GraphLaunchStep ==
  ASSUME MemoryInv, NEW slot \in Slots, graph_launch_slot(slot)
  PROVE  MemoryInv'
<1>1. /\ Serving /\ context' = context /\ work' = work /\ buffers' = buffers
      /\ heap' = heap /\ objects' = objects /\ graphs' = graphs /\ capture' = capture
      /\ failures' = failures
      /\ last' = [kind |-> "graph", uses |-> graphs[slot]]
  BY DEF graph_launch_slot
<1>2. last'.kind = "graph" /\ last'.uses = graphs[slot] /\ graphs[slot] \in SUBSET Used
  BY <1>1 DEF MemoryInv, TypeInv
<1>3. last' \in [kind : {"none", "eager", "graph"}, uses : SUBSET Used]
  BY <1>1, <1>2
<1>4. TypeInv'
  BY <1>1, <1>3 DEF MemoryInv, TypeInv
<1>5. HeapInv' /\ ReservedInv'
  BY <1>1 DEF MemoryInv, HeapInv, ReservedInv
<1>6. GraphInv' /\ LaunchBacked'
  BY <1>1, <1>2 DEF MemoryInv, GraphInv, Placed, LaunchBacked, Capturing, Serving
<1> QED BY <1>4, <1>5, <1>6 DEF MemoryInv

\* A step of the objects, which leaves buffers and graphs alone.
LEMMA ObjectStep ==
  ASSUME MemoryInv, objects' \in [ObjectNames -> SUBSET Fields], HeapInv', last' = Quiet,
         work' = work, context' = context, buffers' = buffers, graphs' = graphs,
         capture' = capture, failures' \in Nat
  PROVE  MemoryInv'
<1>1. last' \in [kind : {"none", "eager", "graph"}, uses : SUBSET Used] /\ last'.kind = "none"
  BY DEF Quiet
<1>2. TypeInv'
  BY <1>1 DEF MemoryInv, TypeInv
<1>3. ReservedInv'
  BY DEF MemoryInv, ReservedInv
<1>4. GraphInv' /\ LaunchBacked'
  BY <1>1 DEF MemoryInv, GraphInv, Placed, LaunchBacked, Capturing, Serving
<1> QED BY <1>2, <1>3, <1>4 DEF MemoryInv

\* An object is created with all of its fields, or with none.
LEMMA CreateStep ==
  ASSUME MemoryInv, NEW o \in ObjectNames, NEW fields \in Seq(FreeList(o)), Create(o, fields)
  PROVE  MemoryInv'
<1>1. /\ objects[o] = {} /\ context # "closed" /\ last' = Quiet /\ work' = work
      /\ context' = context /\ buffers' = buffers /\ graphs' = graphs /\ capture' = capture
      /\ \/ /\ heap' = heap \union {Allocation(f, 1, 1) : f \in Range(fields)}
            /\ objects' = [objects EXCEPT ![o] = Range(fields)]
         \/ /\ \E made \in 0..Len(fields) :
                  heap' = Released(heap \union {Allocation(f, 1, 1) : f \in Range(SubSeq(fields, 1, made))}, o)
            /\ objects' = objects
      /\ failures' = failures \/ failures' = failures + 1
  BY DEF Create, Serving
<1>2. /\ objects \in [ObjectNames -> SUBSET Fields] /\ HeapInv
      /\ failures' \in Nat /\ (failures > 0 => failures' > 0)
  BY <1>1 DEF MemoryInv, TypeInv
<1>3. CASE /\ heap' = heap \union {Allocation(f, 1, 1) : f \in Range(fields)}
           /\ objects' = [objects EXCEPT ![o] = Range(fields)]
  <2>1. Range(fields) \subseteq FreeList(o)
    BY ElementOfSeq, LenProperties DEF Range
  <2>2. /\ objects' \in [ObjectNames -> SUBSET Fields] /\ objects'[o] = Range(fields)
        /\ \A p \in ObjectNames : p # o => objects'[p] = objects[p]
    BY <1>2, <1>3, <2>1 DEF Fields
  <2>3. \A a \in heap' : a \in heap \/ (a.owner \in Range(fields) /\ a.owner \notin BufferNames)
    BY <1>3, <2>1, ObjectFields DEF Allocation
  <2>4. \A a \in heap' : a.owner \in BufferNames => a.number = buffers'[a.owner].ptr /\ a.number # Null
    BY <1>1, <1>2, <2>3 DEF HeapInv
  <2>5. \A a \in heap' : a.owner \notin BufferNames => \E p \in ObjectNames : a.owner \in objects'[p]
    BY <1>1, <1>2, <2>2, <2>3 DEF HeapInv
  <2>6. \A p \in ObjectNames : \A f \in objects'[p] : f \in FreeList(p) /\ Allocation(f, 1, 1) \in heap'
    BY <1>2, <1>3, <2>1, <2>2 DEF HeapInv
  <2>7. HeapInv'
    BY <1>1, <1>2, <1>3, <2>4, <2>5, <2>6 DEF HeapInv
  <2> QED BY <1>1, <1>2, <2>2, <2>7, ObjectStep
<1>4. CASE /\ \E made \in 0..Len(fields) :
                 heap' = Released(heap \union {Allocation(f, 1, 1) : f \in Range(SubSeq(fields, 1, made))}, o)
           /\ objects' = objects
  <2>1. PICK made \in 0..Len(fields) :
           heap' = Released(heap \union {Allocation(f, 1, 1) : f \in Range(SubSeq(fields, 1, made))}, o)
    BY <1>4
  <2>2. SubSeq(fields, 1, made) \in Seq(FreeList(o))
    BY SubSeqProperties, LenProperties
  <2> DEFINE prefix == SubSeq(fields, 1, made)
  <2> HIDE DEF prefix
  <2>3. Range(prefix) \subseteq FreeList(o)
    <3>1. prefix \in Seq(FreeList(o))
      BY <2>2 DEF prefix
    <3> QED BY <3>1, ElementOfSeq, LenProperties DEF Range
  <2>4. \A a \in heap : a.owner \notin FreeList(o)
    <3> SUFFICES ASSUME NEW a \in heap PROVE a.owner \notin FreeList(o)
      OBVIOUS
    <3>1. CASE a.owner \in BufferNames
      BY <3>1, ObjectFields
    <3>2. CASE a.owner \notin BufferNames
      <4>1. PICK p \in ObjectNames : a.owner \in objects[p]
        BY <1>2, <3>2 DEF HeapInv
      <4>2. a.owner \in FreeList(p) /\ p # o
        BY <1>1, <1>2, <4>1 DEF HeapInv
      <4> QED BY <4>2, ObjectFields
    <3> QED BY <3>1, <3>2
  <2>5. heap' = Released(heap \union {Allocation(f, 1, 1) : f \in Range(prefix)}, o)
    BY <2>1 DEF prefix
  <2>6. heap' = heap
    BY <2>3, <2>4, <2>5 DEF Released, Allocation
  <2>7. HeapInv'
    BY <1>1, <1>2, <1>4, <2>6 DEF HeapInv
  <2> QED BY <1>1, <1>2, <1>4, <2>7, ObjectStep
<1> QED BY <1>1, <1>3, <1>4

\* An object's fields are freed, and no other allocation.
LEMMA DestroyStep ==
  ASSUME MemoryInv, NEW o \in ObjectNames, Destroy(o)
  PROVE  MemoryInv'
<1>1. /\ last' = Quiet /\ work' = work /\ context' = context /\ buffers' = buffers
      /\ graphs' = graphs /\ capture' = capture /\ heap' = {a \in heap : a.owner \notin FreeList(o)}
      /\ objects' = [objects EXCEPT ![o] = {}] /\ failures' = failures
  BY DEF Destroy, Released
<1>2. objects \in [ObjectNames -> SUBSET Fields] /\ HeapInv /\ failures' \in Nat
  BY <1>1 DEF MemoryInv, TypeInv
<1>3. /\ objects' \in [ObjectNames -> SUBSET Fields] /\ objects'[o] = {}
      /\ \A p \in ObjectNames : p # o => objects'[p] = objects[p]
  BY <1>1, <1>2
<1>4. \A a \in heap' : a.owner \notin BufferNames => \E p \in ObjectNames : a.owner \in objects'[p]
  <2> SUFFICES ASSUME NEW a \in heap', a.owner \notin BufferNames
               PROVE  \E p \in ObjectNames : a.owner \in objects'[p]
    OBVIOUS
  <2>1. PICK p \in ObjectNames : a.owner \in objects[p]
    BY <1>1, <1>2 DEF HeapInv
  <2>2. a.owner \in FreeList(p)
    BY <1>2, <2>1 DEF HeapInv
  <2> QED BY <1>1, <1>3, <2>1, <2>2
<1>5. \A b \in BufferNames :
         buffers'[b].ptr # Null => Allocation(b, buffers'[b].ptr, buffers'[b].bytes) \in heap'
  BY <1>1, <1>2, ObjectFields DEF HeapInv, Allocation
<1>6. \A p \in ObjectNames : \A f \in objects'[p] : f \in FreeList(p) /\ Allocation(f, 1, 1) \in heap'
  <2> SUFFICES ASSUME NEW p \in ObjectNames, NEW f \in objects'[p]
               PROVE  f \in FreeList(p) /\ Allocation(f, 1, 1) \in heap'
    OBVIOUS
  <2>1. p # o /\ f \in objects[p]
    BY <1>3
  <2>2. f \in FreeList(p) /\ Allocation(f, 1, 1) \in heap
    BY <1>2, <2>1 DEF HeapInv
  <2>3. f \notin FreeList(o)
    BY <2>1, <2>2, ObjectFields
  <2> QED BY <1>1, <2>2, <2>3 DEF Allocation
<1>7. HeapInv'
  BY <1>1, <1>2, <1>4, <1>5, <1>6 DEF HeapInv
<1> QED BY <1>1, <1>2, <1>3, <1>7, ObjectStep

\* What the creations allocate is what the destructions free.
LEMMA FieldLists ==
  /\ <<"device_data">> \in Seq(FreeList("weights"))
  /\ <<"device_buffer">> \in Seq(FreeList("buffer"))
  /\ recurrent_tensors \o recurrent_outputs \o <<"gdn_output">> \in Seq(FreeList("recurrent"))
  /\ Append(recurrent_tensors, "gdn_output") \in Seq(FreeList("recurrent"))
  /\ \A k, v \in {"f16", "quantized"} :
        /\ attention_tensors(k, v) \in Seq(FreeList("attention"))
        /\ attention_tensors(k, v) \o <<"query", "key", "value", "attention">> \in Seq(FreeList("attention"))
<1>1. <<"device_data">> \in Seq(FreeList("weights")) /\ <<"device_buffer">> \in Seq(FreeList("buffer"))
  BY DEF FreeList
<1>2. FreeList("recurrent") = Range(recurrent_tensors) \union Range(recurrent_outputs) \union {"gdn_output"}
  BY DEF FreeList, free_recurrent_device_buffers
<1>3. /\ FreeList("attention") = {"query_norm", "key_norm", "key_cache", "value_cache",
           "key_cache_q8", "value_cache_q8", "query", "key", "value", "attention"}
  BY DEF FreeList, free_attention_device_buffers
<1>4. /\ recurrent_tensors \in Seq(Range(recurrent_tensors))
      /\ recurrent_outputs \in Seq(Range(recurrent_outputs))
  BY DEF recurrent_tensors, recurrent_outputs, Range
<1> DEFINE F == FreeList("recurrent")
           A == FreeList("attention")
           T == recurrent_tensors
           O == recurrent_outputs
<1>5. T \in Seq(F) /\ O \in Seq(F) /\ <<"gdn_output">> \in Seq(F) /\ "gdn_output" \in F
  BY <1>2, <1>4
<1> HIDE DEF F, A, T, O
<1>6. T \o O \in Seq(F) /\ Append(T, "gdn_output") \in Seq(F)
  BY <1>5, ConcatProperties, AppendProperties
<1>7. T \o O \o <<"gdn_output">> \in Seq(F)
  BY <1>5, <1>6, ConcatProperties
<1>8. ASSUME NEW k \in {"f16", "quantized"}, NEW v \in {"f16", "quantized"}
      PROVE  /\ attention_tensors(k, v) \in Seq(A)
             /\ attention_tensors(k, v) \o <<"query", "key", "value", "attention">> \in Seq(A)
  <2>1. attention_tensors(k, v) \in Seq(A)
    BY <1>3 DEF attention_tensors, A
  <2>2. <<"query", "key", "value", "attention">> \in Seq(A)
    BY <1>3 DEF A
  <2> QED BY <2>1, <2>2, ConcatProperties
<1> QED BY <1>1, <1>6, <1>7, <1>8 DEF F, A, T, O

\* Every step keeps the invariant.
LEMMA NextMemory == MemoryInv /\ [MemoryNext]_memoryVars => MemoryInv'
<1> SUFFICES ASSUME MemoryInv, [MemoryNext]_memoryVars PROVE MemoryInv'
  OBVIOUS
<1>1. CASE ContextCreate
  BY <1>1, ContextCreateStep
<1>2. CASE Reserve
  BY <1>2, ReserveStep
<1>3. CASE ContextDestroy
  BY <1>3, ContextDestroyStep
<1>4. CASE UNCHANGED memoryVars
  <2> USE <1>4 DEF memoryVars
  <2>1. TypeInv'
    BY DEF MemoryInv, TypeInv
  <2>2. HeapInv' /\ ReservedInv'
    BY DEF MemoryInv, HeapInv, ReservedInv
  <2>3. GraphInv' /\ LaunchBacked'
    BY DEF MemoryInv, GraphInv, Placed, LaunchBacked, Live, Capturing, Serving, MayBeNull
  <2> QED BY <2>1, <2>2, <2>3 DEF MemoryInv
<1>5. ASSUME NEW name \in work \ ObjectNames, NEW s \in 1..MaxSize, Call(name, s) PROVE MemoryInv'
  <2>1. name \in EntryPoints
    BY MemoryAssumption DEF MemoryInv, TypeInv
  <2> QED BY <1>5, <2>1, CallStep
<1>6. ASSUME NEW slot \in Slots, capture_begin_slot(slot) \/ graph_launch_slot(slot) PROVE MemoryInv'
  BY <1>6, CaptureBeginStep, GraphLaunchStep
<1>7. CASE capture_end_slot
  BY <1>7, CaptureEndStep
<1>8. CASE weights_upload \/ device_buffer_create \/ recurrent_create \/ recurrent_create_state
  <2>1. "weights" \in ObjectNames /\ "buffer" \in ObjectNames /\ "recurrent" \in ObjectNames
    BY DEF ObjectNames
  <2>2. CASE weights_upload
    BY <2>1, <2>2, FieldLists, CreateStep DEF weights_upload
  <2>3. CASE device_buffer_create
    BY <2>1, <2>3, FieldLists, CreateStep DEF device_buffer_create
  <2>4. CASE recurrent_create
    BY <2>1, <2>4, FieldLists, CreateStep DEF recurrent_create
  <2>5. CASE recurrent_create_state
    BY <2>1, <2>5, FieldLists, CreateStep DEF recurrent_create_state
  <2> QED BY <1>8, <2>2, <2>3, <2>4, <2>5
<1>9. ASSUME NEW k \in {"f16", "quantized"}, NEW v \in {"f16", "quantized"},
             attention_create(k, v) \/ attention_create_state(k, v)
      PROVE  MemoryInv'
  <2>1. "attention" \in ObjectNames
    BY DEF ObjectNames
  <2>2. CASE attention_create(k, v)
    BY <2>1, <2>2, FieldLists, CreateStep DEF attention_create
  <2>3. CASE attention_create_state(k, v)
    BY <2>1, <2>3, FieldLists, CreateStep DEF attention_create_state
  <2> QED BY <1>9, <2>2, <2>3
<1>a. CASE SkipReserve
  BY <1>a, SkipReserveStep
<1>10. CASE weights_destroy \/ device_buffer_destroy \/ recurrent_destroy \/ attention_destroy
  BY <1>10, DestroyStep
     DEF weights_destroy, device_buffer_destroy, recurrent_destroy, attention_destroy, ObjectNames
<1> QED
  BY <1>1, <1>2, <1>3, <1>4, <1>5, <1>6, <1>7, <1>8, <1>9, <1>a, <1>10, Zenon DEF MemoryNext, Closed

\* The invariant holds in every reachable state.
LEMMA MemoryInvariance == MemorySpec => []MemoryInv
<1> QED BY InitMemory, NextMemory, PTL DEF MemorySpec

--------------------------------------------------------------------------------
(* What follows from it.                                                         *)

\* Every allocation has the pointer or the object that will free it, on every
\* error path of the ensure, create and destroy functions, every pointer that is
\* not null is live, and nothing is left when the context is destroyed.
THEOREM NothingIsLost == MemorySpec => []NothingLeaks
<1>1. MemoryInv => NothingLeaks
  <2> SUFFICES ASSUME MemoryInv PROVE NothingLeaks
    OBVIOUS
  <2>1. \A b \in BufferNames : buffers[b].ptr # Null =>
           \E a \in heap : a.owner = b /\ a.number = buffers[b].ptr
    BY DEF MemoryInv, HeapInv, Allocation
  <2> QED BY <2>1 DEF MemoryInv, HeapInv, NothingLeaks
<1> QED BY <1>1, MemoryInvariance, PTL

\* Whatever failed before, and whether or not the scratch was reserved, a kernel
\* the host launches is given live memory of at least the size it works on, or a
\* null pointer that a failed allocation left in a buffer which keeps its recorded
\* size: aux alone on a reserved context.
THEOREM LaunchesAreBacked == MemorySpec => []LaunchBacked
<1>1. MemoryInv => LaunchBacked
  BY DEF MemoryInv
<1> QED BY <1>1, MemoryInvariance, PTL

\* On a context whose scratch was reserved, a replayed graph finds the scratch that
\* q8_reserve_matvec_scratch made alive and as large as when it was captured.
THEOREM ReservedStay == MemorySpec => []ReservedStays
<1>1. MemoryInv => ReservedStays
  <2> SUFFICES ASSUME MemoryInv, last.kind = "graph", context = "ready", NEW u \in last.uses, u.owner \in Reserved
               PROVE  Live(u)
    BY DEF ReservedStays
  <2>1. /\ u.number = buffers[u.owner].ptr /\ u.need \in 0..MaxSize
    BY DEF MemoryInv, GraphInv, Placed
  <2>2. /\ u.owner \in BufferNames /\ buffers[u.owner].bytes = MaxSize /\ buffers[u.owner].ptr # Null
    BY <2>1 DEF MemoryInv, ReservedInv, Reserved, BufferNames
  <2>3. Allocation(u.owner, buffers[u.owner].ptr, MaxSize) \in heap
    BY <2>2 DEF MemoryInv, HeapInv
  <2> QED BY <2>1, <2>3, MemoryAssumption DEF Live, Allocation
<1> QED BY <1>1, MemoryInvariance, PTL

================================================================================
