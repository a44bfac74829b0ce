---------------------------- MODULE DeviceSession ----------------------------
(* The decoding state a CUDA session keeps, as the entry points of            *)
(* backend/cuda/fortai_cuda_backend.cu change it and as the speculative       *)
(* rounds of fortai_qwen35_cpu.f90 drive them.                                *)
(*                                                                            *)
(* The model has three layers on two devices: a recurrent layer and an        *)
(* attention layer on slot 0, a recurrent layer on slot 1.  A hidden row is   *)
(* the token sequence it was computed from, or Wrong when it was computed     *)
(* from anything else (a stale buffer, a state that does not fit the row).    *)
(* A gdn state is the sequence it has consumed, a conv state its last         *)
(* ConvKernel - 1 elements, row p of the KV cache the hidden row written      *)
(* there.                                                                     *)
EXTENDS Integers, Sequences, SequencesExt, FiniteSets

CONSTANTS
    Tokens,       \* the vocabulary, a set of natural numbers
    Argmax(_),    \* the model's greedy choice after a token sequence
    MaxContext,   \* rows of the KV cache
    MaxPrompt,    \* longest prompt batch
    ConvKernel,   \* width of the short convolution
    RegimeFrom,   \* position at which the long verification graph is used (4096)
    Graphs,       \* FORTAI_ENABLE_CUDA_Q4_SEGMENT_GRAPH on a split model
    Capacities,   \* room the caller offers for the tokens of one round
    Caches,       \* KV cache formats: "f16", "q8"
    MaxFaults     \* bound on the device calls that fail

ASSUME DeviceAssumption ==
    /\ Tokens \subseteq Nat
    /\ MaxContext \in Nat \ {0}
    /\ MaxPrompt \in Nat \ {0}
    /\ ConvKernel \in Nat /\ ConvKernel >= 2
    /\ RegimeFrom \in Nat
    /\ Graphs \in BOOLEAN /\ MaxFaults \in Nat
    /\ \A n \in 1..MaxContext : \A s \in [1..n -> Tokens] : Argmax(s) \in Tokens

VARIABLES
    rec,        \* recurrent layer of each slot: its state and two checkpoints
    kv,         \* the attention layer's cache rows
    pending,    \* device row the next draft starts from (cuda_mtp_pending_hidden)
    seq,        \* tokens the service has fed and kept
    cur,        \* token to feed next
    greedy,     \* whether cur is the choice of a verified row
    last,       \* kind of the last completed call
    faults,     \* device calls that may still fail
    broken,     \* a call failed; the service resets before it goes on
    cache,      \* KV cache format
    graph,      \* captured verification graphs by slot and regime
    warm,       \* segments run once outside capture
    disabled,   \* indices of cuda_batch_graph_disabled
    capturing,  \* slots whose stream was left in capture mode
    taint       \* why the device state may be wrong: "reset", "shape", "baked"

device == <<rec, kv, pending>>
graphs == <<graph, warm, disabled, capturing>>
vars == <<rec, kv, pending, seq, cur, greedy, last, faults, broken, cache, graph,
          warm, disabled, capturing, taint>>

Slots == {0, 1}
Regimes == {1, 2}
Garbage == -1
Elements == Tokens \union {Garbage}
Wrong == <<Garbage>>
NoGraph == [rows |-> 0, position |-> 0]

---------------------------------------------------------------------------
(* Recurrent kernels.                                                        *)

\* The last ConvKernel - 1 elements of a history: what a conv state should hold.
Window(h) == SubSeq(h, IF Len(h) < ConvKernel THEN 1 ELSE Len(h) - ConvKernel + 2, Len(h))

\* One token shifts the history of a channel by one slot.
ConvShift(conv, row) ==
    IF Garbage \in Range(row) THEN Wrong
    ELSE Append(IF Len(conv) = ConvKernel - 1 THEN Tail(conv) ELSE conv, Last(row))

\* The delta rule reads the state and the convolved row: the result stands for
\* the row's sequence only if both belong to its prefix.
GdnStep(layer, row) ==
    IF Garbage \notin Range(row) /\ layer.gdn = Front(row) /\ layer.conv = Window(layer.gdn)
    THEN row
    ELSE Wrong

\* The batched kernels copy the new state to the first checkpoint after row zero
\* of the batch and to the second one after row one.
conv_silu_batch(layer, row, index) ==
    LET new == ConvShift(layer.conv, row)
    IN  [layer EXCEPT !.conv = new,
                      !.conv_first = IF index = 0 THEN new ELSE @,
                      !.conv_second = IF index = 1 THEN new ELSE @]

gdn_fused_batch(layer, row, index) ==
    LET new == GdnStep(layer, row)
    IN  [layer EXCEPT !.gdn = new,
                      !.gdn_first = IF index = 0 THEN new ELSE @,
                      !.gdn_second = IF index = 1 THEN new ELSE @]

\* One row through both; the delta rule sees the row's own window.
BatchRow(acc, row) ==
    LET index == Len(acc.outs)
        stepped == gdn_fused_batch(acc.layer, row, index)
    IN  [layer |-> conv_silu_batch(stepped, row, index), outs |-> Append(acc.outs, stepped.gdn)]

recurrent_run_batch(layer, rows) ==
    LET after[i \in 0..Len(rows)] ==
            IF i = 0 THEN [layer |-> layer, outs |-> <<>>] ELSE BatchRow(after[i - 1], rows[i])
    IN  after[Len(rows)]

\* The scalar kernels take one row and write no checkpoint.
recurrent_run_core(layer, row) ==
    [layer EXCEPT !.conv = ConvShift(@, row), !.gdn = GdnStep(layer, row)]

\* The first layer's rows are embedded tokens; row i stands for the kept
\* sequence and the batch up to i.
Embed(tokens) == [i \in DOMAIN tokens |-> seq \o SubSeq(tokens, 1, i)]

recurrent_restore_first(layer) ==
    [layer EXCEPT !.conv = layer.conv_first, !.gdn = layer.gdn_first]

recurrent_restore_second(layer) ==
    [layer EXCEPT !.conv = layer.conv_second, !.gdn = layer.gdn_second]

\* States in which a reset may leave a layer: both memsets done, or one or
\* neither when a call fails.  The checkpoints are not cleared.
recurrent_reset(layer, done) ==
    [layer EXCEPT !.conv = IF done >= 1 THEN <<>> ELSE @,
                  !.gdn  = IF done >= 2 THEN <<>> ELSE @]

recurrent_create ==
    [conv |-> <<>>, gdn |-> <<>>, conv_first |-> <<>>, gdn_first |-> <<>>,
     conv_second |-> <<>>, gdn_second |-> <<>>]

---------------------------------------------------------------------------
(* Attention kernels.                                                        *)

\* Every row writes its key and value at its own position, read from device
\* memory; a row past the cache returns early.
attention_prepare_batch(rows, position) ==
    [p \in 0..(MaxContext - 1) |->
        IF p >= position /\ p - position + 1 \in DOMAIN rows
        THEN rows[p - position + 1]
        ELSE kv[p]]

\* A row attends to rows 0..p.  Its result stands for its sequence only if
\* these are the rows of that sequence.
AttentionRow(rows, i, p, cached) ==
    IF /\ p < MaxContext
       /\ Len(rows[i]) = p + 1
       /\ \A j \in 0..p : cached[j] = SubSeq(rows[i], 1, j + 1)
    THEN rows[i]
    ELSE Wrong

\* The kernels for an F16 cache take the position by value, the ones for a
\* quantized cache read it from device memory.
attention_apply_batch(rows, position, byValue, cached) ==
    [i \in DOMAIN rows |->
        AttentionRow(rows, i, (IF cache = "f16" THEN byValue ELSE position) + i - 1, cached)]

\* The scalar kernels: one row, at the position the context was given.
attention_prepare(row, position) == [kv EXCEPT ![position] = row]
attention_apply(row, position, cached) == AttentionRow(<<row>>, 1, position, cached)

attention_reset(done) ==
    IF done >= 2 THEN [p \in 0..(MaxContext - 1) |-> <<>>] ELSE kv

---------------------------------------------------------------------------
(* One forward pass over a batch.                                            *)

\* What the launches of slot s carry: the number of rows and, only in the
\* attention layer and only for an F16 cache, the position by value.
Direct(s, n, position) ==
    [rows |-> n, position |-> IF s = 0 /\ cache = "f16" THEN position ELSE 0]

\* The rows a launch of `shape` computes when the call prepared only `given`.
Fit(given, shape, filler) ==
    [i \in 1..shape.rows |-> IF i <= Len(given) THEN given[i] ELSE filler]

\* Pass tokens through the three layers.  shape[s] is the batch and position
\* that the launches of slot s carry: those of the call, or of a capture.
forward_batch(tokens, position, shape) ==
    LET n     == Len(tokens)
        a     == recurrent_run_batch(rec[0], Embed(Fit(tokens, shape[0], Garbage)))
        cached == attention_prepare_batch(a.outs, position)
        mid   == attention_apply_batch(a.outs, position, shape[0].position, cached)
        moved == [i \in 1..n |-> IF i <= Len(mid) THEN mid[i] ELSE Wrong]
        b     == recurrent_run_batch(rec[1], Fit(moved, shape[1], Wrong))
    IN  [convA |-> a.layer.conv, recA |-> a.layer, kv |-> cached,
         convB |-> b.layer.conv, recB |-> b.layer,
         outs  |-> [i \in 1..n |-> IF i <= Len(b.outs) THEN b.outs[i] ELSE Wrong]]

\* The scalar path through the same layers.
forward_body(token, position) ==
    LET row  == Append(seq, token)
        outA == GdnStep(rec[0], row)
        recA == recurrent_run_core(rec[0], row)
        cached == attention_prepare(outA, position)
        mid  == attention_apply(outA, position, cached)
        recB == recurrent_run_core(rec[1], mid)
    IN  [convA |-> recA.conv, recA |-> recA, kv |-> cached,
         convB |-> recB.conv, recB |-> recB, outs |-> <<GdnStep(rec[1], mid)>>]

\* A pass that fails has launched a prefix of its kernels.
Launched(pass, steps) ==
    /\ rec' = [rec EXCEPT
           ![0] = CASE steps = 0 -> @ [] steps = 1 -> [@ EXCEPT !.conv = pass.convA]
                    [] OTHER -> pass.recA,
           ![1] = CASE steps <= 3 -> @ [] steps = 4 -> [@ EXCEPT !.conv = pass.convB]
                    [] OTHER -> pass.recB]
    /\ kv' = IF steps >= 3 THEN pass.kv ELSE kv

\* Tokens a verified row may yield.
Outcomes(row) == IF Garbage \in Range(row) THEN Tokens ELSE {Argmax(row)}

---------------------------------------------------------------------------
(* Verification graphs: each segment runs once directly, is captured on its  *)
(* second use and replayed from then on.                                     *)

RegimeOf(position, n) == IF position + n - 1 >= RegimeFrom THEN 2 ELSE 1

GraphMode(s, g) ==
    CASE ~Graphs \/ s + 1 \in disabled -> "direct"
      [] graph[s, g] # NoGraph -> "replay"
      [] warm[s, g] -> "capture"
      [] OTHER -> "warm"

\* A segment that begins its capture may be refused by cudaStreamBeginCapture.
Refusals(g) ==
    {r \in SUBSET {s \in Slots : GraphMode(s, g) = "capture"} : Cardinality(r) <= faults}

ShapeOf(s, g, n, position) ==
    IF GraphMode(s, g) = "replay" THEN graph[s, g] ELSE Direct(s, n, position)

graph_step(g, n, position, refused) ==
    /\ graph' = [k \in Slots \X Regimes |->
                    IF k[2] = g /\ GraphMode(k[1], g) = "capture" /\ k[1] \notin refused
                    THEN Direct(k[1], n, position) ELSE graph[k]]
    /\ warm' = [k \in Slots \X Regimes |->
                    warm[k] \/ (k[2] = g /\ GraphMode(k[1], g) = "warm")]
    /\ disabled' = disabled \union {s + 1 + 2 * (g - 1) : s \in refused}

GraphTaint(g, n, position) ==
    {"shape" : s \in {t \in Slots : ShapeOf(t, g, n, position).rows # n}}
    \union
    {"baked" : s \in {t \in Slots : ShapeOf(t, g, n, position).position
                                       # Direct(t, n, position).position}}

---------------------------------------------------------------------------
Init ==
    /\ rec = [s \in Slots |-> recurrent_create]
    /\ kv = [p \in 0..(MaxContext - 1) |-> <<>>]
    /\ pending = <<>>
    /\ seq = <<>>
    /\ cur \in Tokens
    /\ greedy = FALSE
    /\ last = "none"
    /\ faults = MaxFaults
    /\ broken = FALSE
    /\ cache \in Caches
    /\ graph = [k \in Slots \X Regimes |-> NoGraph]
    /\ warm = [k \in Slots \X Regimes |-> FALSE]
    /\ disabled = {}
    /\ capturing = {}
    /\ taint = {}

position == Len(seq)

\* A session whose device state is already wrong is followed to its next reset
\* only.
Able == ~broken /\ capturing = {} /\ taint = {}

\* A prompt batch: no graphs, the last row gives the logits and is what the
\* draft continues from.
Prompt ==
    \E n \in 1..MaxPrompt : \E tokens \in [1..n -> Tokens] :
        /\ Able
        /\ position + n <= MaxContext
        /\ \E pass \in {forward_batch(tokens, position, [s \in Slots |-> Direct(s, n, position)])} :
               /\ Launched(pass, 5)
               /\ pending' = pass.outs[n]
               /\ cur' \in Outcomes(pass.outs[n])
        /\ seq' = seq \o tokens
        /\ greedy' = TRUE
        /\ last' = "prompt"
        /\ UNCHANGED <<faults, broken, cache, graphs, taint>>

\* forward_body: one token, the next one chosen from its row.
Scalar ==
    /\ Able
    /\ seq # <<>>
    /\ position < MaxContext
    /\ \E pass \in {forward_body(cur, position)} :
           /\ Launched(pass, 5)
           /\ cur' \in Outcomes(pass.outs[1])
    /\ seq' = Append(seq, cur)
    /\ greedy' = TRUE
    /\ last' = "scalar"
    /\ UNCHANGED <<pending, faults, broken, cache, graphs, taint>>

TripleFitsInclusive(capacity) == capacity >= 3 /\ position + 2 <= MaxContext   \* mutant: off by one
TripleFits(capacity) == capacity >= 3 /\ position + 2 < MaxContext
PairFits(capacity) == capacity >= 2 /\ position + 1 < MaxContext /\ ~TripleFits(capacity)

RestoreFirstAlways(layer, accepted) ==   \* mutant: one checkpoint for both cases
    IF accepted = 2 THEN layer ELSE recurrent_restore_first(layer)

\* accept_sampled_speculative: forget the rejected rows of a three-row round.
Restore(layer, accepted) ==
    CASE accepted = 0 -> recurrent_restore_first(layer)
      [] accepted = 1 -> recurrent_restore_second(layer)
      [] OTHER -> layer

Rolled(layer, accepted, n) == IF accepted = n - 1 THEN layer ELSE Restore(layer, accepted)

AcceptedFirstRow(drafts, outs, accepted, next) ==   \* mutant: the choice of the round's first row
    /\ \A i \in 1..accepted : drafts[i] \in Outcomes(outs[i])
    /\ next \in Outcomes(outs[1])
    /\ accepted < Len(drafts) => drafts[accepted + 1] \notin Outcomes(outs[accepted + 1])

\* The prefix of the drafts the verified rows agree with ends at `accepted`,
\* and `next` is the choice of the row after it.
Accepted(drafts, outs, accepted, next) ==
    /\ \A i \in 1..accepted : drafts[i] \in Outcomes(outs[i])
    /\ next \in Outcomes(outs[accepted + 1])
    /\ accepted < Len(drafts) => drafts[accepted + 1] # next

copy_column_first(outs, accepted) == outs[1]   \* mutant: always the first row

\* The row of the last accepted token becomes the one the next draft reads.
copy_column(outs, accepted) == outs[accepted + 1]

\* A round verifies CURRENT and its drafts in one batch, keeps the rows it
\* accepts and rolls the recurrent layers back to the last of them.  Rejected
\* KV rows are left for the next call to overwrite.
Round(drafts, sampled) ==
    LET input == <<cur>> \o drafts
        n     == Len(input)
        g     == RegimeOf(position, n)
        shape == [s \in Slots |-> ShapeOf(s, g, n, position)]
    IN  \E pass \in {forward_batch(input, position, shape)} :
        \E accepted \in 0..(n - 1), next \in Tokens, refused \in Refusals(g) :
        /\ sampled \/ Accepted(drafts, pass.outs, accepted, next)
        /\ rec' = [s \in Slots |-> Rolled(IF s = 0 THEN pass.recA ELSE pass.recB, accepted, n)]
        /\ kv' = pass.kv
        /\ pending' = IF n = 3 THEN copy_column(pass.outs, accepted) ELSE pending
        /\ seq' = seq \o SubSeq(input, 1, accepted + 1)
        /\ cur' = next
        /\ greedy' = ~sampled
        /\ last' = CASE n = 3 -> "triple" [] n = 2 -> "pair" [] OTHER -> "single"
        /\ graph_step(g, n, position, refused)
        /\ faults' = faults - Cardinality(refused)
        /\ taint' = taint \union GraphTaint(g, n, position)
        /\ UNCHANGED <<broken, cache, capturing>>

GreedyRound ==
    \E capacity \in Capacities :
        /\ Able /\ seq # <<>>
        /\ \/ TripleFits(capacity) /\ \E d \in [1..2 -> Tokens] : Round(d, FALSE)
           \/ PairFits(capacity) /\ \E d \in [1..1 -> Tokens] : Round(d, FALSE)

\* forward_greedy where batches are supported: a round without drafts, which
\* uses the same verification graphs.
SingleRound ==
    /\ Able /\ seq # <<>>
    /\ position < MaxContext
    /\ Round(<<>>, FALSE)

\* The sampler decides what is accepted and what follows.
SampledRound ==
    /\ Able /\ seq # <<>>
    /\ TripleFits(3)
    /\ \E d \in [1..2 -> Tokens] : Round(d, TRUE)

\* A device call of a pass fails (what was drafted does not matter).  Inside a
\* capture the stream is left in capture mode and nothing of the segment has run.
Fail ==
    /\ ~broken /\ seq # <<>>
    /\ position + 2 < MaxContext
    /\ broken' = TRUE
    /\ last' = "failed"
    /\ \/ /\ capturing = {} /\ faults > 0
          /\ faults' = faults - 1
          /\ \E steps \in 0..5 :
                Launched(forward_batch(<<cur, cur, cur>>, position,
                             [s \in Slots |-> Direct(s, 3, position)]), steps)
          /\ UNCHANGED capturing
       \/ /\ capturing = {} /\ faults > 0
          /\ faults' = faults - 1
          /\ \E s \in Slots :
                /\ GraphMode(s, RegimeOf(position, 3)) = "capture"
                /\ capturing' = {s}
          /\ UNCHANGED <<rec, kv>>
       \/ /\ capturing # {}
          /\ UNCHANGED <<rec, kv, capturing, faults>>
    /\ UNCHANGED <<pending, seq, cur, greedy, cache, graph, warm, disabled, taint>>

\* The parts of the state a reset clears, each with two memsets.
Parts == {"a", "b", "kv"}

\* Every call on a slot whose stream is still capturing fails.
Stuck == {k \in Parts : IF k = "b" THEN 1 \in capturing ELSE 0 \in capturing}

\* qwen35_cpu_reset: every layer is cleared whatever happened to the others;
\* a failure is only logged.
Reset ==
    \E failed \in {f \in SUBSET (Parts \ Stuck) : Cardinality(f) <= faults}, reached \in 0..1 :
        LET done(k) == CASE k \in Stuck -> 0 [] k \in failed -> reached [] OTHER -> 2
        IN  /\ rec' = [s \in Slots |-> recurrent_reset(rec[s], done(IF s = 0 THEN "a" ELSE "b"))]
            /\ kv' = attention_reset(done("kv"))
            /\ pending' = <<>>
            /\ seq' = <<>>
            /\ greedy' = FALSE
            /\ last' = "none"
            /\ faults' = faults - Cardinality(failed)
            /\ broken' = FALSE
            /\ taint' = {"reset" : k \in failed \union Stuck}
            /\ UNCHANGED <<cur, cache, graphs>>

Next == Prompt \/ Scalar \/ SingleRound \/ GreedyRound \/ SampledRound \/ Fail \/ Reset

Spec == Init /\ [][Next]_vars

---------------------------------------------------------------------------
LayerState == [conv : Seq(Elements), gdn : Seq(Elements),
               conv_first : Seq(Elements), gdn_first : Seq(Elements),
               conv_second : Seq(Elements), gdn_second : Seq(Elements)]

\* Every variable keeps its type; in particular a captured graph records the
\* batch and the position of the call that captured it.
TypeOK ==
    /\ rec \in [Slots -> LayerState]
    /\ kv \in [0..(MaxContext - 1) -> Seq(Elements)]
    /\ pending \in Seq(Elements) /\ seq \in Seq(Tokens) /\ cur \in Tokens
    /\ Len(seq) <= MaxContext
    /\ faults \in 0..MaxFaults
    /\ greedy \in BOOLEAN /\ broken \in BOOLEAN /\ cache \in Caches
    /\ last \in {"none", "prompt", "scalar", "single", "pair", "triple", "failed"}
    /\ graph \in [Slots \X Regimes -> [rows : 0..3, position : 0..MaxContext]]
    /\ warm \in [Slots \X Regimes -> BOOLEAN]
    /\ disabled \subseteq 1..4 /\ capturing \subseteq Slots
    /\ taint \subseteq {"reset", "shape", "baked"}

\* What the device keeps is the kept sequence, nothing more and nothing less.
InStep(s) ==
    /\ \A i \in Slots : rec[i].gdn = s /\ rec[i].conv = Window(s)
    /\ \A p \in 0..(Len(s) - 1) : kv[p] = SubSeq(s, 1, p + 1)

\* Speculation never shows: whatever was drafted, accepted, rejected or rolled
\* back, both recurrent layers and the KV cache stand for exactly the tokens
\* the service kept.  The exceptions are a reset that failed (which the code
\* only logs) and a replayed graph that does not fit the call.
SessionExact == ~broken /\ taint = {} => InStep(seq)

\* The token fed next after a greedy call is the model's choice for the kept
\* sequence: a round of two or three rows answers as single steps would.
GreedyNext == ~broken /\ taint = {} /\ greedy => cur = Argmax(seq)

\* After a prompt or a three-row round the draft starts from the row of the
\* last kept token, as accept_sampled_speculative copies it on the device.
PendingInStep ==
    ~broken /\ taint = {} /\ last \in {"prompt", "triple"} => pending = seq

=============================================================================
