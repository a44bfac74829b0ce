---------------------------- MODULE LlamaFastProofs ----------------------------
(* For any vocabulary, context, draft length and caller: when a context's memory *)
(* can be cleared, speculation with a draft model answers as single steps would, *)
(* and the draft never holds a token that was not kept.  On every error path the *)
(* resources of a handle are freed in an order in which none reads a freed one.  *)
EXTENDS LlamaFast, SequenceTheorems, TLAPS

Places == 0..(Positions - 1)
Memory == [Places -> Tokens \union {None, Clash}]

\* The memory holds s and nothing else; the memory holds nothing but tokens of s.
Exactly(memory, s) == \A p \in Places : memory[p] = IF p < Len(s) THEN s[p + 1] ELSE None
Within(memory, s) == \A p \in Places : memory[p] # None => p < Len(s) /\ memory[p] = s[p + 1]

SessionType ==
    /\ target \in Memory /\ draft \in Memory
    /\ seq \in Seq(Tokens) /\ Len(seq) <= Positions /\ cur \in Tokens

\* The inductive invariant.
SessionInv ==
    /\ SessionType
    /\ Trusted => Exactly(target, seq) /\ Within(draft, seq) /\ (greedy => cur = Argmax(seq))

---------------------------------------------------------------------------
\* An empty context.
LEMMA EmptyMemory ==
    /\ Empty \in Memory
    /\ \A s \in Seq(Tokens) : Len(s) = 0 => Exactly(Empty, s) /\ Within(Empty, s)
    /\ [Empty EXCEPT ![0] = 0] \in Memory
<1>1. \A p \in Places : Empty[p] = None
  BY DEF Empty, Places
<1>2. Empty \in Memory
  BY DEF Empty, Memory, Places
<1>3. ASSUME NEW s \in Seq(Tokens), Len(s) = 0 PROVE Exactly(Empty, s) /\ Within(Empty, s)
  BY <1>1, <1>3, FastAssumption DEF Exactly, Within, Places
<1>4. [Empty EXCEPT ![0] = 0] \in Memory
  BY <1>2, FastAssumption DEF Memory
<1> QED BY <1>2, <1>3, <1>4

\* What a position holds after a batch has been decoded.
LEMMA DecodedAt ==
  ASSUME NEW memory \in Memory, NEW from \in Nat, NEW x \in Seq(Tokens)
  PROVE  /\ Decoded(memory, from, x) \in Memory
         /\ \A p \in Places : Decoded(memory, from, x)[p]
              = IF p >= from /\ p < from + Len(x)
                THEN IF memory[p] = None THEN x[p - from + 1] ELSE Clash
                ELSE memory[p]
<1>1. DOMAIN memory = Places /\ DOMAIN x = 1..Len(x) /\ Len(x) \in Nat /\ Positions \in Nat
  BY FastAssumption, LenProperties DEF Memory
<1>2. \A p \in Places : p >= from => (p - from + 1 \in DOMAIN x <=> p < from + Len(x))
  BY <1>1 DEF Places
<1>3. \A p \in Places : Decoded(memory, from, x)[p]
        = IF p >= from /\ p < from + Len(x)
          THEN IF memory[p] = None THEN x[p - from + 1] ELSE Clash
          ELSE memory[p]
  BY <1>1, <1>2 DEF Decoded
<1>4. \A p \in Places : Decoded(memory, from, x)[p] \in Tokens \union {None, Clash}
  <2>1. ASSUME NEW p \in Places, p >= from, p < from + Len(x) PROVE x[p - from + 1] \in Tokens
    <3>1. p - from + 1 \in 1..Len(x)
      BY <1>1, <2>1 DEF Places
    <3> QED BY <3>1, ElementOfSeq
  <2>2. \A p \in Places : memory[p] \in Tokens \union {None, Clash}
    BY DEF Memory
  <2> QED BY <1>3, <2>1, <2>2
<1>5. Decoded(memory, from, x) = [p \in Places |-> Decoded(memory, from, x)[p]]
  BY <1>1 DEF Decoded
<1> QED BY <1>3, <1>4, <1>5 DEF Memory

\* What is left after a rollback.
LEMMA SeqRmAt ==
  ASSUME NEW memory \in Memory, NEW from \in Nat
  PROVE  /\ SeqRm(memory, from) \in Memory
         /\ \A p \in Places : SeqRm(memory, from)[p] = IF p >= from THEN None ELSE memory[p]
  BY DEF SeqRm, Memory

\* The tokens kept of a batch, after those that were there.
LEMMA KeptPart ==
  ASSUME NEW s \in Seq(Tokens), NEW x \in Seq(Tokens), NEW i \in 0..Len(x)
  PROVE  /\ SubSeq(x, 1, i) \in Seq(Tokens) /\ Len(SubSeq(x, 1, i)) = i
         /\ s \o SubSeq(x, 1, i) \in Seq(Tokens)
         /\ Len(s \o SubSeq(x, 1, i)) = Len(s) + i
         /\ \A k \in 1..Len(s) : (s \o SubSeq(x, 1, i))[k] = s[k]
         /\ \A k \in 1..i : (s \o SubSeq(x, 1, i))[Len(s) + k] = x[k]
<1>1. Len(s) \in Nat /\ Len(x) \in Nat /\ i \in Nat /\ i <= Len(x)
  BY LenProperties
<1>2. \A k \in 1..i : x[k] \in Tokens
  BY <1>1, ElementOfSeq
<1> DEFINE y == SubSeq(x, 1, i)
<1>3. y \in Seq(Tokens) /\ Len(y) = i /\ \A k \in 1..i : y[k] = x[k]
  BY <1>1, <1>2, SubSeqProperties
<1> HIDE DEF y
<1>4. /\ s \o y \in Seq(Tokens) /\ Len(s \o y) = Len(s) + i
      /\ \A k \in 1..(Len(s) + i) : (s \o y)[k] = IF k <= Len(s) THEN s[k] ELSE y[k - Len(s)]
  BY <1>3, ConcatProperties
<1>5. \A k \in 1..Len(s) : (s \o y)[k] = s[k]
  BY <1>1, <1>4
<1>6. \A k \in 1..i : (s \o y)[Len(s) + k] = x[k]
  <2>1. \A k \in 1..i : /\ Len(s) + k \in 1..(Len(s) + i) /\ ~(Len(s) + k <= Len(s))
                        /\ (Len(s) + k) - Len(s) = k
    BY <1>1
  <2> QED BY <1>3, <1>4, <2>1
<1> QED BY <1>3, <1>4, <1>5, <1>6 DEF y

\* A batch x decoded behind the tokens s, of which i are kept: the target holds
\* what was kept, and after a rollback nothing else.
LEMMA TargetKeeps ==
  ASSUME NEW memory \in Memory, NEW s \in Seq(Tokens), NEW x \in Seq(Tokens),
         Len(s) + Len(x) <= Positions, NEW i \in 0..Len(x), Exactly(memory, s)
  PROVE  /\ Holds(Decoded(memory, Len(s), x), s \o SubSeq(x, 1, i))
         /\ Exactly(SeqRm(Decoded(memory, Len(s), x), Len(s) + i), s \o SubSeq(x, 1, i))
         /\ i = Len(x) => Exactly(Decoded(memory, Len(s), x), s \o SubSeq(x, 1, i))
<1> DEFINE d == Decoded(memory, Len(s), x)
           y == s \o SubSeq(x, 1, i)
<1>1. Len(s) \in Nat /\ Len(x) \in Nat /\ i \in Nat /\ i <= Len(x) /\ Positions \in Nat
  BY FastAssumption, LenProperties
<1>2. /\ d \in Memory
      /\ \A p \in Places : d[p] = IF p >= Len(s) /\ p < Len(s) + Len(x)
                                  THEN IF memory[p] = None THEN x[p - Len(s) + 1] ELSE Clash
                                  ELSE memory[p]
  BY <1>1, DecodedAt
<1>3. /\ Len(y) = Len(s) + i
      /\ \A k \in 1..Len(s) : y[k] = s[k]
      /\ \A k \in 1..i : y[Len(s) + k] = x[k]
  BY KeptPart
<1>4. \A p \in Places : SeqRm(d, Len(s) + i)[p] = IF p >= Len(s) + i THEN None ELSE d[p]
  BY <1>1, <1>2, SeqRmAt
<1> HIDE DEF d, y
<1>5. ASSUME NEW p \in Places, p < Len(s) + i PROVE d[p] = y[p + 1]
  <2>1. p \in Nat
    BY <1>1 DEF Places
  <2>2. CASE p < Len(s)
    <3>1. d[p] = memory[p]
      BY <1>1, <1>2, <2>1, <2>2
    <3>2. memory[p] = s[p + 1]
      BY <2>2 DEF Exactly
    <3>3. p + 1 \in 1..Len(s)
      BY <1>1, <2>1, <2>2
    <3> QED BY <1>3, <3>1, <3>2, <3>3
  <2>3. CASE ~(p < Len(s))
    <3>1. memory[p] = None
      BY <2>3 DEF Exactly
    <3>2. p >= Len(s) /\ p < Len(s) + Len(x)
      BY <1>1, <1>5, <2>1, <2>3
    <3>3. d[p] = x[p - Len(s) + 1]
      BY <1>2, <3>1, <3>2
    <3>4. p - Len(s) + 1 \in 1..i /\ Len(s) + (p - Len(s) + 1) = p + 1
      BY <1>1, <1>5, <2>1, <2>3
    <3> QED BY <1>3, <3>3, <3>4
  <2> QED BY <2>2, <2>3
<1>6. Holds(d, y)
  <2>1. \A p \in 0..(Len(y) - 1) : p \in Places /\ p < Len(s) + i
    BY <1>1, <1>3 DEF Places
  <2> QED BY <1>5, <2>1 DEF Holds
<1>7. Exactly(SeqRm(d, Len(s) + i), y)
  <2>1. ASSUME NEW p \in Places
        PROVE  SeqRm(d, Len(s) + i)[p] = IF p < Len(y) THEN y[p + 1] ELSE None
    <3>1. p \in Nat /\ (p >= Len(s) + i <=> ~(p < Len(y)))
      BY <1>1, <1>3 DEF Places
    <3> QED BY <1>3, <1>4, <1>5, <3>1
  <2> QED BY <2>1 DEF Exactly
<1>8. ASSUME i = Len(x) PROVE Exactly(d, y)
  <2>1. ASSUME NEW p \in Places, ~(p < Len(y)) PROVE d[p] = None
    <3>1. p \in Nat /\ ~(p < Len(s)) /\ ~(p < Len(s) + Len(x))
      BY <1>1, <1>3, <1>8, <2>1 DEF Places
    <3> QED BY <1>2, <3>1 DEF Exactly
  <2> QED BY <1>3, <1>5, <2>1 DEF Exactly
<1> QED BY <1>6, <1>7, <1>8 DEF d, y

\* The draft has decoded the first n tokens of the batch: it holds nothing that
\* was not kept once it is rolled back, or at once if all n were kept.
LEMMA DraftKeeps ==
  ASSUME NEW memory \in Memory, NEW s \in Seq(Tokens), NEW x \in Seq(Tokens),
         NEW n \in 0..Len(x), NEW i \in 0..Len(x), Within(memory, s)
  PROVE  /\ Within(SeqRm(Decoded(memory, Len(s), SubSeq(x, 1, n)), Len(s) + i),
                   s \o SubSeq(x, 1, i))
         /\ n <= i => Within(Decoded(memory, Len(s), SubSeq(x, 1, n)), s \o SubSeq(x, 1, i))
<1> DEFINE z == SubSeq(x, 1, n)
           d == Decoded(memory, Len(s), z)
           y == s \o SubSeq(x, 1, i)
<1>1. /\ Len(s) \in Nat /\ Len(x) \in Nat /\ i \in Nat /\ i <= Len(x)
      /\ n \in Nat /\ n <= Len(x) /\ Positions \in Nat
  BY FastAssumption, LenProperties
<1>2. z \in Seq(Tokens) /\ Len(z) = n /\ \A k \in 1..n : z[k] = x[k]
  <2>1. \A k \in 1..n : x[k] \in Tokens
    BY <1>1, ElementOfSeq
  <2> QED BY <1>1, <2>1, SubSeqProperties
<1> HIDE DEF z
<1>3. /\ d \in Memory
      /\ \A p \in Places : d[p] = IF p >= Len(s) /\ p < Len(s) + n
                                  THEN IF memory[p] = None THEN z[p - Len(s) + 1] ELSE Clash
                                  ELSE memory[p]
  <2>1. /\ d \in Memory
        /\ \A p \in Places : d[p] = IF p >= Len(s) /\ p < Len(s) + Len(z)
                                    THEN IF memory[p] = None THEN z[p - Len(s) + 1] ELSE Clash
                                    ELSE memory[p]
    BY <1>1, <1>2, DecodedAt
  <2> QED BY <1>2, <2>1
<1>4. /\ Len(y) = Len(s) + i
      /\ \A k \in 1..Len(s) : y[k] = s[k]
      /\ \A k \in 1..i : y[Len(s) + k] = x[k]
  BY KeptPart
<1>5. \A p \in Places : SeqRm(d, Len(s) + i)[p] = IF p >= Len(s) + i THEN None ELSE d[p]
  BY <1>1, <1>3, SeqRmAt
<1> HIDE DEF d, y
<1>6. ASSUME NEW p \in Places, d[p] # None
      PROVE  p < Len(s) + n \/ p < Len(s)
  <2>1. p \in Nat
    BY <1>1 DEF Places
  <2> QED BY <1>1, <1>3, <1>6, <2>1 DEF Within
<1>7. ASSUME NEW p \in Places, d[p] # None, p < Len(s) + i PROVE d[p] = y[p + 1]
  <2>1. p \in Nat
    BY <1>1 DEF Places
  <2>2. CASE p < Len(s)
    <3>1. d[p] = memory[p]
      BY <1>1, <1>3, <2>1, <2>2
    <3>2. memory[p] = s[p + 1]
      BY <1>7, <3>1 DEF Within
    <3>3. p + 1 \in 1..Len(s)
      BY <1>1, <2>1, <2>2
    <3> QED BY <1>4, <3>1, <3>2, <3>3
  <2>3. CASE ~(p < Len(s))
    <3>1. memory[p] = None
      BY <2>3 DEF Within
    <3>2. p >= Len(s) /\ p < Len(s) + n
      BY <1>1, <1>6, <1>7, <2>1, <2>3
    <3>3. d[p] = z[p - Len(s) + 1]
      BY <1>3, <3>1, <3>2
    <3>4. /\ p - Len(s) + 1 \in 1..i /\ p - Len(s) + 1 \in 1..n
          /\ Len(s) + (p - Len(s) + 1) = p + 1
      BY <1>1, <1>7, <2>1, <3>2
    <3> QED BY <1>2, <1>4, <3>3, <3>4
  <2> QED BY <2>2, <2>3
<1>8. Within(SeqRm(d, Len(s) + i), y)
  <2>1. ASSUME NEW p \in Places, SeqRm(d, Len(s) + i)[p] # None
        PROVE  p < Len(y) /\ SeqRm(d, Len(s) + i)[p] = y[p + 1]
    <3>1. ~(p >= Len(s) + i) /\ SeqRm(d, Len(s) + i)[p] = d[p]
      BY <1>5, <2>1
    <3>2. p < Len(s) + i
      BY <1>1, <3>1 DEF Places
    <3> QED BY <1>4, <1>7, <2>1, <3>1, <3>2
  <2> QED BY <2>1 DEF Within
<1>9. ASSUME n <= i PROVE Within(d, y)
  <2>1. ASSUME NEW p \in Places, d[p] # None PROVE p < Len(s) + i
    <3>1. p \in Nat
      BY <1>1 DEF Places
    <3> QED BY <1>1, <1>6, <1>9, <2>1, <3>1
  <2> QED BY <1>4, <1>7, <2>1 DEF Within
<1> QED BY <1>8, <1>9 DEF d, y, z

---------------------------------------------------------------------------
\* The target's choice behind tokens it holds.
LEMMA RowIsToken ==
  ASSUME NEW memory, NEW s \in Seq(Tokens), Len(s) <= Positions
  PROVE  /\ ArgmaxRow(memory, s) \subseteq Tokens
         /\ Holds(memory, s) => ArgmaxRow(memory, s) = {Argmax(s)}
<1>1. s \in [1..Len(s) -> Tokens] /\ Len(s) \in 0..Positions
  BY LenProperties, FastAssumption
<1>2. Argmax(s) \in Tokens
  BY <1>1, FastAssumption
<1> QED BY <1>2 DEF ArgmaxRow

\* What the target is given in a round.
LEMMA RoundInput ==
  ASSUME NEW e \in Tokens, NEW drafts \in [1..SpecMax -> Tokens]
  PROVE  <<e>> \o drafts \in Seq(Tokens) /\ Len(<<e>> \o drafts) = SpecMax + 1
<1>1. <<e>> \in Seq(Tokens) /\ Len(<<e>>) = 1
  OBVIOUS
<1>2. drafts \in Seq(Tokens) /\ Len(drafts) = SpecMax /\ SpecMax \in Nat
  BY FastAssumption
<1> QED BY <1>1, <1>2, ConcatProperties

\* The handle's life: a context starts empty.
LEMMA LifeInv ==
  ASSUME SessionInv, context_create \/ Acquire \/ Warm \/ Free \/ Close
  PROVE  SessionInv'
<1>1. <<>> \in Seq(Tokens) /\ Len(<<>>) = 0 /\ Positions \in Nat
  BY EmptySeq, FastAssumption
<1>2. CASE context_create \/ Acquire \/ Free
  <2>1. UNCHANGED session
    BY <1>2 DEF context_create, Acquire, Free
  <2>2. stage' # "ready"
    <3>1. CASE context_create
      BY <3>1 DEF context_create, resources
    <3>2. CASE Acquire
      <4>1. stage = "creating" /\ (stage' = "freeing" \/ UNCHANGED stage)
        BY <3>2, Zenon DEF Acquire
      <4> QED BY <4>1
    <3>3. CASE Free
      BY <3>3 DEF Free
    <3> QED BY <1>2, <3>1, <3>2, <3>3
  <2> QED BY <2>1, <2>2 DEF SessionInv, SessionType, session, Trusted, Able
<1>3. CASE Warm
  <2>1. SessionType'
    BY <1>1, <1>3, EmptyMemory DEF Warm, SessionInv, SessionType
  <2>2. Trusted' => target' = Empty /\ draft' = Empty
    BY <1>3 DEF Warm, Trusted, Able
  <2> QED BY <1>1, <1>3, <2>1, <2>2, EmptyMemory DEF Warm, SessionInv
<1>4. CASE Close
  BY <1>1, <1>4, EmptyMemory DEF Close, SessionInv, SessionType, Trusted, Able
<1> QED BY <1>2, <1>3, <1>4

\* One token.
LEMMA StepInv ==
  ASSUME SessionInv, NEW chosen \in BOOLEAN, Step(chosen)
  PROVE  SessionInv'
<1> DEFINE x == <<cur>>
<1>1. /\ target \in Memory /\ draft \in Memory /\ seq \in Seq(Tokens) /\ cur \in Tokens
      /\ Len(seq) < Positions /\ Len(seq) \in Nat /\ Positions \in Nat
  BY FastAssumption, LenProperties DEF SessionInv, SessionType, Step, position
<1>2. x \in Seq(Tokens) /\ Len(x) = 1 /\ 1 \in 0..Len(x) /\ 0 \in 0..Len(x)
  BY <1>1
<1>3. SubSeq(x, 1, 1) = x /\ SubSeq(x, 1, 0) = <<>>
  <2>1. SubSeq(x, 1, Len(x)) = x
    BY <1>2, SubSeqFull
  <2> QED BY <1>2, <2>1, SubSeqEmpty
<1>4. seq' = seq \o x /\ seq' \in Seq(Tokens) /\ Len(seq') = Len(seq) + 1
  BY <1>1, AppendIsConcat, AppendProperties DEF Step
<1>5. target' = Decoded(target, Len(seq), x) /\ draft' = draft /\ Trusted' = Trusted
  BY DEF Step, position, Idle, Trusted, Able, resources
<1> HIDE DEF x
<1>6. target' \in Memory
  BY <1>1, <1>2, <1>5, DecodedAt
<1>7. ArgmaxRow(target', seq') \subseteq Tokens /\ cur' \in Tokens
  <2>1. Len(seq') <= Positions
    BY <1>1, <1>4
  <2>2. ArgmaxRow(target', seq') \subseteq Tokens
    BY <1>4, <2>1, RowIsToken
  <2>3. cur' \in IF chosen THEN ArgmaxRow(target', seq') ELSE Tokens
    BY DEF Step
  <2> QED BY <2>2, <2>3
<1>8. SessionType'
  BY <1>1, <1>4, <1>5, <1>6, <1>7 DEF SessionType
<1>9. ASSUME Trusted PROVE Exactly(target', seq') /\ Within(draft', seq') /\ (greedy' => cur' = Argmax(seq'))
  <2>1. Exactly(target, seq) /\ Within(draft, seq)
    BY <1>9 DEF SessionInv
  <2>2. Holds(target', seq') /\ Exactly(target', seq')
    <3>1. Len(seq) + Len(x) <= Positions
      BY <1>1, <1>2
    <3>2. /\ Holds(Decoded(target, Len(seq), x), seq \o SubSeq(x, 1, 1))
          /\ Exactly(Decoded(target, Len(seq), x), seq \o SubSeq(x, 1, 1))
      BY <1>1, <1>2, <2>1, <3>1, TargetKeeps
    <3> QED BY <1>3, <1>4, <1>5, <3>2
  <2>3. Within(draft', seq')
    <3>1. \A k \in 1..Len(seq) : (seq \o SubSeq(x, 1, 1))[k] = seq[k]
      BY <1>1, <1>2, KeptPart
    <3>2. ASSUME NEW p \in Places, draft[p] # None PROVE p < Len(seq') /\ draft[p] = seq'[p + 1]
      <4>1. p < Len(seq) /\ draft[p] = seq[p + 1] /\ p \in Nat
        BY <1>1, <2>1, <3>2 DEF Within, Places
      <4>2. p + 1 \in 1..Len(seq) /\ p < Len(seq')
        BY <1>1, <1>4, <4>1
      <4> QED BY <1>3, <1>4, <3>1, <4>1, <4>2
    <3> QED BY <1>5, <3>2 DEF Within
  <2>4. greedy' => cur' = Argmax(seq')
    <3>1. ArgmaxRow(target', seq') = {Argmax(seq')}
      BY <2>2 DEF ArgmaxRow
    <3> QED BY <3>1 DEF Step
  <2> QED BY <2>2, <2>3, <2>4
<1> QED BY <1>5, <1>8, <1>9 DEF SessionInv

\* A call that fails leaves a state that nothing but a reset makes trusted.
LEMMA FailInv ==
  ASSUME SessionInv, step_fails \/ round_fails
  PROVE  SessionInv'
<1>1. /\ target \in Memory /\ draft \in Memory /\ seq \in Seq(Tokens) /\ cur \in Tokens
      /\ Len(seq) \in Nat
  BY LenProperties DEF SessionInv, SessionType
<1>2. ~Trusted' /\ UNCHANGED <<seq, cur>>
  BY DEF step_fails, round_fails, Trusted, Able
<1>3. target' \in Memory /\ draft' \in Memory
  <2>1. CASE step_fails
    <3>1. <<cur>> \in Seq(Tokens)
      BY <1>1
    <3>2. Decoded(target, position, <<cur>>) \in Memory
      BY <1>1, <3>1, DecodedAt DEF position
    <3> QED BY <1>1, <2>1, <3>2 DEF step_fails
  <2>2. CASE round_fails
    <3>1. PICK drafts \in [1..SpecMax -> Tokens], d \in 0..SpecMax, t \in 0..(SpecMax + 1) :
            /\ draft' = Decoded(draft, position, SubSeq(<<cur>> \o drafts, 1, d))
            /\ target' = Decoded(target, position, SubSeq(<<cur>> \o drafts, 1, t))
      BY <2>2 DEF round_fails
    <3>2. <<cur>> \o drafts \in Seq(Tokens) /\ Len(<<cur>> \o drafts) = SpecMax + 1
      BY <1>1, FastAssumption, RoundInput
    <3> DEFINE input == <<cur>> \o drafts
    <3> HIDE DEF input
    <3>3. d \in 0..Len(input) /\ t \in 0..Len(input) /\ input \in Seq(Tokens)
      BY <3>2, FastAssumption DEF input
    <3>4. SubSeq(input, 1, d) \in Seq(Tokens) /\ SubSeq(input, 1, t) \in Seq(Tokens)
      BY <1>1, <3>3, KeptPart
    <3>5. Decoded(draft, position, SubSeq(input, 1, d)) \in Memory
      BY <1>1, <3>4, DecodedAt DEF position
    <3>6. Decoded(target, position, SubSeq(input, 1, t)) \in Memory
      BY <1>1, <3>4, DecodedAt DEF position
    <3> QED BY <3>1, <3>5, <3>6 DEF input
  <2> QED BY <2>1, <2>2
<1> QED BY <1>1, <1>2, <1>3 DEF SessionInv, SessionType

\* A round: the accepted drafts and one more choice of the target.
LEMMA RoundInv ==
  ASSUME SessionInv, NEW capacity \in Capacities, NEW drafts \in [1..SpecMax -> Tokens],
         decode_speculative(capacity, drafts)
  PROVE  SessionInv'
<1> DEFINE input == <<cur>> \o drafts
           verified == Decoded(target, position, input)
           drafted == Decoded(draft, position, Front(input))
<1>1. /\ target \in Memory /\ draft \in Memory /\ seq \in Seq(Tokens) /\ cur \in Tokens
      /\ Len(seq) \in Nat /\ SpecMax \in Nat /\ Positions \in Nat
  BY FastAssumption, LenProperties DEF SessionInv, SessionType
<1>2. input \in Seq(Tokens) /\ Len(input) = SpecMax + 1
  BY <1>1, RoundInput
<1>3. SpecMax + 1 <= Positions - Len(seq)
  BY DEF decode_speculative, RoundFits, position
<1>4. PICK accepted \in 0..SpecMax :
        /\ cur' \in ArgmaxRow(verified, seq \o SubSeq(input, 1, accepted + 1))
        /\ seq' = seq \o SubSeq(input, 1, accepted + 1)
        /\ IF accepted < SpecMax
           THEN /\ target' = SeqRm(verified, position + accepted + 1)
                /\ draft' = draft_rolled_back(drafted, position + accepted + 1)
           ELSE target' = verified /\ draft' = drafted
  BY Zenon DEF decode_speculative
<1>5. Front(input) = SubSeq(input, 1, Len(input) - 1)
  BY DEF Front
<1>6. Trusted' = Trusted
  BY DEF decode_speculative, Idle, Trusted, Able, resources
<1> HIDE DEF input
<1> DEFINE i == accepted + 1
<1>7. /\ i \in 0..Len(input) /\ i \in Nat /\ i <= Len(input) /\ Len(input) - 1 \in 0..Len(input)
      /\ position + accepted + 1 = Len(seq) + i
      /\ accepted < SpecMax <=> i # Len(input)
      /\ ~(accepted < SpecMax) => Len(input) - 1 <= i
  BY <1>1, <1>2 DEF position
<1> HIDE DEF i
<1>8. seq' = seq \o SubSeq(input, 1, i) /\ cur' \in ArgmaxRow(verified, seq')
  BY <1>4 DEF i
<1>9. /\ verified = Decoded(target, Len(seq), input)
      /\ drafted = Decoded(draft, Len(seq), SubSeq(input, 1, Len(input) - 1))
  BY <1>5 DEF position
<1>10. IF i # Len(input)
       THEN target' = SeqRm(verified, Len(seq) + i) /\ draft' = SeqRm(drafted, Len(seq) + i)
       ELSE target' = verified /\ draft' = drafted
  BY <1>4, <1>7 DEF draft_rolled_back
<1> HIDE DEF verified, drafted
<1>11. seq' \in Seq(Tokens) /\ Len(seq') = Len(seq) + i /\ Len(seq') <= Positions
  <2>1. seq' \in Seq(Tokens) /\ Len(seq') = Len(seq) + i
    BY <1>1, <1>2, <1>7, <1>8, KeptPart
  <2> QED BY <1>1, <1>2, <1>3, <1>7, <2>1
<1>12. verified \in Memory /\ drafted \in Memory
  <2>1. SubSeq(input, 1, Len(input) - 1) \in Seq(Tokens)
    BY <1>1, <1>2, <1>7, KeptPart
  <2>2. Decoded(target, Len(seq), input) \in Memory
    BY <1>1, <1>2, DecodedAt
  <2>3. Decoded(draft, Len(seq), SubSeq(input, 1, Len(input) - 1)) \in Memory
    BY <1>1, <2>1, DecodedAt
  <2> QED BY <1>9, <2>2, <2>3
<1>13. target' \in Memory /\ draft' \in Memory
  <2>1. Len(seq) + i \in Nat
    BY <1>1, <1>7
  <2>2. SeqRm(verified, Len(seq) + i) \in Memory /\ SeqRm(drafted, Len(seq) + i) \in Memory
    BY <1>12, <2>1, SeqRmAt
  <2> QED BY <1>10, <1>12, <2>2
<1>14. SessionType'
  <2>1. cur' \in Tokens
    BY <1>8, <1>11, RowIsToken
  <2> QED BY <1>11, <1>13, <2>1 DEF SessionType
<1>15. ASSUME Trusted
       PROVE  Exactly(target', seq') /\ Within(draft', seq') /\ cur' = Argmax(seq')
  <2>1. Exactly(target, seq) /\ Within(draft, seq)
    BY <1>15 DEF SessionInv
  <2>2. Len(seq) + Len(input) <= Positions
    BY <1>1, <1>2, <1>3
  <2>3. /\ Holds(verified, seq') /\ Exactly(SeqRm(verified, Len(seq) + i), seq')
        /\ i = Len(input) => Exactly(verified, seq')
    BY <1>1, <1>2, <1>7, <1>8, <1>9, <2>1, <2>2, TargetKeeps
  <2>4. /\ Within(SeqRm(drafted, Len(seq) + i), seq')
        /\ Len(input) - 1 <= i => Within(drafted, seq')
    BY <1>1, <1>2, <1>7, <1>8, <1>9, <2>1, DraftKeeps
  <2>5. cur' = Argmax(seq')
    BY <1>8, <2>3 DEF ArgmaxRow
  <2>6. i = Len(input) => Len(input) - 1 <= i
    BY <1>2, <1>7
  <2> QED BY <1>10, <2>3, <2>4, <2>5, <2>6
<1> QED BY <1>6, <1>14, <1>15 DEF SessionInv

\* A reset clears both contexts if the library can.
LEMMA ResetInv ==
  ASSUME SessionInv, context_reset
  PROVE  SessionInv'
<1>1. <<>> \in Seq(Tokens) /\ Len(<<>>) = 0 /\ Positions \in Nat
  BY EmptySeq, FastAssumption
<1>2. seq' = <<>> /\ cur' \in Tokens /\ ~greedy' /\ optional' = optional
  BY DEF context_reset, Idle
<1>3. target' \in Memory /\ draft' \in Memory
  BY EmptyMemory DEF context_reset, SessionInv, SessionType
<1>4. Trusted' => target' = Empty /\ draft' = Empty
  BY <1>2 DEF context_reset, Trusted
<1>5. seq' \in Seq(Tokens) /\ Len(seq') = 0
  BY <1>1, <1>2
<1>6. Exactly(Empty, seq') /\ Within(Empty, seq')
  BY <1>5, EmptyMemory
<1>7. SessionType'
  BY <1>1, <1>2, <1>3, <1>5 DEF SessionType
<1>8. Trusted' => Exactly(target', seq') /\ Within(draft', seq')
  BY <1>4, <1>6
<1> QED BY <1>2, <1>7, <1>8 DEF SessionInv

\* A handle starts with nothing, and every step keeps the invariant.
LEMMA SessionInvariance == FastSpec => []SessionInv
<1>1. FastInit => SessionInv
  <2>1. <<>> \in Seq(Tokens) /\ Len(<<>>) = 0 /\ Positions \in Nat
    BY EmptySeq, FastAssumption
  <2> SUFFICES ASSUME FastInit PROVE SessionInv
    OBVIOUS
  <2>2. SessionType
    BY <2>1, EmptyMemory DEF FastInit, SessionType
  <2> QED BY <2>2 DEF FastInit, SessionInv, Trusted, Able
<1>2. SessionInv /\ [FastNext]_fastVars => SessionInv'
  <2> SUFFICES ASSUME SessionInv, [FastNext]_fastVars PROVE SessionInv'
    OBVIOUS
  <2>1. CASE context_create \/ Acquire \/ Warm \/ Free \/ Close
    BY <2>1, LifeInv
  <2>2. CASE context_decode \/ context_decode_greedy
    BY <2>2, StepInv DEF context_decode, context_decode_greedy
  <2>3. CASE step_fails \/ round_fails
    BY <2>3, FailInv
  <2>4. CASE context_reset
    BY <2>4, ResetInv
  <2>5. ASSUME NEW capacity \in Capacities, NEW drafts \in [1..SpecMax -> Tokens],
               decode_speculative(capacity, drafts)
        PROVE  SessionInv'
    BY <2>5, RoundInv
  <2>6. CASE UNCHANGED fastVars
    BY <2>6 DEF fastVars, resources, session, SessionInv, SessionType, Trusted, Able
  <2> QED BY <2>1, <2>2, <2>3, <2>4, <2>5, <2>6 DEF FastNext
<1> QED BY <1>1, <1>2, PTL DEF FastSpec

\* Speculation with a draft model answers as single steps would: whatever was
\* rejected or had failed before a reset, the target's memory holds the kept tokens
\* and nothing else, and the next token is the target's own choice.
THEOREM SpeculationExact == FastSpec => []FastExact
<1>1. SessionInv => FastExact
  BY DEF SessionInv, FastExact, Exactly, Places
<1> QED BY SessionInvariance, <1>1, PTL

\* The draft context never holds a token that the target has rejected.
THEOREM DraftFollows == FastSpec => []DraftNeverStale
<1>1. SessionInv => DraftNeverStale
  BY DEF SessionInv, DraftNeverStale, Within, Places
<1> QED BY SessionInvariance, <1>1, PTL

---------------------------------------------------------------------------
(* The resources of a handle.                                                    *)

Kinds == {"plain", "draft", "mtp"}
Paths == {<<>>, free_target, free_named, context_destroy}

Named == {"handle", "model", "context", "batch", "pool", "path",
          "draft_model", "draft_context", "draft_batch", "mtp_context", "mtp_token"}
Resources == Named \union {"mtp_embd"}

Elements(path, m, n) == {path[i] : i \in m..n}

\* What exists has what it was made from, or reads.
Backed ==
    /\ "context" \in live => "model" \in live
    /\ "draft_context" \in live => "draft_model" \in live
    /\ "mtp_context" \in live => "context" \in live /\ "model" \in live

\* The first n resources have been asked for, the target's group is complete.
Asked(n) ==
    /\ todo = SubSeq(Wanted(kind), n + 1, Len(Wanted(kind)))
    /\ live \subseteq Elements(Wanted(kind), 1, n)
    /\ n >= 4 => "model" \in live /\ "context" \in live

\* The first n resources of a path have been freed.
Freed(path, n) ==
    /\ todo = SubSeq(path, n + 1, Len(path))
    /\ live \subseteq Elements(path, n + 1, Len(path)) \union {"mtp_embd"}

\* The inductive invariant.
ResourceInv ==
    /\ Backed
    /\ live \subseteq Resources
    /\ stage \in {"none", "crashed"} => live \subseteq {"mtp_embd"}
    /\ stage = "creating" => kind \in Kinds /\ \E n \in 0..Len(Wanted(kind)) : Asked(n)
    /\ stage = "freeing" => \E path \in Paths : \E n \in 0..Len(path) : Freed(path, n)

\* A path consists of resources.
LEMMA PathIsSeq == \A path \in Paths : path \in Seq(Named)
<1>1. <<>> \in Seq(Named)
  BY EmptySeq
<1>2. free_target \in Seq(Named)
  BY DEF free_target, Named
<1>3. free_named \in Seq(Named)
  BY DEF free_named, Named
<1>4. context_destroy \in Seq(Named)
  BY DEF context_destroy, Named
<1> QED BY <1>1, <1>2, <1>3, <1>4 DEF Paths

\* A path frees what was made from a resource, or reads it, before the resource.
LEMMA PathOrder ==
  ASSUME NEW path \in Paths, NEW i \in 1..Len(path), NEW j \in 1..Len(path)
  PROVE  /\ path[i] = "context" /\ path[j] = "model" => i < j
         /\ path[i] = "draft_context" /\ path[j] = "draft_model" => i < j
         /\ path[i] = "mtp_context" /\ path[j] \in {"context", "model"} => i < j
<1>1. CASE path = <<>>
  BY <1>1
<1>2. CASE path = free_target
  <2>1. Len(path) = 3
    BY <1>2 DEF free_target
  <2>2. \A k \in 1..3 : /\ path[k] = "context" => k = 1
                        /\ path[k] = "model" => k = 2
                        /\ path[k] \notin {"draft_context", "mtp_context"}
    BY <1>2 DEF free_target
  <2> QED BY <2>1, <2>2
<1>3. CASE path = free_named
  <2>1. Len(path) = 6
    BY <1>3 DEF free_named
  <2>2. \A k \in 1..6 : /\ path[k] = "context" => k = 2
                        /\ path[k] = "model" => k = 4
                        /\ path[k] \notin {"draft_context", "mtp_context"}
    BY <1>3 DEF free_named
  <2> QED BY <2>1, <2>2
<1>4. CASE path = context_destroy
  <2>1. Len(path) = 11
    BY <1>4 DEF context_destroy
  <2>2. \A k \in 1..11 : /\ path[k] = "context" => k = 7
                         /\ path[k] = "model" => k = 9
                         /\ path[k] = "draft_context" => k = 4
                         /\ path[k] = "draft_model" => k = 6
                         /\ path[k] = "mtp_context" => k = 5
    BY <1>4 DEF context_destroy
  <2> QED BY <2>1, <2>2
<1> QED BY <1>1, <1>2, <1>3, <1>4 DEF Paths

\* What each error path frees.
LEMMA PathFrees ==
  /\ Elements(free_target, 1, Len(free_target)) = {"context", "model", "handle"}
  /\ Elements(free_named, 1, Len(free_named))
       = {"batch", "context", "pool", "model", "path", "handle"}
  /\ Elements(context_destroy, 1, Len(context_destroy)) = Named
<1>1. Elements(free_target, 1, Len(free_target)) = {"context", "model", "handle"}
  BY DEF Elements, free_target
<1>2. Elements(free_named, 1, Len(free_named))
        = {"batch", "context", "pool", "model", "path", "handle"}
  BY DEF Elements, free_named
<1>3. Elements(context_destroy, 1, Len(context_destroy)) = Named
  BY DEF Elements, context_destroy, Named
<1> QED BY <1>1, <1>2, <1>3

\* Six resources, then three.
LEMMA SixAndThree ==
  ASSUME NEW S, NEW s \in Seq(S), NEW x \in Seq(S), Len(s) = 6, Len(x) = 3
  PROVE  /\ s \o x \in Seq(S) /\ Len(s \o x) = 9
         /\ \A i \in 1..6 : (s \o x)[i] = s[i]
         /\ \A i \in 7..9 : (s \o x)[i] = x[i - 6]
<1> DEFINE w == s \o x
<1>1. /\ w \in Seq(S) /\ Len(w) = Len(s) + Len(x)
      /\ \A i \in 1..(Len(s) + Len(x)) : w[i] = IF i <= Len(s) THEN s[i] ELSE x[i - Len(s)]
  BY ConcatProperties
<1> HIDE DEF w
<1>2. Len(w) = 9 /\ \A i \in 1..9 : w[i] = IF i <= 6 THEN s[i] ELSE x[i - 6]
  BY <1>1
<1>3. (\A i \in 1..6 : w[i] = s[i]) /\ (\A i \in 7..9 : w[i] = x[i - 6])
  BY <1>2
<1> QED BY <1>1, <1>2, <1>3 DEF w

\* The resources of each kind of handle, in their order.
LEMMA WantedIs ==
  ASSUME NEW k \in Kinds
  PROVE  /\ Wanted(k) \in Seq(Resources)
         /\ Len(Wanted(k)) = IF k = "plain" THEN 6 ELSE 9
         /\ \A i \in 1..6 : Wanted(k)[i] = Target[i]
         /\ k = "draft" => \A i \in 7..9 : Wanted(k)[i] = Draft[i - 6]
         /\ k = "mtp" => \A i \in 7..9 : Wanted(k)[i] = Mtp[i - 6]
<1>1. Target \in Seq(Resources) /\ Len(Target) = 6
  BY DEF Target, Resources, Named
<1>2. Draft \in Seq(Resources) /\ Len(Draft) = 3
  BY DEF Draft, Resources, Named
<1>3. Mtp \in Seq(Resources) /\ Len(Mtp) = 3
  BY DEF Mtp, Resources, Named
<1>4. /\ Wanted("plain") = Target \o <<>>
      /\ Wanted("draft") = Target \o Draft
      /\ Wanted("mtp") = Target \o Mtp
  BY DEF Wanted
<1>5. Target \o <<>> = Target
  BY <1>1, ConcatEmptySeq
<1>6. /\ Target \o Draft \in Seq(Resources) /\ Len(Target \o Draft) = 9
      /\ \A i \in 1..6 : (Target \o Draft)[i] = Target[i]
      /\ \A i \in 7..9 : (Target \o Draft)[i] = Draft[i - 6]
  BY <1>1, <1>2, SixAndThree
<1>7. /\ Target \o Mtp \in Seq(Resources) /\ Len(Target \o Mtp) = 9
      /\ \A i \in 1..6 : (Target \o Mtp)[i] = Target[i]
      /\ \A i \in 7..9 : (Target \o Mtp)[i] = Mtp[i - 6]
  BY <1>1, <1>3, SixAndThree
<1>8. CASE k = "plain"
  <2>1. Wanted(k) = Target
    BY <1>4, <1>5, <1>8
  <2> QED BY <1>1, <1>8, <2>1
<1>9. CASE k = "draft"
  <2>1. Wanted(k) = Target \o Draft
    BY <1>4, <1>9
  <2>2. k # "plain" /\ k # "mtp"
    BY <1>9
  <2> QED BY <1>6, <2>1, <2>2, Zenon
<1>10. CASE k = "mtp"
  <2>1. Wanted(k) = Target \o Mtp
    BY <1>4, <1>10
  <2>2. k # "plain" /\ k # "draft"
    BY <1>10
  <2> QED BY <1>7, <2>1, <2>2, Zenon
<1> QED BY <1>8, <1>9, <1>10 DEF Kinds

\* What has been asked for when a resource comes up.
LEMMA WantedOrder ==
  ASSUME NEW k \in Kinds, NEW n \in 0..(Len(Wanted(k)) - 1)
  PROVE  LET r == Wanted(k)[n + 1]
             before == Elements(Wanted(k), 1, n)
         IN  /\ r \in Resources /\ before \subseteq Resources
             /\ r = "handle" => before = {}
             /\ n + 1 = 4 <=> r = "batch"
             /\ r = "batch" => before \subseteq {"handle", "model", "context"}
             /\ r = "path" => before \subseteq {"handle", "model", "context", "batch", "pool"}
             /\ r = "mtp_context" => n >= 4
<1> DEFINE w == Wanted(k)
<1>1. /\ n \in 0..8 /\ Len(w) \in {6, 9} /\ n < Len(w)
      /\ n >= 6 => k \in {"draft", "mtp"}
  <2> DEFINE l == Len(w)
  <2>1. l = IF k = "plain" THEN 6 ELSE 9
    BY WantedIs
  <2>2. n \in 0..(l - 1)
    OBVIOUS
  <2> HIDE DEF l
  <2>3. n \in 0..8 /\ l \in {6, 9} /\ n < l /\ (n >= 6 => k \in {"draft", "mtp"})
    BY <2>1, <2>2 DEF Kinds
  <2> QED BY <2>3 DEF l
<1>2. \A i \in 1..Len(w) : w[i] \in Resources
  BY WantedIs, ElementOfSeq
<1>3. /\ w[1] = "handle" /\ w[2] = "model" /\ w[3] = "context" /\ w[4] = "batch"
      /\ w[5] = "pool" /\ w[6] = "path"
  BY WantedIs DEF Target
<1>4. n >= 6 => w[n + 1] \notin {"handle", "batch", "path"}
  <2>1. n >= 6 => n + 1 \in 7..9 /\ k \in {"draft", "mtp"} /\ n + 1 - 6 \in 1..3
    BY <1>1
  <2>2. \A i \in 1..3 : /\ Draft[i] \notin {"handle", "batch", "path"}
                        /\ Mtp[i] \notin {"handle", "batch", "path"}
    BY DEF Draft, Mtp
  <2>3. /\ k = "draft" => \A i \in 7..9 : w[i] = Draft[i - 6]
        /\ k = "mtp" => \A i \in 7..9 : w[i] = Mtp[i - 6]
    BY WantedIs
  <2> HIDE DEF w
  <2> QED BY <2>1, <2>2, <2>3
<1> HIDE DEF w
<1>5. Elements(w, 1, n) \subseteq Resources /\ w[n + 1] \in Resources
  BY <1>1, <1>2 DEF Elements
<1>6. w[n + 1] = "handle" => n = 0
  BY <1>1, <1>3, <1>4
<1>7. n + 1 = 4 <=> w[n + 1] = "batch"
  BY <1>1, <1>3, <1>4
<1>8. w[n + 1] = "path" => n = 5
  BY <1>1, <1>3, <1>4
<1>9. w[n + 1] = "mtp_context" => n >= 4
  BY <1>1, <1>3
<1>10. /\ Elements(w, 1, 0) = {}
       /\ Elements(w, 1, 3) = {"handle", "model", "context"}
       /\ Elements(w, 1, 5) = {"handle", "model", "context", "batch", "pool"}
  BY <1>3 DEF Elements
<1> QED BY <1>5, <1>6, <1>7, <1>8, <1>9, <1>10 DEF w

\* What is left of a sequence behind its first n elements.
LEMMA RestOf ==
  ASSUME NEW S, NEW path \in Seq(S), NEW n \in 0..Len(path)
  PROVE  /\ n < Len(path) => /\ SubSeq(path, n + 1, Len(path)) # <<>>
                             /\ Head(SubSeq(path, n + 1, Len(path))) = path[n + 1]
                             /\ Tail(SubSeq(path, n + 1, Len(path)))
                                  = SubSeq(path, n + 1 + 1, Len(path))
         /\ n = Len(path) => SubSeq(path, n + 1, Len(path)) = <<>>
<1>1. n \in Nat /\ Len(path) \in Nat
  BY LenProperties
<1>2. ASSUME n < Len(path)
      PROVE  /\ SubSeq(path, n + 1, Len(path)) # <<>>
             /\ Head(SubSeq(path, n + 1, Len(path))) = path[n + 1]
             /\ Tail(SubSeq(path, n + 1, Len(path))) = SubSeq(path, n + 1 + 1, Len(path))
  <2>1. n + 1 \in 1..Len(path) /\ Len(path) \in (n + 1)..Len(path) /\ n + 1 <= Len(path)
    BY <1>1, <1>2
  <2>2. \A i \in (n + 1)..Len(path) : path[i] \in S
    BY <1>1, ElementOfSeq
  <2>3. Len(SubSeq(path, n + 1, Len(path))) = Len(path) - (n + 1) + 1
    BY <1>1, <2>1, <2>2, SubSeqProperties
  <2>4. SubSeq(path, n + 1, Len(path)) # <<>>
    <3> DEFINE z == SubSeq(path, n + 1, Len(path))
    <3>1. Len(z) = Len(path) - (n + 1) + 1 /\ Len(<<>>) = 0
      BY <2>3, EmptySeq
    <3> HIDE DEF z
    <3>2. z # <<>>
      BY <1>1, <1>2, <3>1
    <3> QED BY <3>2 DEF z
  <2> QED BY <2>1, <2>4, HeadTailOfSubSeq
<1>3. ASSUME n = Len(path) PROVE SubSeq(path, n + 1, Len(path)) = <<>>
  <2>1. n + 1 \in Int /\ Len(path) \in Int /\ Len(path) < n + 1
    BY <1>1, <1>3
  <2> QED BY <2>1, SubSeqEmpty
<1> QED BY <1>2, <1>3

\* A path is taken from its beginning, when it frees all that exists.
LEMMA StartFreeing ==
  ASSUME NEW path \in Paths, todo' = path,
         live' \subseteq Elements(path, 1, Len(path)) \union {"mtp_embd"}
  PROVE  \E q \in Paths : \E n \in 0..Len(q) : Freed(q, n)'
<1>1. path \in Seq(Named)
  BY PathIsSeq
<1>2. SubSeq(path, 0 + 1, Len(path)) = path
  <2>1. SubSeq(path, 1, Len(path)) = path
    BY <1>1, SubSeqFull
  <2> QED BY <2>1
<1>3. 0 \in 0..Len(path)
  BY <1>1, LenProperties
<1>4. Elements(path, 0 + 1, Len(path)) = Elements(path, 1, Len(path))
  OBVIOUS
<1>5. Freed(path, 0)'
  BY <1>2, <1>4 DEF Freed
<1> QED BY <1>3, <1>5

\* context_destroy frees everything a handle can have.
LEMMA DestroyFrees ==
  ASSUME live' \subseteq Resources, todo' = context_destroy
  PROVE  \E q \in Paths : \E n \in 0..Len(q) : Freed(q, n)'
<1>1. live' \subseteq Elements(context_destroy, 1, Len(context_destroy)) \union {"mtp_embd"}
  BY PathFrees DEF Resources
<1>2. context_destroy \in Paths
  BY DEF Paths
<1> QED BY <1>1, <1>2, StartFreeing

\* One resource is acquired or not, and the creation goes on or is given up.
LEMMA AcquireInv ==
  ASSUME ResourceInv, Acquire
  PROVE  ResourceInv'
<1> DEFINE r == Head(todo)
           w == Wanted(kind)
<1>1. kind \in Kinds /\ stage = "creating" /\ todo # <<>> /\ Backed /\ UNCHANGED kind
  BY DEF ResourceInv, Acquire
<1>2. PICK n \in 0..Len(w) : Asked(n)
  BY <1>1 DEF ResourceInv
<1>3. PICK got \in BOOLEAN :
        /\ got => Needs(r) \subseteq live
        /\ live' = IF got THEN live \union {r} ELSE live
        /\ \/ /\ ~(r \in GroupEnds => GroupOf(r) \subseteq live')
              /\ stage' = "freeing" /\ todo' = ErrorPath(r)
           \/ stage' = "freeing" /\ todo' = context_destroy
           \/ /\ r \in GroupEnds => GroupOf(r) \subseteq live'
              /\ todo' = Tail(todo) /\ stage' = stage
  BY Zenon DEF Acquire
<1>4. w \in Seq(Resources) /\ Len(w) \in Nat /\ n \in Nat
  BY <1>1, WantedIs, LenProperties
<1>5. n < Len(w) /\ n \in 0..(Len(w) - 1) /\ n + 1 \in 0..Len(w)
  <2>1. n # Len(w)
    BY <1>1, <1>2, <1>4, RestOf DEF Asked
  <2> QED BY <1>4, <2>1
<1>6. r = w[n + 1] /\ Tail(todo) = SubSeq(w, n + 1 + 1, Len(w))
  BY <1>2, <1>4, <1>5, RestOf DEF Asked
<1> DEFINE before == Elements(w, 1, n)
<1>7. /\ r \in Resources /\ before \subseteq Resources
      /\ r = "handle" => before = {}
      /\ n + 1 = 4 <=> r = "batch"
      /\ r = "batch" => before \subseteq {"handle", "model", "context"}
      /\ r = "path" => before \subseteq {"handle", "model", "context", "batch", "pool"}
      /\ r = "mtp_context" => n >= 4
  BY <1>1, <1>5, <1>6, WantedOrder
<1>8. live \subseteq before /\ (n >= 4 => "model" \in live /\ "context" \in live)
  BY <1>2 DEF Asked
<1>9. live' \subseteq Elements(w, 1, n + 1)
  <2>1. w[n + 1] \in Elements(w, 1, n + 1) /\ before \subseteq Elements(w, 1, n + 1)
    BY <1>4 DEF Elements
  <2> QED BY <1>3, <1>6, <1>8, <2>1
<1> HIDE DEF r, w, before
<1>10. live' \subseteq Resources
  BY <1>3, <1>7, <1>8
<1>11. Backed'
  <2>1. /\ r = "context" /\ got => "model" \in live
        /\ r = "draft_context" /\ got => "draft_model" \in live
        /\ r = "mtp_context" /\ got => "model" \in live /\ "context" \in live
    BY <1>3, <1>7, <1>8 DEF Needs
  <2> QED BY <1>1, <1>3, <2>1 DEF Backed
<1>12. ASSUME ~(r \in GroupEnds => GroupOf(r) \subseteq live'), todo' = ErrorPath(r)
       PROVE  \E q \in Paths : \E m \in 0..Len(q) : Freed(q, m)'
  <2>1. CASE r = "handle"
    <3>1. todo' = <<>> /\ <<>> \in Paths
      BY <1>12, <2>1 DEF ErrorPath, Paths
    <3>2. live' = {}
      BY <1>3, <1>7, <1>8, <1>12, <2>1 DEF GroupOf
    <3> QED BY <3>1, <3>2, StartFreeing
  <2>2. CASE r = "batch"
    <3>1. todo' = free_target /\ free_target \in Paths
      BY <1>12, <2>2 DEF ErrorPath, Paths
    <3>2. "batch" \notin live'
      <4>1. ~({"model", "context", "batch"} \subseteq live')
        BY <1>12, <2>2 DEF GroupOf
      <4>2. got => "context" \in live
        BY <1>3, <2>2 DEF Needs
      <4> QED BY <1>1, <1>3, <1>7, <1>8, <2>2, <4>1, <4>2 DEF Backed
    <3>3. live' \subseteq {"context", "model", "handle"}
      BY <1>3, <1>7, <1>8, <2>2, <3>2
    <3> QED BY <3>1, <3>3, PathFrees, StartFreeing
  <2>3. CASE r = "path"
    <3>1. todo' = free_named /\ free_named \in Paths
      BY <1>12, <2>3 DEF ErrorPath, Paths
    <3>2. live' \subseteq {"batch", "context", "pool", "model", "path", "handle"}
      BY <1>3, <1>7, <1>8, <2>3
    <3> QED BY <3>1, <3>2, PathFrees, StartFreeing
  <2>4. CASE r \notin {"handle", "batch", "path"}
    <3>1. todo' = context_destroy
      BY <1>12, <2>4 DEF ErrorPath
    <3> QED BY <1>10, <3>1, DestroyFrees
  <2> QED BY <2>1, <2>2, <2>3, <2>4
<1>13. ASSUME r \in GroupEnds => GroupOf(r) \subseteq live', todo' = Tail(todo)
       PROVE  Asked(n + 1)'
  <2>1. n + 1 >= 4 => "model" \in live' /\ "context" \in live'
    <3>1. CASE n >= 4
      BY <1>3, <1>8, <3>1
    <3>2. CASE n + 1 = 4
      <4>1. GroupOf("batch") \subseteq live'
        BY <1>7, <1>13, <3>2 DEF GroupEnds
      <4> QED BY <4>1 DEF GroupOf
    <3> QED BY <1>4, <3>1, <3>2
  <2>2. w = Wanted(kind')
    BY <1>1 DEF w
  <2> QED BY <1>6, <1>9, <1>13, <2>1, <2>2 DEF Asked
<1>14. stage' \in {"creating", "freeing"}
  BY <1>1, <1>3
<1>15. stage' = "freeing" => \E q \in Paths : \E m \in 0..Len(q) : Freed(q, m)'
  BY <1>1, <1>3, <1>10, <1>12, DestroyFrees
<1>16. stage' = "creating" => \E m \in 0..Len(Wanted(kind')) : Asked(m)'
  <2>1. stage' = "creating" => Asked(n + 1)'
    BY <1>3, <1>13
  <2> QED BY <1>1, <1>5, <2>1 DEF w
<1> QED BY <1>1, <1>10, <1>11, <1>14, <1>15, <1>16 DEF ResourceInv

\* One resource is freed, or the path is at its end.
LEMMA FreeInv ==
  ASSUME ResourceInv, Free
  PROVE  ResourceInv'
<1>1. stage = "freeing" /\ Backed /\ live \subseteq Resources
  BY DEF Free, ResourceInv
<1>2. PICK path \in Paths : \E n \in 0..Len(path) : Freed(path, n)
  BY <1>1 DEF ResourceInv
<1>3. PICK n \in 0..Len(path) : Freed(path, n)
  BY <1>2
<1>4. path \in Seq(Named) /\ Len(path) \in Nat /\ n \in Nat
  BY PathIsSeq, LenProperties
<1>5. CASE n < Len(path)
  <2> DEFINE r == path[n + 1]
  <2>1. todo # <<>> /\ Head(todo) = r /\ Tail(todo) = SubSeq(path, n + 1 + 1, Len(path))
    BY <1>3, <1>4, <1>5, RestOf DEF Freed
  <2>2. /\ stage' = "freeing" /\ todo' = Tail(todo) /\ live' \subseteq live \ {r}
        /\ live \ {r, "mtp_embd"} \subseteq live'
    BY <2>1 DEF Free
  <2>3. ASSUME NEW x \in live', x # "mtp_embd" PROVE \E i \in 1..Len(path) : x = path[i] /\ i > n + 1
    <3>1. x \in live /\ x # r
      BY <2>2, <2>3
    <3>2. PICK i \in (n + 1)..Len(path) : x = path[i]
      BY <1>3, <2>3, <3>1 DEF Freed, Elements
    <3>3. i # n + 1
      BY <3>1, <3>2
    <3> QED BY <1>4, <3>2, <3>3
  <2>4. n + 1 \in 1..Len(path) /\ n + 1 \in 0..Len(path)
    BY <1>4, <1>5
  <2>5. Freed(path, n + 1)'
    <3>1. live' \subseteq Elements(path, n + 1 + 1, Len(path)) \union {"mtp_embd"}
      BY <1>4, <2>3 DEF Elements
    <3> QED BY <2>1, <2>2, <3>1 DEF Freed
  <2>6. Backed'
    <3>1. ASSUME "context" \in live', r = "model" PROVE FALSE
      BY <1>4, <2>3, <2>4, <3>1, PathOrder
    <3>2. ASSUME "draft_context" \in live', r = "draft_model" PROVE FALSE
      BY <1>4, <2>3, <2>4, <3>2, PathOrder
    <3>3. ASSUME "mtp_context" \in live', r \in {"context", "model"} PROVE FALSE
      BY <1>4, <2>3, <2>4, <3>3, PathOrder
    <3> HIDE DEF r
    <3> QED BY <1>1, <2>2, <3>1, <3>2, <3>3 DEF Backed
  <2> QED BY <1>1, <2>2, <2>4, <2>5, <2>6 DEF ResourceInv
<1>6. CASE n = Len(path)
  <2>1. todo = <<>>
    BY <1>3, <1>4, <1>6, RestOf DEF Freed
  <2>2. stage' = "none" /\ UNCHANGED live
    BY <2>1 DEF Free
  <2>3. live \subseteq {"mtp_embd"}
    <3>1. Elements(path, n + 1, Len(path)) = {}
      BY <1>4, <1>6 DEF Elements
    <3> QED BY <1>3, <3>1 DEF Freed
  <2> QED BY <1>1, <2>2, <2>3 DEF ResourceInv, Backed
<1> QED BY <1>4, <1>5, <1>6

\* Nothing else touches a handle's resources.
LEMMA ResourceInvariance == FastSpec => []ResourceInv
<1>1. FastInit => ResourceInv
  BY DEF FastInit, ResourceInv, Backed
<1>2. ResourceInv /\ [FastNext]_fastVars => ResourceInv'
  <2> SUFFICES ASSUME ResourceInv, [FastNext]_fastVars PROVE ResourceInv'
    OBVIOUS
  <2>1. CASE context_create
    <3>1. CASE UNCHANGED resources
      BY <2>1, <3>1 DEF context_create, resources, ResourceInv, Backed
    <3>2. CASE stage' = "crashed" /\ UNCHANGED <<kind, todo, live>>
      BY <2>1, <3>2 DEF context_create, ResourceInv, Backed
    <3>3. CASE /\ kind' \in Kinds /\ stage' = "creating" /\ todo' = Wanted(kind') /\ live' = {}
      <4>1. Wanted(kind') \in Seq(Resources) /\ Len(Wanted(kind')) \in Nat
        BY <3>3, WantedIs, LenProperties
      <4>2. SubSeq(Wanted(kind'), 0 + 1, Len(Wanted(kind'))) = Wanted(kind')
        <5>1. SubSeq(Wanted(kind'), 1, Len(Wanted(kind'))) = Wanted(kind')
          BY <4>1, SubSeqFull
        <5> QED BY <5>1
      <4>3. Asked(0)' /\ 0 \in 0..Len(Wanted(kind'))
        BY <3>3, <4>1, <4>2 DEF Asked
      <4> QED BY <3>3, <4>3 DEF ResourceInv, Backed
    <3> QED BY <2>1, <3>1, <3>2, <3>3 DEF context_create, Kinds
  <2>2. CASE Acquire
    BY <2>2, AcquireInv
  <2>3. CASE Free
    BY <2>3, FreeInv
  <2>4. CASE Warm
    BY <2>4 DEF Warm, ResourceInv, Backed
  <2>5. CASE Close
    <3>1. /\ stage' = "freeing" /\ todo' = context_destroy /\ UNCHANGED live
          /\ live' \subseteq Resources
      BY <2>5 DEF Close, ResourceInv
    <3>2. \E q \in Paths : \E m \in 0..Len(q) : Freed(q, m)'
      BY <3>1, DestroyFrees
    <3> QED BY <3>1, <3>2 DEF ResourceInv, Backed
  <2>6. CASE UNCHANGED resources
    BY <2>6 DEF resources, ResourceInv, Backed, Asked, Freed
  <2>7. CASE context_decode \/ context_decode_greedy
    BY <2>6, <2>7 DEF context_decode, context_decode_greedy, Step, Idle
  <2>8. CASE step_fails \/ round_fails \/ context_reset
    BY <2>6, <2>8 DEF step_fails, round_fails, context_reset, Idle
  <2>9. ASSUME NEW capacity \in Capacities, NEW drafts \in [1..SpecMax -> Tokens],
               decode_speculative(capacity, drafts)
        PROVE  ResourceInv'
    BY <2>6, <2>9 DEF decode_speculative, Idle
  <2>10. CASE UNCHANGED fastVars
    BY <2>6, <2>10 DEF fastVars
  <2> QED BY <2>1, <2>2, <2>3, <2>4, <2>5, <2>7, <2>8, <2>9, <2>10 DEF FastNext
<1> QED BY <1>1, <1>2, PTL DEF FastSpec

\* On every error path and when a handle is closed, a context is freed before the
\* model it was made from and the MTP context before the target it reads, and the
\* handle leaves nothing behind but the embeddings of an MTP batch without tokens.
THEOREM ReleasedInOrder == FastSpec => []HandleReleased
<1>1. ResourceInv => HandleReleased
  BY DEF ResourceInv, Backed, HandleReleased
<1> QED BY ResourceInvariance, <1>1, PTL

=============================================================================
