-------------------------- MODULE DeviceSessionProofs --------------------------
(* For any vocabulary, context, prompt length, convolution width and number of   *)
(* failing calls: what the devices keep is the kept sequence, greedy rounds      *)
(* choose what single steps would, and the draft starts from the last kept row.  *)
EXTENDS DeviceSession, SequenceTheorems, WellFoundedInduction, FiniteSetTheorems, TLAPS

--------------------------------------------------------------------------------
(* Sequences.                                                                    *)

\* A beginning of a sequence.
Prefix(s, n) == SubSeq(s, 1, n)

\* It has the length asked for and the same elements.
LEMMA PrefixProperties ==
  ASSUME NEW S, NEW s \in Seq(S), NEW n \in 0..Len(s)
  PROVE  /\ Prefix(s, n) \in Seq(S) /\ Len(Prefix(s, n)) = n
         /\ \A i \in 1..n : Prefix(s, n)[i] = s[i]
<1>1. Len(s) \in Nat /\ \A i \in 1..Len(s) : s[i] \in S
  BY LenProperties, ElementOfSeq
<1>2. \A i \in 1..n : s[i] \in S
  BY <1>1
<1>3. /\ SubSeq(s, 1, n) \in Seq(S) /\ Len(SubSeq(s, 1, n)) = IF 1 <= n THEN n - 1 + 1 ELSE 0
      /\ \A i \in 1..(n - 1 + 1) : SubSeq(s, 1, n)[i] = s[1 + i - 1]
  BY <1>1, <1>2, SubSeqProperties
<1> QED BY <1>1, <1>3 DEF Prefix

\* A beginning and one element more.
LEMMA PrefixNext ==
  ASSUME NEW S, NEW s \in Seq(S), NEW n \in 0..(Len(s) - 1)
  PROVE  Prefix(s, n + 1) = Append(Prefix(s, n), s[n + 1])
<1>1. Len(s) \in Nat /\ n \in 0..Len(s) /\ n + 1 \in 0..Len(s) /\ n + 1 \in 1..Len(s)
  BY LenProperties
<1>2. s[n + 1] \in S
  BY <1>1, ElementOfSeq
<1> DEFINE p == Prefix(s, n)
           q == Prefix(s, n + 1)
<1>3. /\ p \in Seq(S) /\ Len(p) = n /\ \A i \in 1..n : p[i] = s[i]
      /\ q \in Seq(S) /\ Len(q) = n + 1 /\ \A i \in 1..(n + 1) : q[i] = s[i]
  BY <1>1, PrefixProperties
<1> HIDE DEF p, q
<1>4. /\ Append(p, s[n + 1]) \in Seq(S) /\ Len(Append(p, s[n + 1])) = n + 1
      /\ \A i \in 1..n : Append(p, s[n + 1])[i] = p[i]
      /\ Append(p, s[n + 1])[n + 1] = s[n + 1]
  BY <1>2, <1>3, AppendProperties
<1>5. \A i \in 1..(n + 1) : i \in 1..n \/ i = n + 1
  BY <1>1
<1>6. \A i \in 1..(n + 1) : q[i] = Append(p, s[n + 1])[i]
  BY <1>3, <1>4, <1>5
<1>7. q = Append(p, s[n + 1])
  BY <1>3, <1>4, <1>6, SeqEqual
<1> QED BY <1>7 DEF p, q

\* A beginning of a beginning.
LEMMA PrefixOfPrefix ==
  ASSUME NEW S, NEW s \in Seq(S), NEW n \in 0..Len(s), NEW m \in 0..n
  PROVE  Prefix(Prefix(s, n), m) = Prefix(s, m)
<1>1. Len(s) \in Nat /\ m \in 0..Len(s)
  BY LenProperties
<1> DEFINE p == Prefix(s, n)
<1>2. p \in Seq(S) /\ Len(p) = n /\ \A i \in 1..n : p[i] = s[i]
  BY PrefixProperties
<1> HIDE DEF p
<1>3. Prefix(p, m) \in Seq(S) /\ Len(Prefix(p, m)) = m /\ \A i \in 1..m : Prefix(p, m)[i] = p[i]
  BY <1>2, PrefixProperties
<1>4. Prefix(s, m) \in Seq(S) /\ Len(Prefix(s, m)) = m /\ \A i \in 1..m : Prefix(s, m)[i] = s[i]
  BY <1>1, PrefixProperties
<1>5. \A i \in 1..m : Prefix(p, m)[i] = Prefix(s, m)[i]
  BY <1>1, <1>2, <1>3, <1>4
<1>6. Prefix(p, m) = Prefix(s, m)
  BY <1>3, <1>4, <1>5, SeqEqual
<1> QED BY <1>6 DEF p

\* A sequence and a beginning of the one behind it.
LEMMA PrefixOfConcat ==
  ASSUME NEW S, NEW s \in Seq(S), NEW t \in Seq(S), NEW n \in 0..Len(t)
  PROVE  s \o Prefix(t, n) = Prefix(s \o t, Len(s) + n)
<1>1. Len(s) \in Nat /\ Len(t) \in Nat
  BY LenProperties
<1> DEFINE p == Prefix(t, n)
           w == s \o t
           m == Len(s)
<1>2. p \in Seq(S) /\ Len(p) = n /\ \A i \in 1..n : p[i] = t[i]
  BY PrefixProperties
<1>3. /\ w \in Seq(S) /\ Len(w) = m + Len(t)
      /\ \A i \in 1..(m + Len(t)) : w[i] = IF i <= m THEN s[i] ELSE t[i - m]
  BY ConcatProperties
<1> HIDE DEF p
<1>4. /\ s \o p \in Seq(S) /\ Len(s \o p) = m + n
      /\ \A i \in 1..(m + n) : (s \o p)[i] = IF i <= m THEN s[i] ELSE p[i - m]
  BY <1>2, ConcatProperties
<1> HIDE DEF w
<1>5. m + n \in 0..Len(w)
  BY <1>1, <1>3
<1>6. Prefix(w, m + n) \in Seq(S) /\ Len(Prefix(w, m + n)) = m + n
      /\ \A i \in 1..(m + n) : Prefix(w, m + n)[i] = w[i]
  BY <1>3, <1>5, PrefixProperties
<1> DEFINE v == s \o p
           u == Prefix(w, m + n)
<1>7. /\ v \in Seq(S) /\ Len(v) = m + n /\ u \in Seq(S) /\ Len(u) = m + n
      /\ \A i \in 1..(m + n) : v[i] = IF i <= m THEN s[i] ELSE p[i - m]
      /\ \A i \in 1..(m + n) : u[i] = w[i]
      /\ m \in Nat /\ Len(t) \in Nat /\ n \in 0..Len(t)
  BY <1>1, <1>4, <1>6
<1> HIDE DEF v, u, m
<1>8. ASSUME NEW i \in 1..(m + n) PROVE v[i] = u[i]
  <2>1. CASE i <= m
    BY <1>3, <1>7, <2>1
  <2>2. CASE i > m
    <3>1. i - m \in 1..n /\ i \in 1..(m + Len(t))
      BY <1>7, <2>2
    <3>2. v[i] = p[i - m] /\ u[i] = t[i - m]
      BY <1>3, <1>7, <2>2, <3>1
    <3> QED BY <1>2, <3>1, <3>2
  <2> QED BY <1>7, <2>1, <2>2
<1>9. v = u
  BY <1>7, <1>8, SeqEqual
<1> QED BY <1>9 DEF v, u, w, p, m

--------------------------------------------------------------------------------
(* The short convolution.                                                        *)

\* A sequence of tokens holds no garbage.
LEMMA TokensAreClean ==
  /\ Garbage \notin Tokens /\ Tokens \subseteq Elements
  /\ \A s \in Seq(Tokens) : s \in Seq(Elements) /\ Garbage \notin Range(s)
  /\ Wrong \in Seq(Elements) /\ Wrong # <<>> /\ Garbage \in Range(Wrong)
<1>1. Garbage \notin Tokens /\ Tokens \subseteq Elements
  BY DeviceAssumption DEF Garbage, Elements
<1>2. ASSUME NEW s \in Seq(Tokens) PROVE s \in Seq(Elements) /\ Garbage \notin Range(s)
  <2>1. s \in Seq(Elements)
    BY <1>1, SeqMonotonic
  <2>2. \A i \in DOMAIN s : s[i] \in Tokens
    BY ElementOfSeq, LenProperties
  <2> QED BY <1>1, <2>1, <2>2 DEF Range
<1>3. Wrong \in Seq(Elements) /\ Wrong # <<>> /\ Garbage \in Range(Wrong)
  BY DEF Wrong, Elements, Range
<1> QED BY <1>1, <1>2, <1>3

\* The window is the end of the history, ConvKernel - 1 elements of it if there are as many.
LEMMA WindowProperties ==
  ASSUME NEW S, NEW h \in Seq(S)
  PROVE  /\ Window(h) \in Seq(S)
         /\ Len(Window(h)) = IF Len(h) < ConvKernel THEN Len(h) ELSE ConvKernel - 1
         /\ \A i \in 1..Len(Window(h)) : Window(h)[i] = h[Len(h) - Len(Window(h)) + i]
<1> DEFINE n == Len(h)
           from == IF n < ConvKernel THEN 1 ELSE n - ConvKernel + 2
<1>1. /\ n \in Nat /\ ConvKernel \in Nat /\ ConvKernel >= 2
      /\ \A i \in 1..n : h[i] \in S
  BY LenProperties, ElementOfSeq, DeviceAssumption
<1>2. Window(h) = SubSeq(h, from, n)
  BY DEF Window
<1> DEFINE w == SubSeq(h, from, n)
<1> HIDE DEF n
<1>3. from \in Int /\ n \in Int /\ \A i \in from..n : h[i] \in S
  BY <1>1
<1>4. /\ w \in Seq(S) /\ Len(w) = IF from <= n THEN n - from + 1 ELSE 0
      /\ \A i \in 1..(n - from + 1) : w[i] = h[from + i - 1]
  BY <1>3, SubSeqProperties
<1> HIDE DEF w
<1>5. Len(w) = IF n < ConvKernel THEN n ELSE ConvKernel - 1
  BY <1>1, <1>4
<1>6. \A i \in 1..Len(w) : w[i] = h[n - Len(w) + i]
  <2> SUFFICES ASSUME NEW i \in 1..Len(w) PROVE w[i] = h[n - Len(w) + i]
    OBVIOUS
  <2>1. i \in 1..(n - from + 1) /\ from + i - 1 = n - Len(w) + i
    BY <1>1, <1>5
  <2> QED BY <1>4, <2>1
<1> QED BY <1>2, <1>4, <1>5, <1>6 DEF w, n

\* Nothing has an empty window.
LEMMA WindowOfNothing == Window(<<>>) = <<>>
<1> DEFINE w == Window(<<>>)
<1>1. <<>> \in Seq(Tokens) /\ Len(<<>>) = 0
  BY EmptySeq
<1>2. w \in Seq(Tokens) /\ Len(w) = IF Len(<<>>) < ConvKernel THEN Len(<<>>) ELSE ConvKernel - 1
  BY <1>1, WindowProperties
<1> HIDE DEF w
<1>3. Len(w) = 0
  BY <1>1, <1>2, DeviceAssumption
<1>4. w = <<>>
  BY <1>2, <1>3, EmptySeq
<1> QED BY <1>4 DEF w

\* Shifting a token into the window of a history gives the window behind it.
LEMMA WindowNext ==
  ASSUME NEW h \in Seq(Tokens), NEW t \in Tokens
  PROVE  ConvShift(Window(h), Append(h, t)) = Window(Append(h, t))
<1> DEFINE row == Append(h, t)
           n == Len(h)
           w == Window(h)
           base == IF Len(w) = ConvKernel - 1 THEN Tail(w) ELSE w
           k == Len(base)
<1>0. n \in Nat /\ ConvKernel \in Nat /\ ConvKernel >= 2
  BY LenProperties, DeviceAssumption
<1>1. /\ row \in Seq(Tokens) /\ Len(row) = n + 1
      /\ \A i \in 1..n : row[i] = h[i]
      /\ row[n + 1] = t
  BY AppendProperties
<1>2. /\ w \in Seq(Tokens) /\ Len(w) = IF n < ConvKernel THEN n ELSE ConvKernel - 1
      /\ \A i \in 1..Len(w) : w[i] = h[n - Len(w) + i]
  BY WindowProperties
<1>4. ConvShift(w, row) = Append(base, t)
  BY <1>1, TokensAreClean DEF ConvShift, Last
<1> HIDE DEF row, n, w
<1>3. /\ Window(row) \in Seq(Tokens)
      /\ Len(Window(row)) = IF n + 1 < ConvKernel THEN n + 1 ELSE ConvKernel - 1
      /\ \A i \in 1..Len(Window(row)) : Window(row)[i] = row[n + 1 - Len(Window(row)) + i]
  <2> DEFINE v == Window(row)
  <2>1. /\ v \in Seq(Tokens) /\ Len(v) = IF Len(row) < ConvKernel THEN Len(row) ELSE ConvKernel - 1
        /\ \A i \in 1..Len(v) : v[i] = row[Len(row) - Len(v) + i]
    BY <1>1, WindowProperties
  <2> HIDE DEF v
  <2>2. Len(v) \in Nat
    BY <2>1, LenProperties
  <2>3. \A i \in 1..Len(v) : v[i] = row[n + 1 - Len(v) + i]
    BY <1>0, <1>1, <2>1, <2>2
  <2>4. Len(v) = IF n + 1 < ConvKernel THEN n + 1 ELSE ConvKernel - 1
    BY <1>1, <2>1
  <2> QED BY <2>1, <2>3, <2>4 DEF v
<1>5. /\ base \in Seq(Tokens)
      /\ k = IF n < ConvKernel - 1 THEN n ELSE ConvKernel - 2
      /\ \A i \in 1..k : base[i] = h[n - k + i]
  <2>1. CASE Len(w) # ConvKernel - 1
    <3>1. base = w /\ n < ConvKernel - 1 /\ Len(w) = n
      BY <1>0, <1>2, <2>1
    <3> HIDE DEF base
    <3> QED BY <1>0, <1>2, <3>1
  <2>2. CASE Len(w) = ConvKernel - 1
    <3>1. base = Tail(w) /\ w # <<>> /\ ~(n < ConvKernel - 1)
      BY <1>0, <1>2, <2>2
    <3>2. /\ Tail(w) \in Seq(Tokens) /\ Len(Tail(w)) = ConvKernel - 2
          /\ \A i \in 1..Len(Tail(w)) : Tail(w)[i] = w[i + 1]
      BY <1>2, <2>2, <3>1, <1>0, HeadTailProperties
    <3> HIDE DEF base
    <3>3. ASSUME NEW i \in 1..k PROVE base[i] = h[n - k + i]
      <4>1. k = ConvKernel - 2 /\ base[i] = w[i + 1] /\ i + 1 \in 1..Len(w)
        BY <1>0, <2>2, <3>1, <3>2
      <4>2. w[i + 1] = h[n - Len(w) + (i + 1)] /\ n - Len(w) + (i + 1) = n - k + i
        BY <1>0, <1>2, <2>2, <4>1
      <4> QED BY <4>1, <4>2
    <3> QED BY <3>1, <3>2, <3>3
  <2> QED BY <2>1, <2>2
<1> HIDE DEF base
<1>6. /\ Append(base, t) \in Seq(Tokens) /\ Len(Append(base, t)) = k + 1
      /\ \A i \in 1..k : Append(base, t)[i] = base[i]
      /\ Append(base, t)[k + 1] = t
  BY <1>5, AppendProperties
<1> HIDE DEF k
<1>7. k \in Nat /\ k <= n /\ Len(Window(row)) = k + 1
  BY <1>0, <1>3, <1>5
<1>8. ASSUME NEW i \in 1..(k + 1) PROVE Append(base, t)[i] = Window(row)[i]
  <2>1. Window(row)[i] = row[n - k + i]
    <3>1. i \in 1..Len(Window(row)) /\ n + 1 - Len(Window(row)) + i = n - k + i
      BY <1>0, <1>7
    <3> QED BY <1>3, <3>1
  <2>2. CASE i = k + 1
    BY <1>0, <1>1, <1>6, <1>7, <2>1, <2>2
  <2>3. CASE i \in 1..k
    <3>1. n - k + i \in 1..n
      BY <1>0, <1>7, <2>3
    <3> QED BY <1>1, <1>5, <1>6, <2>1, <2>3, <3>1
  <2>4. i = k + 1 \/ i \in 1..k
    BY <1>7
  <2> QED BY <2>2, <2>3, <2>4
<1>9. Append(base, t) = Window(row)
  BY <1>3, <1>6, <1>7, <1>8, SeqEqual
<1> QED BY <1>4, <1>9 DEF row, w

--------------------------------------------------------------------------------
(* Induction over a set of numbers, and what the batched kernels compute.  The   *)
(* library's induction theorem takes a predicate; its theorem about well-founded *)
(* relations takes a set, which is enough.                                       *)

\* A set with zero and every successor holds all numbers.
LEMMA NatSet ==
  ASSUME NEW S, 0 \in S, \A n \in Nat : n \in S => n + 1 \in S
  PROVE  Nat \subseteq S
<1> DEFINE R == {ss \in Nat \X Nat : ss[1] < ss[2]}
           T == Nat \ S
<1>1. IsWellFoundedOn(R, Nat)
  BY NatLessThanWellFounded DEF OpToRel
<1> SUFFICES ASSUME T # {} PROVE FALSE
  OBVIOUS
<1> HIDE DEF R
<1>2. PICK x \in T : \A y \in T : ~(<<y, x>> \in R)
  BY <1>1, WFMin
<1>3. \A y \in T : ~(y < x)
  BY <1>2 DEF R
<1>4. x \in Nat /\ x # 0 /\ x \notin S
  OBVIOUS
<1>5. x - 1 \in Nat /\ x - 1 < x
  BY <1>4
<1>6. x - 1 \in S
  BY <1>3, <1>5
<1>7. x - 1 + 1 = x
  BY <1>4
<1> QED BY <1>4, <1>5, <1>6, <1>7

\* The recursion of recurrent_run_batch, up to row m.
Chain(f, m, layer, rows) ==
    f = [i \in 0..m |->
            IF i = 0 THEN [layer |-> layer, outs |-> <<>>] ELSE BatchRow(f[i - 1], rows[i])]

\* There is such a recursion of every length.
LEMMA ChainExists ==
  ASSUME NEW layer, NEW rows, NEW n \in Nat
  PROVE  \E f : Chain(f, n, layer, rows)
<1> DEFINE S == {m \in Nat : \E f : Chain(f, m, layer, rows)}
<1>1. 0 \in S
  <2> DEFINE f == [i \in 0..0 |-> [layer |-> layer, outs |-> <<>>]]
  <2>1. f = [i \in 0..0 |->
               IF i = 0 THEN [layer |-> layer, outs |-> <<>>] ELSE BatchRow(f[i - 1], rows[i])]
    OBVIOUS
  <2>2. Chain(f, 0, layer, rows)
    BY <2>1 DEF Chain
  <2> QED BY <2>2
<1>2. ASSUME NEW m \in Nat, m \in S PROVE m + 1 \in S
  <2>1. PICK f : Chain(f, m, layer, rows)
    BY <1>2
  <2> DEFINE g == [i \in 0..(m + 1) |-> IF i <= m THEN f[i] ELSE BatchRow(f[m], rows[m + 1])]
  <2>2. \A i \in 0..(m + 1) :
           g[i] = IF i = 0 THEN [layer |-> layer, outs |-> <<>>] ELSE BatchRow(g[i - 1], rows[i])
    <3> TAKE i \in 0..(m + 1)
    <3>1. CASE i = 0
      BY <2>1, <3>1 DEF Chain
    <3>2. CASE i # 0 /\ i <= m
      <4>1. g[i] = f[i] /\ g[i - 1] = f[i - 1]
        BY <3>2
      <4>2. f[i] = BatchRow(f[i - 1], rows[i])
        BY <2>1, <3>2 DEF Chain
      <4> QED BY <3>2, <4>1, <4>2
    <3>3. CASE i = m + 1
      <4>1. g[i] = BatchRow(f[m], rows[i]) /\ g[i - 1] = f[m] /\ i # 0
        BY <3>3
      <4> QED BY <4>1
    <3> QED BY <3>1, <3>2, <3>3
  <2>3. g = [i \in 0..(m + 1) |->
               IF i = 0 THEN [layer |-> layer, outs |-> <<>>] ELSE BatchRow(g[i - 1], rows[i])]
    BY <2>2
  <2>4. Chain(g, m + 1, layer, rows)
    BY <2>3 DEF Chain
  <2> QED BY <2>4
<1>3. Nat \subseteq S
  <2> HIDE DEF S
  <2> QED BY <1>1, <1>2, NatSet
<1> QED BY <1>3

\* A batch is what the chain of its rows ends in.
Runs(f, layer, rows) ==
    /\ recurrent_run_batch(layer, rows) = f[Len(rows)]
    /\ f[0] = [layer |-> layer, outs |-> <<>>]
    /\ \A i \in 1..Len(rows) : f[i] = BatchRow(f[i - 1], rows[i])

\* There is one for every batch.
LEMMA RunBatch ==
  ASSUME NEW layer, NEW rows, Len(rows) \in Nat
  PROVE  \E f : Runs(f, layer, rows)
<1>1. PICK g : Chain(g, Len(rows), layer, rows)
  BY ChainExists
<1> DEFINE f == CHOOSE f : Chain(f, Len(rows), layer, rows)
<1>2. Chain(f, Len(rows), layer, rows)
  BY <1>1
<1>3. recurrent_run_batch(layer, rows) = f[Len(rows)]
  BY DEF recurrent_run_batch, Chain
<1> HIDE DEF f
<1>4. f[0] = [layer |-> layer, outs |-> <<>>]
  BY <1>2 DEF Chain
<1>5. \A i \in 1..Len(rows) : f[i] = BatchRow(f[i - 1], rows[i])
  BY <1>2 DEF Chain
<1> QED BY <1>3, <1>4, <1>5 DEF Runs

--------------------------------------------------------------------------------
(* One row through a recurrent layer.                                            *)

Rows == Seq(Elements) \ {<<>>}

\* A layer that stands for the tokens s.
Exact(layer, s) == layer.gdn = s /\ layer.conv = Window(s)

\* A row yields itself or Wrong, and a window of elements.
LEMMA KernelsTyped ==
  ASSUME NEW layer \in LayerState, NEW row \in Rows
  PROVE  /\ GdnStep(layer, row) \in Rows
         /\ GdnStep(layer, row) = row \/ GdnStep(layer, row) = Wrong
         /\ ConvShift(layer.conv, row) \in Seq(Elements)
<1>1. Wrong \in Rows /\ Wrong \in Seq(Elements)
  BY TokensAreClean DEF Rows
<1>2. GdnStep(layer, row) = row \/ GdnStep(layer, row) = Wrong
  BY DEF GdnStep
<1>3. row \in Seq(Elements) /\ Len(row) \in 1..Len(row) /\ Last(row) = row[Len(row)]
  BY EmptySeq, LenProperties DEF Rows, Last
<1>4. Last(row) \in Elements
  BY <1>3, ElementOfSeq
<1>5. layer.conv \in Seq(Elements)
  BY DEF LayerState
<1>6. ASSUME Len(layer.conv) = ConvKernel - 1 PROVE Tail(layer.conv) \in Seq(Elements)
  <2>1. layer.conv # <<>>
    BY <1>6, DeviceAssumption, EmptySeq
  <2> QED BY <1>5, <2>1, HeadTailProperties
<1>7. ASSUME NEW base \in Seq(Elements) PROVE Append(base, Last(row)) \in Seq(Elements)
  BY <1>4, AppendProperties
<1>8. ConvShift(layer.conv, row) \in Seq(Elements)
  <2> DEFINE base == IF Len(layer.conv) = ConvKernel - 1 THEN Tail(layer.conv) ELSE layer.conv
  <2>1. base \in Seq(Elements)
    BY <1>5, <1>6
  <2>2. ConvShift(layer.conv, row) = IF Garbage \in Range(row) THEN Wrong ELSE Append(base, Last(row))
    BY DEF ConvShift
  <2> HIDE DEF base
  <2> QED BY <1>1, <1>7, <2>1, <2>2
<1> QED BY <1>1, <1>2, <1>8

\* The row behind the tokens of a layer takes it one token further.
LEMMA KernelsExact ==
  ASSUME NEW layer, NEW s \in Seq(Tokens), NEW t \in Tokens, Exact(layer, s)
  PROVE  /\ GdnStep(layer, Append(s, t)) = Append(s, t)
         /\ ConvShift(layer.conv, Append(s, t)) = Window(Append(s, t))
<1> DEFINE row == Append(s, t)
<1>1. /\ row \in Seq(Tokens) /\ Len(row) = Len(s) + 1 /\ Len(s) \in Nat
      /\ \A i \in 1..Len(s) : row[i] = s[i]
  BY AppendProperties, LenProperties
<1>2. Front(row) = Prefix(row, Len(s))
  BY <1>1 DEF Front, Prefix
<1> HIDE DEF row
<1>3. Len(s) \in 0..Len(row)
  BY <1>1
<1>4. /\ Prefix(row, Len(s)) \in Seq(Tokens) /\ Len(Prefix(row, Len(s))) = Len(s)
      /\ \A i \in 1..Len(s) : Prefix(row, Len(s))[i] = row[i]
  BY <1>1, <1>3, PrefixProperties
<1>5. Front(row) = s
  BY <1>1, <1>2, <1>4, SeqEqual
<1>6. Garbage \notin Range(row)
  BY <1>1, TokensAreClean
<1>7. GdnStep(layer, row) = row
  BY <1>5, <1>6 DEF GdnStep, Exact
<1>8. ConvShift(layer.conv, row) = Window(row)
  BY WindowNext DEF Exact, row
<1> QED BY <1>7, <1>8 DEF row

\* One row of a batch: the new state, and which checkpoint it is copied to.
Stepped(layer, outs, row, b) ==
    /\ b = [layer |-> b.layer, outs |-> Append(outs, GdnStep(layer, row))]
    /\ b.layer =
         [conv |-> ConvShift(layer.conv, row), gdn |-> GdnStep(layer, row),
          conv_first |-> IF Len(outs) = 0 THEN ConvShift(layer.conv, row) ELSE layer.conv_first,
          gdn_first |-> IF Len(outs) = 0 THEN GdnStep(layer, row) ELSE layer.gdn_first,
          conv_second |-> IF Len(outs) = 1 THEN ConvShift(layer.conv, row) ELSE layer.conv_second,
          gdn_second |-> IF Len(outs) = 1 THEN GdnStep(layer, row) ELSE layer.gdn_second]
    /\ b.layer \in LayerState

\* That is what the two batched kernels do with it.
LEMMA BatchRowFields ==
  ASSUME NEW layer \in LayerState, NEW outs \in Seq(Rows), NEW row \in Rows
  PROVE  Stepped(layer, outs, row, BatchRow([layer |-> layer, outs |-> outs], row))
<1> DEFINE acc == [layer |-> layer, outs |-> outs]
<1>1. acc.layer = layer /\ acc.outs = outs
  OBVIOUS
<1> DEFINE g == GdnStep(layer, row)
           c == ConvShift(layer.conv, row)
           i == Len(outs)
           st == gdn_fused_batch(layer, row, i)
<1>2. g \in Rows /\ c \in Seq(Elements)
  BY KernelsTyped
<1>3. st = [layer EXCEPT !.gdn = g, !.gdn_first = IF i = 0 THEN g ELSE layer.gdn_first,
                         !.gdn_second = IF i = 1 THEN g ELSE layer.gdn_second]
  BY DEF gdn_fused_batch
<1> HIDE DEF g, c, st
<1>4. /\ st \in LayerState /\ st.gdn = g /\ st.conv = layer.conv
      /\ st.gdn_first = IF i = 0 THEN g ELSE layer.gdn_first
      /\ st.gdn_second = IF i = 1 THEN g ELSE layer.gdn_second
      /\ st.conv_first = layer.conv_first /\ st.conv_second = layer.conv_second
  BY <1>2, <1>3 DEF LayerState, Rows
<1> DEFINE w == conv_silu_batch(st, row, i)
<1>5. w = [st EXCEPT !.conv = ConvShift(st.conv, row),
                     !.conv_first = IF i = 0 THEN ConvShift(st.conv, row) ELSE st.conv_first,
                     !.conv_second = IF i = 1 THEN ConvShift(st.conv, row) ELSE st.conv_second]
  BY DEF conv_silu_batch
<1>6. ConvShift(st.conv, row) = c
  BY <1>4 DEF c
<1> HIDE DEF w
<1>7. w = [conv |-> c, gdn |-> g,
           conv_first |-> IF i = 0 THEN c ELSE layer.conv_first,
           gdn_first |-> IF i = 0 THEN g ELSE layer.gdn_first,
           conv_second |-> IF i = 1 THEN c ELSE layer.conv_second,
           gdn_second |-> IF i = 1 THEN g ELSE layer.gdn_second]
  BY <1>4, <1>5, <1>6 DEF LayerState
<1>8. w \in LayerState
  BY <1>2, <1>7 DEF LayerState, Rows
<1>9. BatchRow(acc, row) = [layer |-> w, outs |-> Append(outs, g)]
  <2>1. BatchRow(acc, row) = [layer |-> w, outs |-> Append(outs, st.gdn)]
    BY <1>1 DEF BatchRow, w, st
  <2> QED BY <1>4, <2>1
<1>10. BatchRow(acc, row).layer = w
  BY <1>9
<1> QED BY <1>7, <1>8, <1>9, <1>10 DEF g, c, Stepped

\* One row of a batch keeps the types and adds one result.
Partial == [layer : LayerState, outs : Seq(Rows)]

LEMMA BatchRowTyped ==
  ASSUME NEW layer \in LayerState, NEW outs \in Seq(Rows), NEW row \in Rows,
         NEW b, b = BatchRow([layer |-> layer, outs |-> outs], row)
  PROVE  b \in Partial /\ Len(b.outs) = Len(outs) + 1
<1>1. Stepped(layer, outs, row, b)
  BY BatchRowFields
<1> DEFINE v == Append(outs, GdnStep(layer, row))
<1>2. v \in Seq(Rows) /\ Len(v) = Len(outs) + 1
  BY KernelsTyped, AppendProperties
<1>3. b = [layer |-> b.layer, outs |-> v] /\ b.layer \in LayerState
  BY ONLY <1>1, Zenon DEF Stepped
<1> HIDE DEF v
<1> QED BY ONLY <1>2, <1>3 DEF Partial

\* What a batch makes has its type, whatever it was given.
LEMMA BatchTyped ==
  ASSUME NEW layer \in LayerState, NEW rows \in Seq(Rows)
  PROVE  /\ recurrent_run_batch(layer, rows) \in Partial
         /\ Len(recurrent_run_batch(layer, rows).outs) = Len(rows)
<1>0. Len(rows) \in Nat /\ \A i \in 1..Len(rows) : rows[i] \in Rows
  BY LenProperties, ElementOfSeq
<1>9. PICK f : Runs(f, layer, rows)
  BY <1>0, RunBatch
<1>1. /\ recurrent_run_batch(layer, rows) = f[Len(rows)]
      /\ f[0] = [layer |-> layer, outs |-> <<>>]
      /\ \A i \in 1..Len(rows) : f[i] = BatchRow(f[i - 1], rows[i])
  BY <1>9 DEF Runs
<1> DEFINE Typed(i) == f[i] \in Partial /\ Len(f[i].outs) = i
           S == {i \in Nat : i <= Len(rows) => Typed(i)}
<1>2. 0 \in S
  <2>1. f[0].layer = layer /\ f[0].outs = <<>> /\ <<>> \in Seq(Rows) /\ Len(<<>>) = 0
    BY <1>1, EmptySeq
  <2>2. f[0] \in Partial
    BY <1>1, <2>1 DEF Partial
  <2> QED BY <2>1, <2>2
<1>3. ASSUME NEW i \in Nat, i + 1 <= Len(rows), Typed(i) PROVE Typed(i + 1)
  <2>1. i + 1 \in 1..Len(rows) /\ rows[i + 1] \in Rows
    BY <1>0, <1>3
  <2>2. f[i + 1] = BatchRow(f[i], rows[i + 1])
    BY <1>1, <2>1
  <2> DEFINE old == f[i].layer
             outs == f[i].outs
             b == f[i + 1]
  <2>3. old \in LayerState /\ outs \in Seq(Rows) /\ Len(outs) = i /\ f[i] = [layer |-> old, outs |-> outs]
    BY <1>3 DEF Partial
  <2>4. b = BatchRow([layer |-> old, outs |-> outs], rows[i + 1])
    BY <2>2, <2>3
  <2> HIDE DEF old, outs, b
  <2>5. b \in Partial /\ Len(b.outs) = Len(outs) + 1
    BY <2>1, <2>3, <2>4, BatchRowTyped
  <2> QED BY <2>3, <2>5 DEF b
<1>4. Nat \subseteq S
  <2> HIDE DEF Typed
  <2>1. \A i \in Nat : i \in S => i + 1 \in S
    BY <1>0, <1>3
  <2> HIDE DEF S
  <2> QED BY <1>2, <2>1, NatSet
<1>5. Typed(Len(rows))
  BY <1>0, <1>4
<1> QED BY <1>1, <1>5

\* A layer that has taken the first n rows behind m tokens, with the states of the first
\* two of them in its checkpoints.
Marked(layer, full, m, n) ==
    /\ layer \in LayerState
    /\ Exact(layer, Prefix(full, m + n))
    /\ n >= 1 => /\ layer.gdn_first = Prefix(full, m + 1)
                 /\ layer.conv_first = Window(Prefix(full, m + 1))
    /\ n >= 2 => /\ layer.gdn_second = Prefix(full, m + 2)
                 /\ layer.conv_second = Window(Prefix(full, m + 2))

\* A layer in step with the tokens before a batch is in step with those behind it,
\* hands every row on, and holds the states of the batch's first two rows.
LEMMA BatchExact ==
  ASSUME NEW full \in Seq(Tokens), NEW m \in Nat, NEW rows \in Seq(Rows), m + Len(rows) <= Len(full),
         NEW layer \in LayerState, Exact(layer, Prefix(full, m)),
         \A i \in 1..Len(rows) : rows[i] = Prefix(full, m + i)
  PROVE  /\ recurrent_run_batch(layer, rows).outs = rows
         /\ Marked(recurrent_run_batch(layer, rows).layer, full, m, Len(rows))
<1>0. /\ Len(rows) \in Nat /\ \A i \in 1..Len(rows) : rows[i] \in Rows
      /\ Len(full) \in Nat /\ \A i \in 1..Len(full) : full[i] \in Tokens
  BY LenProperties, ElementOfSeq
<1>9. PICK f : Runs(f, layer, rows)
  BY <1>0, RunBatch
<1>1. /\ recurrent_run_batch(layer, rows) = f[Len(rows)]
      /\ f[0] = [layer |-> layer, outs |-> <<>>]
      /\ \A i \in 1..Len(rows) : f[i] = BatchRow(f[i - 1], rows[i])
  BY <1>9 DEF Runs
<1> DEFINE Right(i) == /\ f[i] = [layer |-> f[i].layer, outs |-> f[i].outs]
                       /\ f[i].outs \in Seq(Rows) /\ Len(f[i].outs) = i
                       /\ \A k \in 1..i : f[i].outs[k] = rows[k]
                       /\ Marked(f[i].layer, full, m, i)
           S == {i \in Nat : i <= Len(rows) => Right(i)}
<1>2. 0 \in S
  <2>1. f[0].layer = layer /\ f[0].outs = <<>> /\ <<>> \in Seq(Rows) /\ Len(<<>>) = 0
    BY <1>1, EmptySeq
  <2>2. Marked(f[0].layer, full, m, 0)
    BY <2>1 DEF Marked
  <2>3. Right(0)
    BY <1>1, <2>1, <2>2
  <2> QED BY <2>3
<1>3. ASSUME NEW i \in Nat, i + 1 <= Len(rows), Right(i) PROVE Right(i + 1)
  <2>1. Right(i) /\ i + 1 \in 1..Len(rows)
    BY <1>0, <1>3
  <2> DEFINE old == f[i].layer
             outs == f[i].outs
             s == Prefix(full, m + i)
             row == rows[i + 1]
             b == f[i + 1]
  <2>2. b = BatchRow(f[i], row) /\ row \in Rows
    BY <1>0, <1>1, <2>1
  <2>3. /\ f[i] = [layer |-> old, outs |-> outs] /\ old \in LayerState /\ Exact(old, s)
        /\ outs \in Seq(Rows) /\ Len(outs) = i /\ \A k \in 1..i : outs[k] = rows[k]
    BY <2>1 DEF Marked
  <2>4. /\ i >= 1 => /\ old.gdn_first = Prefix(full, m + 1)
                     /\ old.conv_first = Window(Prefix(full, m + 1))
        /\ i >= 2 => /\ old.gdn_second = Prefix(full, m + 2)
                     /\ old.conv_second = Window(Prefix(full, m + 2))
    BY <2>1 DEF Marked
  <2>5. /\ s \in Seq(Tokens) /\ full[m + i + 1] \in Tokens
        /\ row = Append(s, full[m + i + 1]) /\ row = Prefix(full, m + (i + 1))
    <3>1. m + i \in 0..(Len(full) - 1) /\ m + i \in 0..Len(full) /\ m + i + 1 \in 1..Len(full)
      BY <1>0, <2>1
    <3>2. row = Prefix(full, m + (i + 1)) /\ m + (i + 1) = m + i + 1
      BY <2>1
    <3>3. Prefix(full, m + i + 1) = Append(s, full[m + i + 1])
      BY <3>1, PrefixNext
    <3> QED BY <1>0, <3>1, <3>2, <3>3, PrefixProperties
  <2>6. GdnStep(old, row) = row /\ ConvShift(old.conv, row) = Window(row)
    BY <2>3, <2>5, KernelsExact
  <2> HIDE DEF old, outs, s, row, b
  <2>7. Stepped(old, outs, row, b)
    <3>1. b = BatchRow([layer |-> old, outs |-> outs], row)
      BY <2>2, <2>3
    <3> QED BY <2>2, <2>3, <3>1, BatchRowFields
  <2>8. b.outs = Append(outs, row)
    BY ONLY <2>6, <2>7, SMT DEF Stepped
  <2>9. /\ b.layer.conv = Window(row) /\ b.layer.gdn = row
        /\ b.layer.conv_first = IF Len(outs) = 0 THEN Window(row) ELSE old.conv_first
        /\ b.layer.gdn_first = IF Len(outs) = 0 THEN row ELSE old.gdn_first
        /\ b.layer.conv_second = IF Len(outs) = 1 THEN Window(row) ELSE old.conv_second
        /\ b.layer.gdn_second = IF Len(outs) = 1 THEN row ELSE old.gdn_second
    BY ONLY <2>6, <2>7, SMT DEF Stepped
  <2>10. /\ b.outs \in Seq(Rows) /\ Len(b.outs) = i + 1
         /\ \A k \in 1..i : b.outs[k] = outs[k]
         /\ b.outs[i + 1] = row
    <3> DEFINE v == Append(outs, row)
    <3>1. /\ v \in Seq(Rows) /\ Len(v) = Len(outs) + 1
          /\ \A k \in 1..Len(outs) : v[k] = outs[k]
          /\ v[Len(outs) + 1] = row
      BY <2>2, <2>3, AppendProperties
    <3>2. b.outs = v
      BY <2>8
    <3> HIDE DEF v
    <3> QED BY <2>3, <3>1, <3>2
  <2>11. \A k \in 1..(i + 1) : b.outs[k] = rows[k]
    <3>1. \A k \in 1..(i + 1) : k \in 1..i \/ k = i + 1
      OBVIOUS
    <3> QED BY <2>3, <2>10, <3>1 DEF row
  <2>12. i = 0 => row = Prefix(full, m + 1)
    BY <2>5
  <2>13. i = 1 => row = Prefix(full, m + 2)
    BY <2>5
  <2>14. Marked(b.layer, full, m, i + 1)
    <3>1. Exact(b.layer, Prefix(full, m + (i + 1)))
      BY <2>5, <2>9 DEF Exact
    <3>2. /\ b.layer.gdn_first = Prefix(full, m + 1)
          /\ b.layer.conv_first = Window(Prefix(full, m + 1))
      BY <2>3, <2>4, <2>9, <2>12
    <3>3. i + 1 >= 2 => /\ b.layer.gdn_second = Prefix(full, m + 2)
                        /\ b.layer.conv_second = Window(Prefix(full, m + 2))
      BY <2>3, <2>4, <2>9, <2>13
    <3> QED BY <2>7, <3>1, <3>2, <3>3 DEF Stepped, Marked
  <2> QED BY <2>7, <2>8, <2>10, <2>11, <2>14 DEF b, Stepped
<1>4. Nat \subseteq S
  <2> HIDE DEF Right
  <2>1. \A i \in Nat : i \in S => i + 1 \in S
    BY <1>0, <1>3
  <2> HIDE DEF S
  <2> QED BY <1>2, <2>1, NatSet
<1>5. Right(Len(rows))
  BY <1>0, <1>4
<1> DEFINE r == recurrent_run_batch(layer, rows)
<1>6. /\ r = f[Len(rows)] /\ r.outs \in Seq(Rows) /\ Len(r.outs) = Len(rows)
      /\ \A k \in 1..Len(rows) : r.outs[k] = rows[k]
      /\ Marked(r.layer, full, m, Len(rows))
  BY <1>1, <1>5
<1> HIDE DEF r
<1>7. r.outs = rows
  BY <1>6, SeqEqual
<1> QED BY <1>6, <1>7 DEF r

--------------------------------------------------------------------------------
(* One pass over the three layers.                                               *)

\* A function on 1..n is a sequence of length n.
LEMMA FunctionIsSeq ==
  ASSUME NEW S, NEW n \in Nat, NEW f \in [1..n -> S]
  PROVE  f \in Seq(S) /\ Len(f) = n
<1>1. f \in Seq(S)
  BY SeqDef
<1> QED BY <1>1, LenProperties

CacheRows == [0..(MaxContext - 1) -> Seq(Elements)]

\* What a pass over n rows hands back.
PassTyped(pass, n) ==
    /\ pass.recA \in LayerState /\ pass.convA = pass.recA.conv
    /\ pass.recB \in LayerState /\ pass.convB = pass.recB.conv
    /\ pass.kv \in CacheRows
    /\ pass.outs \in [1..n -> Rows]

\* The launches of a slot carry a batch and a position.
Shapes == [Slots -> [rows : Nat, position : Nat]]

\* The rows a batch of any shape gives to the first layer.
LEMMA EmbedTyped ==
  ASSUME NEW tokens \in Seq(Tokens), NEW shape \in [rows : Nat, position : Nat], seq \in Seq(Tokens)
  PROVE  Embed(Fit(tokens, shape, Garbage)) \in Seq(Rows)
<1> DEFINE n == shape.rows
           given == Fit(tokens, shape, Garbage)
<1>1. n \in Nat /\ Len(tokens) \in Nat /\ \A i \in 1..Len(tokens) : tokens[i] \in Elements
  BY LenProperties, ElementOfSeq, TokensAreClean
<1>2. given \in [1..n -> Elements]
  BY <1>1 DEF Fit, Elements
<1>3. given \in Seq(Elements) /\ Len(given) = n /\ DOMAIN given = 1..n
  BY <1>1, <1>2, FunctionIsSeq
<1>4. seq \in Seq(Elements) /\ Len(seq) \in Nat
  BY TokensAreClean, LenProperties
<1>5. Embed(given) = [i \in 1..n |-> seq \o Prefix(given, i)]
  BY <1>3 DEF Embed, Prefix
<1> HIDE DEF given, n
<1>6. ASSUME NEW i \in 1..n PROVE seq \o Prefix(given, i) \in Rows
  <2>1. i \in 0..Len(given) /\ i # 0
    BY <1>1, <1>3
  <2> DEFINE p == Prefix(given, i)
  <2>2. p \in Seq(Elements) /\ Len(p) = i
    BY <1>3, <2>1, PrefixProperties
  <2> HIDE DEF p
  <2>3. seq \o p \in Seq(Elements) /\ Len(seq \o p) = Len(seq) + i
    BY <1>4, <2>2, ConcatProperties
  <2> DEFINE v == seq \o p
  <2>4. v \in Seq(Elements) /\ Len(v) = Len(seq) + i
    BY <2>3
  <2> HIDE DEF v
  <2>5. v # <<>>
    BY <1>1, <1>4, <2>4, EmptySeq
  <2> QED BY <2>4, <2>5 DEF Rows, v, p
<1>7. Embed(given) \in [1..n -> Rows]
  BY <1>5, <1>6
<1> QED BY <1>1, <1>7, FunctionIsSeq DEF given

\* An attention row is its own or Wrong.
LEMMA AttentionTyped ==
  ASSUME NEW rows \in Seq(Rows), NEW at, NEW byValue, NEW cached
  PROVE  /\ attention_apply_batch(rows, at, byValue, cached) \in Seq(Rows)
         /\ Len(attention_apply_batch(rows, at, byValue, cached)) = Len(rows)
<1>1. Len(rows) \in Nat /\ DOMAIN rows = 1..Len(rows) /\ \A i \in 1..Len(rows) : rows[i] \in Rows
  BY LenProperties, ElementOfSeq
<1>2. Wrong \in Rows
  BY TokensAreClean DEF Rows
<1> DEFINE p(i) == (IF cache = "f16" THEN byValue ELSE at) + i - 1
           v == [i \in 1..Len(rows) |-> AttentionRow(rows, i, p(i), cached)]
<1>3. ASSUME NEW i \in 1..Len(rows) PROVE AttentionRow(rows, i, p(i), cached) \in Rows
  <2> HIDE DEF p
  <2>1. AttentionRow(rows, i, p(i), cached) \in {rows[i], Wrong}
    BY DEF AttentionRow
  <2> QED BY <1>1, <1>2, <2>1
<1>4. attention_apply_batch(rows, at, byValue, cached) = v
  BY <1>1 DEF attention_apply_batch
<1>5. v \in [1..Len(rows) -> Rows]
  BY <1>3
<1> HIDE DEF v
<1> QED BY <1>1, <1>4, <1>5, FunctionIsSeq

\* The batch's keys and values go to rows of the cache.
LEMMA PrepareTyped ==
  ASSUME NEW rows \in Seq(Rows), NEW at \in Nat, kv \in CacheRows
  PROVE  attention_prepare_batch(rows, at) \in CacheRows
<1>1. DOMAIN rows = 1..Len(rows) /\ \A i \in 1..Len(rows) : rows[i] \in Seq(Elements)
  BY LenProperties, ElementOfSeq DEF Rows
<1> QED BY <1>1 DEF attention_prepare_batch, CacheRows

\* The rows the second slot is given, whatever its launches carry.
LEMMA FitTyped ==
  ASSUME NEW mid \in Seq(Rows), NEW n \in Nat, NEW shape \in [rows : Nat, position : Nat]
  PROVE  Fit([i \in 1..n |-> IF i <= Len(mid) THEN mid[i] ELSE Wrong], shape, Wrong) \in Seq(Rows)
<1> DEFINE moved == [i \in 1..n |-> IF i <= Len(mid) THEN mid[i] ELSE Wrong]
<1>1. Len(mid) \in Nat /\ (\A i \in 1..Len(mid) : mid[i] \in Rows) /\ Wrong \in Rows
  BY LenProperties, ElementOfSeq, TokensAreClean DEF Rows
<1>2. moved \in [1..n -> Rows]
  BY <1>1
<1> HIDE DEF moved
<1>3. Len(moved) = n
  BY <1>2, FunctionIsSeq
<1>4. Fit(moved, shape, Wrong) \in [1..shape.rows -> Rows]
  BY <1>1, <1>2, <1>3 DEF Fit
<1> QED BY <1>4, FunctionIsSeq DEF moved

\* A pass has its types whatever the launches carry and whatever the layers hold.
LEMMA ForwardTyped ==
  ASSUME NEW tokens \in Seq(Tokens), NEW at \in Nat, NEW shape \in Shapes,
         seq \in Seq(Tokens), rec \in [Slots -> LayerState], kv \in CacheRows
  PROVE  PassTyped(forward_batch(tokens, at, shape), Len(tokens))
<1> DEFINE n == Len(tokens)
           rowsA == Embed(Fit(tokens, shape[0], Garbage))
           a == recurrent_run_batch(rec[0], rowsA)
           cached == attention_prepare_batch(a.outs, at)
           mid == attention_apply_batch(a.outs, at, shape[0].position, cached)
           moved == [i \in 1..n |-> IF i <= Len(mid) THEN mid[i] ELSE Wrong]
           rowsB == Fit(moved, shape[1], Wrong)
           b == recurrent_run_batch(rec[1], rowsB)
           outs == [i \in 1..n |-> IF i <= Len(b.outs) THEN b.outs[i] ELSE Wrong]
<1>1. /\ n \in Nat /\ rec[0] \in LayerState /\ rec[1] \in LayerState
      /\ shape[0] \in [rows : Nat, position : Nat] /\ shape[1] \in [rows : Nat, position : Nat]
  BY LenProperties DEF Shapes, Slots
<1>2. rowsA \in Seq(Rows)
  BY <1>1, EmbedTyped
<1>3. a.layer \in LayerState /\ a.outs \in Seq(Rows)
  <2> HIDE DEF rowsA
  <2>1. a \in Partial
    BY <1>1, <1>2, BatchTyped
  <2> HIDE DEF a
  <2> QED BY <2>1 DEF Partial
<1>4. cached \in CacheRows /\ mid \in Seq(Rows)
  <2> HIDE DEF a
  <2> QED BY <1>3, PrepareTyped, AttentionTyped
<1>5. rowsB \in Seq(Rows)
  <2> HIDE DEF mid
  <2> QED BY <1>1, <1>4, FitTyped
<1>6. b.layer \in LayerState /\ b.outs \in Seq(Rows)
  <2> HIDE DEF rowsB
  <2>1. b \in Partial
    BY <1>1, <1>5, BatchTyped
  <2> HIDE DEF b
  <2> QED BY <2>1 DEF Partial
<1>7. outs \in [1..n -> Rows]
  <2> HIDE DEF b
  <2>1. Len(b.outs) \in Nat /\ (\A i \in 1..Len(b.outs) : b.outs[i] \in Rows) /\ Wrong \in Rows
    BY <1>6, LenProperties, ElementOfSeq, TokensAreClean DEF Rows
  <2> QED BY <2>1
<1> DEFINE pass == forward_batch(tokens, at, shape)
<1>8. pass = [convA |-> a.layer.conv, recA |-> a.layer, kv |-> cached,
              convB |-> b.layer.conv, recB |-> b.layer, outs |-> outs]
  BY DEF forward_batch
<1> HIDE DEF pass, a, b, cached, outs
<1>9. /\ pass.convA = a.layer.conv /\ pass.recA = a.layer /\ pass.kv = cached
      /\ pass.convB = b.layer.conv /\ pass.recB = b.layer /\ pass.outs = outs
  BY ONLY <1>8, SMT
<1> QED BY <1>3, <1>4, <1>6, <1>7, <1>9 DEF PassTyped, pass

\* The scalar path has the types of a pass over one row.
LEMMA ScalarTyped ==
  ASSUME NEW token \in Tokens, NEW at \in 0..(MaxContext - 1),
         seq \in Seq(Tokens), rec \in [Slots -> LayerState], kv \in CacheRows
  PROVE  PassTyped(forward_body(token, at), 1)
<1> DEFINE row == Append(seq, token)
           outA == GdnStep(rec[0], row)
           recA == recurrent_run_core(rec[0], row)
           cached == attention_prepare(outA, at)
           mid == attention_apply(outA, at, cached)
           recB == recurrent_run_core(rec[1], mid)
           outB == GdnStep(rec[1], mid)
<1>1. rec[0] \in LayerState /\ rec[1] \in LayerState /\ Wrong \in Rows
  BY TokensAreClean DEF Slots, Rows
<1>2. row \in Rows
  <2>1. row \in Seq(Tokens) /\ Len(row) = Len(seq) + 1 /\ Len(seq) \in Nat
    BY AppendProperties, LenProperties
  <2> HIDE DEF row
  <2> QED BY <2>1, TokensAreClean, EmptySeq DEF Rows
<1>3. ASSUME NEW layer \in LayerState, NEW r \in Rows
      PROVE  recurrent_run_core(layer, r) \in LayerState /\ GdnStep(layer, r) \in Rows
  <2> DEFINE c == ConvShift(layer.conv, r)
             g == GdnStep(layer, r)
  <2>1. c \in Seq(Elements) /\ g \in Rows
    BY KernelsTyped
  <2>2. recurrent_run_core(layer, r) = [layer EXCEPT !.conv = c, !.gdn = g]
    BY DEF recurrent_run_core
  <2> HIDE DEF c, g
  <2>3. [layer EXCEPT !.conv = c, !.gdn = g] \in LayerState
    BY <2>1 DEF LayerState, Rows
  <2> QED BY <2>1, <2>2, <2>3 DEF g
<1>4. outA \in Rows /\ recA \in LayerState
  BY <1>1, <1>2, <1>3
<1>5. cached \in CacheRows
  <2> HIDE DEF outA
  <2> QED BY <1>4 DEF attention_prepare, CacheRows, Rows
<1>6. mid \in Rows
  <2> HIDE DEF outA, cached
  <2>1. mid = outA \/ mid = Wrong
    BY DEF attention_apply, AttentionRow
  <2> QED BY <1>1, <1>4, <2>1
<1>7. recB \in LayerState /\ outB \in Rows
  <2> HIDE DEF mid
  <2> QED BY <1>1, <1>3, <1>6
<1> DEFINE pass == forward_body(token, at)
<1>8. pass = [convA |-> recA.conv, recA |-> recA, kv |-> cached,
              convB |-> recB.conv, recB |-> recB, outs |-> <<outB>>]
  BY DEF forward_body
<1> HIDE DEF pass, recA, recB, cached, outB
<1>9. /\ pass.convA = recA.conv /\ pass.recA = recA /\ pass.kv = cached
      /\ pass.convB = recB.conv /\ pass.recB = recB /\ pass.outs = <<outB>>
  BY ONLY <1>8, SMT
<1>10. <<outB>> \in [1..1 -> Rows]
  BY <1>7
<1> QED BY <1>4, <1>5, <1>7, <1>9, <1>10 DEF PassTyped, pass

\* full is the m kept tokens and the n of a batch behind them.
Behind(tokens, full, m, n) ==
    /\ full \in Seq(Tokens) /\ Len(full) = m + n /\ m \in Nat /\ n \in Nat
    /\ seq = Prefix(full, m) /\ full = Prefix(full, m + n)
    /\ \A i \in 1..n : seq \o Prefix(tokens, i) = Prefix(full, m + i)

\* The concatenation is.
LEMMA BatchSequence ==
  ASSUME NEW tokens \in Seq(Tokens), seq \in Seq(Tokens),
         NEW full, full = seq \o tokens, NEW m, m = Len(seq), NEW n, n = Len(tokens)
  PROVE  Behind(tokens, full, m, n)
<1>1. full \in Seq(Tokens) /\ Len(full) = m + n /\ m \in Nat /\ n \in Nat
  BY ConcatProperties, LenProperties
<1>2. ASSUME NEW i \in 0..n PROVE seq \o Prefix(tokens, i) = Prefix(full, m + i)
  BY PrefixOfConcat
<1>3. \A i \in 1..n : i \in 0..n
  BY <1>1
<1>4. m + n \in 0..Len(full) /\ m \in 0..Len(full)
  BY <1>1
<1>5. /\ Prefix(full, m + n) \in Seq(Tokens) /\ Len(Prefix(full, m + n)) = m + n
      /\ \A i \in 1..(m + n) : Prefix(full, m + n)[i] = full[i]
  BY <1>1, <1>4, PrefixProperties
<1>6. full = Prefix(full, m + n)
  BY <1>1, <1>5, SeqEqual
<1>7. /\ Prefix(full, m) \in Seq(Tokens) /\ Len(Prefix(full, m)) = m
      /\ \A i \in 1..m : Prefix(full, m)[i] = full[i]
  BY <1>1, <1>4, PrefixProperties
<1>8. \A i \in 1..m : full[i] = seq[i]
  BY <1>1, ConcatProperties
<1>9. seq = Prefix(full, m)
  BY <1>1, <1>7, <1>8, SeqEqual
<1> QED BY <1>1, <1>2, <1>3, <1>6, <1>9 DEF Behind

\* The n rows behind the first m tokens.
RowsOf(rows, full, m, n) ==
    /\ rows \in Seq(Rows) /\ Len(rows) = n
    /\ \A i \in 1..n : rows[i] = Prefix(full, m + i)

\* The rows a batch gives to the first layer when its launches fit.
LEMMA EmbedExact ==
  ASSUME NEW tokens \in Seq(Tokens), seq \in Seq(Tokens),
         NEW full, NEW m, NEW n, n = Len(tokens), Behind(tokens, full, m, n),
         NEW shape \in [rows : Nat, position : Nat], shape.rows = n,
         NEW rows, rows = Embed(Fit(tokens, shape, Garbage))
  PROVE  RowsOf(rows, full, m, n)
<1>1. n \in Nat /\ DOMAIN tokens = 1..n /\ tokens = [i \in 1..n |-> tokens[i]]
  BY LenProperties, ElementOfSeq
<1>2. Fit(tokens, shape, Garbage) = tokens
  <2>1. Fit(tokens, shape, Garbage) = [i \in 1..n |-> IF i <= n THEN tokens[i] ELSE Garbage]
    BY DEF Fit
  <2>2. [i \in 1..n |-> IF i <= n THEN tokens[i] ELSE Garbage] = [i \in 1..n |-> tokens[i]]
    BY <1>1
  <2> QED BY <1>1, <2>1, <2>2
<1> DEFINE v == [i \in 1..n |-> seq \o Prefix(tokens, i)]
<1>3. rows = v
  BY <1>1, <1>2 DEF Embed, Prefix
<1>4. Len(v) = n
  BY <1>1, LenProperties
<1>5. \A i \in 1..n : v[i] = Prefix(full, m + i)
  BY DEF Behind
<1>6. rows \in Seq(Rows)
  BY EmbedTyped
<1> HIDE DEF v
<1> QED BY <1>3, <1>4, <1>5, <1>6 DEF RowsOf

\* Such rows take a layer in step with the first m tokens to m + n.
LEMMA RowsExact ==
  ASSUME NEW full \in Seq(Tokens), NEW m \in Nat, NEW n \in Nat, m + n <= Len(full),
         NEW rows, RowsOf(rows, full, m, n),
         NEW layer \in LayerState, Exact(layer, Prefix(full, m)),
         NEW r, r = recurrent_run_batch(layer, rows)
  PROVE  r.outs = rows /\ Marked(r.layer, full, m, n)
<1>1. /\ rows \in Seq(Rows) /\ Len(rows) = n /\ m + Len(rows) <= Len(full)
      /\ \A i \in 1..Len(rows) : rows[i] = Prefix(full, m + i)
  BY DEF RowsOf
<1>2. r.outs = rows /\ Marked(r.layer, full, m, Len(rows))
  BY <1>1, BatchExact
<1> QED BY <1>1, <1>2

\* The first k rows of the cache stand for the first k tokens.
CachedOf(cached, full, k) == \A p \in 0..(k - 1) : cached[p] = Prefix(full, p + 1)

\* Rows of the kept sequence attend to rows of the kept sequence.
LEMMA AttentionExact ==
  ASSUME NEW full \in Seq(Tokens), NEW m \in Nat, NEW n \in Nat,
         m + n <= Len(full), Len(full) <= MaxContext,
         NEW rows, RowsOf(rows, full, m, n), CachedOf(kv, full, m),
         NEW byValue, cache = "f16" => byValue = m,
         NEW cached, cached = attention_prepare_batch(rows, m),
         NEW mid, mid = attention_apply_batch(rows, m, byValue, cached)
  PROVE  CachedOf(cached, full, m + n) /\ mid = rows
<1>1. /\ rows \in Seq(Rows) /\ Len(rows) = n /\ \A i \in 1..n : rows[i] = Prefix(full, m + i)
      /\ DOMAIN rows = 1..n /\ rows = [i \in 1..n |-> rows[i]]
      /\ Len(full) \in Nat /\ MaxContext \in Nat
  BY LenProperties, ElementOfSeq, DeviceAssumption DEF RowsOf
<1>2. ASSUME NEW p \in 0..(m + n - 1) PROVE cached[p] = Prefix(full, p + 1)
  <2>1. p \in 0..(MaxContext - 1)
    BY <1>1
  <2>2. cached[p] = IF p >= m /\ p - m + 1 \in 1..n THEN rows[p - m + 1] ELSE kv[p]
    BY <1>1, <2>1 DEF attention_prepare_batch
  <2>3. CASE p >= m
    <3>1. p - m + 1 \in 1..n /\ m + (p - m + 1) = p + 1
      BY <1>1, <2>3
    <3> QED BY <1>1, <2>2, <2>3, <3>1
  <2>4. CASE p < m
    BY <1>1, <2>2, <2>4 DEF CachedOf
  <2> QED BY <2>3, <2>4
<1>3. ASSUME NEW i \in 1..n PROVE AttentionRow(rows, i, m + i - 1, cached) = rows[i]
  <2> DEFINE p == m + i - 1
  <2>1. p \in Nat /\ p < MaxContext /\ m + i \in 0..Len(full) /\ p + 1 = m + i
    BY <1>1
  <2>2. rows[i] = Prefix(full, m + i) /\ Len(rows[i]) = p + 1
    BY <1>1, <2>1, PrefixProperties
  <2>3. ASSUME NEW j \in 0..p PROVE cached[j] = SubSeq(rows[i], 1, j + 1)
    <3>1. j \in 0..(m + n - 1) /\ j + 1 \in 0..(m + i)
      BY <1>1
    <3>2. cached[j] = Prefix(full, j + 1)
      BY <1>2, <3>1
    <3>3. Prefix(Prefix(full, m + i), j + 1) = Prefix(full, j + 1)
      BY <2>1, <3>1, PrefixOfPrefix
    <3> QED BY <2>2, <3>2, <3>3 DEF Prefix
  <2> QED BY <2>1, <2>2, <2>3 DEF AttentionRow
<1>4. attention_apply_batch(rows, m, byValue, cached)
        = [i \in 1..n |-> AttentionRow(rows, i, m + i - 1, cached)]
  <2>1. (IF cache = "f16" THEN byValue ELSE m) = m
    OBVIOUS
  <2> QED BY <1>1, <2>1 DEF attention_apply_batch
<1>5. [i \in 1..n |-> AttentionRow(rows, i, m + i - 1, cached)] = [i \in 1..n |-> rows[i]]
  BY <1>3
<1>6. CachedOf(cached, full, m + n)
  BY <1>2 DEF CachedOf
<1> QED BY <1>1, <1>4, <1>5, <1>6

\* The rows a pass hands to the second slot when its launches fit.
LEMMA FitExact ==
  ASSUME NEW full, NEW m, NEW n \in Nat, NEW rows, RowsOf(rows, full, m, n),
         NEW shape, shape.rows = n, NEW mid, mid = rows,
         NEW given, given = Fit([i \in 1..n |-> IF i <= Len(mid) THEN mid[i] ELSE Wrong], shape, Wrong)
  PROVE  given = rows
<1> DEFINE moved == [i \in 1..n |-> IF i <= n THEN rows[i] ELSE Wrong]
<1>1. rows = [i \in 1..n |-> rows[i]] /\ Len(rows) = n
  BY LenProperties, ElementOfSeq DEF RowsOf
<1>2. moved = rows
  <2>1. moved = [i \in 1..n |-> rows[i]]
    OBVIOUS
  <2> QED BY <1>1, <2>1
<1>3. Fit(rows, shape, Wrong) = moved
  BY <1>1 DEF Fit
<1>4. [i \in 1..n |-> IF i <= Len(mid) THEN mid[i] ELSE Wrong] = moved
  BY <1>1
<1> QED BY <1>2, <1>3, <1>4

\* Every kept row of a pass stands for its sequence: n rows behind the first m tokens of full.
PassExact(pass, full, m, n) ==
    /\ Marked(pass.recA, full, m, n)
    /\ Marked(pass.recB, full, m, n)
    /\ CachedOf(pass.kv, full, m + n)
    /\ \A i \in 1..n : pass.outs[i] = Prefix(full, m + i)

\* Launches that carry the batch and the position of the call.
Fits(shape, n, m) == \A s \in Slots : shape[s] = Direct(s, n, m)

\* A session in step with the kept tokens passes a batch through all three layers and is
\* in step with the tokens behind it.
LEMMA ForwardExact ==
  ASSUME NEW tokens \in Seq(Tokens), NEW shape \in Shapes,
         seq \in Seq(Tokens), rec \in [Slots -> LayerState], InStep(seq),
         NEW full, full = seq \o tokens, NEW m, m = Len(seq), NEW n, n = Len(tokens),
         m + n <= MaxContext, Fits(shape, n, m),
         NEW pass, pass = forward_batch(tokens, m, shape)
  PROVE  PassExact(pass, full, m, n) /\ Behind(tokens, full, m, n)
<1> DEFINE rowsA == Embed(Fit(tokens, shape[0], Garbage))
           a == recurrent_run_batch(rec[0], rowsA)
           cached == attention_prepare_batch(a.outs, m)
           mid == attention_apply_batch(a.outs, m, shape[0].position, cached)
           moved == [i \in 1..n |-> IF i <= Len(mid) THEN mid[i] ELSE Wrong]
           rowsB == Fit(moved, shape[1], Wrong)
           b == recurrent_run_batch(rec[1], rowsB)
           outs == [i \in 1..n |-> IF i <= Len(b.outs) THEN b.outs[i] ELSE Wrong]
<1>1. Behind(tokens, full, m, n)
  BY BatchSequence
<1>2. /\ full \in Seq(Tokens) /\ Len(full) = m + n /\ m \in Nat /\ n \in Nat
      /\ m + n <= Len(full) /\ Len(full) <= MaxContext /\ seq = Prefix(full, m)
  BY <1>1 DEF Behind
<1>3. /\ rec[0] \in LayerState /\ rec[1] \in LayerState
      /\ Exact(rec[0], Prefix(full, m)) /\ Exact(rec[1], Prefix(full, m))
  BY <1>2 DEF InStep, Exact, Slots
<1>4. /\ shape[0].rows = n /\ shape[1].rows = n
      /\ cache = "f16" => shape[0].position = m
      /\ shape[0] \in [rows : Nat, position : Nat]
  BY DEF Fits, Direct, Slots, Shapes
<1>5. CachedOf(kv, full, m)
  <2> SUFFICES ASSUME NEW p \in 0..(m - 1) PROVE kv[p] = Prefix(full, p + 1)
    BY DEF CachedOf
  <2>1. kv[p] = Prefix(seq, p + 1)
    BY DEF InStep, Prefix
  <2>2. m \in 0..Len(full) /\ p + 1 \in 0..m
    BY <1>2
  <2>3. Prefix(Prefix(full, m), p + 1) = Prefix(full, p + 1)
    BY <1>2, <2>2, PrefixOfPrefix
  <2> QED BY <1>2, <2>1, <2>3
<1>6. pass = [convA |-> a.layer.conv, recA |-> a.layer, kv |-> cached,
              convB |-> b.layer.conv, recB |-> b.layer, outs |-> outs]
  BY DEF forward_batch
<1>7. RowsOf(rowsA, full, m, n)
  BY <1>1, <1>4, EmbedExact
<1> HIDE DEF rowsA
<1>8. a.outs = rowsA /\ Marked(a.layer, full, m, n)
  BY ONLY <1>2, <1>3, <1>7, RowsExact
<1> HIDE DEF a
<1>9. CachedOf(cached, full, m + n) /\ mid = rowsA
  <2> DEFINE q == shape[0].position
  <2>1. cached = attention_prepare_batch(rowsA, m)
    BY <1>8
  <2>2. mid = attention_apply_batch(rowsA, m, q, cached)
    BY <1>8
  <2>3. cache = "f16" => q = m
    BY <1>4
  <2> HIDE DEF q, mid, cached
  <2>4. full \in Seq(Tokens) /\ m \in Nat /\ n \in Nat /\ m + n <= Len(full) /\ Len(full) <= MaxContext
    BY ONLY <1>2
  <2>5. RowsOf(rowsA, full, m, n)
    BY ONLY <1>7
  <2>6. CachedOf(kv, full, m)
    BY ONLY <1>5
  <2>7. CachedOf(cached, full, m + n)
    BY ONLY <2>1, <2>2, <2>3, <2>4, <2>5, <2>6, AttentionExact
  <2>8. mid = rowsA
    BY ONLY <2>1, <2>2, <2>3, <2>4, <2>5, <2>6, AttentionExact
  <2> QED BY <2>7, <2>8
<1> HIDE DEF mid
<1>10. rowsB = rowsA
  BY ONLY <1>2, <1>4, <1>7, <1>9, FitExact
<1> HIDE DEF rowsB
<1>11. b = recurrent_run_batch(rec[1], rowsA)
  BY <1>10
<1> HIDE DEF b
<1>12. b.outs = rowsA /\ Marked(b.layer, full, m, n)
  BY ONLY <1>2, <1>3, <1>7, <1>11, RowsExact
<1>13. \A i \in 1..n : outs[i] = Prefix(full, m + i)
  BY <1>2, <1>7, <1>12 DEF RowsOf
<1> HIDE DEF cached, outs
<1>14. pass.recA = a.layer /\ pass.kv = cached /\ pass.recB = b.layer /\ pass.outs = outs
  BY ONLY <1>6, SMT
<1> QED BY <1>1, <1>8, <1>9, <1>12, <1>13, <1>14 DEF PassExact

\* The scalar path takes a session in step one token further.
LEMMA ScalarExact ==
  ASSUME NEW token \in Tokens, seq \in Seq(Tokens), rec \in [Slots -> LayerState], kv \in CacheRows,
         InStep(seq), NEW full, full = Append(seq, token), NEW m, m = Len(seq), m < MaxContext,
         NEW pass, pass = forward_body(token, m)
  PROVE  /\ Exact(pass.recA, full) /\ Exact(pass.recB, full)
         /\ CachedOf(pass.kv, full, m + 1)
         /\ pass.outs[1] = full
<1> DEFINE outA == GdnStep(rec[0], full)
           recA == recurrent_run_core(rec[0], full)
           cached == attention_prepare(outA, m)
           mid == attention_apply(outA, m, cached)
           recB == recurrent_run_core(rec[1], mid)
           outB == GdnStep(rec[1], mid)
<1>1. /\ full \in Seq(Tokens) /\ Len(full) = m + 1 /\ m \in Nat /\ MaxContext \in Nat
      /\ seq = Prefix(full, m) /\ full = Prefix(full, m + 1)
  <2> DEFINE one == <<token>>
  <2>1. one \in Seq(Tokens) /\ Len(one) = 1 /\ full = seq \o one
    BY AppendIsConcat
  <2> HIDE DEF one
  <2>2. Behind(one, full, m, 1)
    BY <2>1, BatchSequence
  <2> QED BY <2>2, DeviceAssumption DEF Behind
<1>2. /\ Exact(rec[0], seq) /\ Exact(rec[1], seq)
      /\ rec[0] \in LayerState /\ rec[1] \in LayerState
  BY DEF InStep, Exact, Slots
<1>3. ASSUME NEW layer \in LayerState, Exact(layer, seq)
      PROVE  GdnStep(layer, full) = full /\ Exact(recurrent_run_core(layer, full), full)
  <2>1. GdnStep(layer, full) = full /\ ConvShift(layer.conv, full) = Window(full)
    BY <1>3, KernelsExact
  <2>2. recurrent_run_core(layer, full) = [layer EXCEPT !.conv = Window(full), !.gdn = full]
    BY <2>1 DEF recurrent_run_core
  <2>3. LET l == [layer EXCEPT !.conv = Window(full), !.gdn = full]
        IN  l.gdn = full /\ l.conv = Window(full)
    BY DEF LayerState
  <2> QED BY <2>1, <2>2, <2>3 DEF Exact
<1>4. outA = full /\ Exact(recA, full)
  BY <1>2, <1>3
<1>5. pass = [convA |-> recA.conv, recA |-> recA, kv |-> cached,
              convB |-> recB.conv, recB |-> recB, outs |-> <<outB>>]
  BY DEF forward_body
<1> HIDE DEF outA, recA
<1>6. ASSUME NEW p \in 0..m PROVE cached[p] = Prefix(full, p + 1)
  <2>1. p \in 0..(MaxContext - 1) /\ m \in 0..(MaxContext - 1)
    BY <1>1
  <2>2. cached[p] = IF p = m THEN full ELSE kv[p]
    BY <1>4, <2>1 DEF attention_prepare, CacheRows
  <2>3. CASE p = m
    BY <1>1, <2>2, <2>3
  <2>4. CASE p # m
    <3>1. kv[p] = Prefix(seq, p + 1) /\ m \in 0..Len(full) /\ p + 1 \in 0..m
      BY <1>1, <2>4 DEF InStep, Prefix
    <3>2. Prefix(Prefix(full, m), p + 1) = Prefix(full, p + 1)
      BY <1>1, <3>1, PrefixOfPrefix
    <3> QED BY <1>1, <2>2, <2>4, <3>1, <3>2
  <2> QED BY <2>3, <2>4
<1>7. mid = full
  <2>1. \A j \in 0..m : cached[j] = SubSeq(full, 1, j + 1)
    BY <1>6 DEF Prefix
  <2> HIDE DEF cached
  <2>2. AttentionRow(<<full>>, 1, m, cached) = full
    BY <1>1, <2>1 DEF AttentionRow
  <2> QED BY <1>4, <2>2 DEF attention_apply
<1>8. outB = full /\ Exact(recB, full)
  <2> HIDE DEF mid
  <2> QED BY <1>2, <1>3, <1>7
<1>9. CachedOf(cached, full, m + 1)
  <2> HIDE DEF cached
  <2>1. m + 1 - 1 = m
    BY <1>1
  <2> QED BY <1>6, <2>1 DEF CachedOf
<1> HIDE DEF mid, recB, outB, cached
<1>10. pass.recA = recA /\ pass.kv = cached /\ pass.recB = recB /\ pass.outs = <<outB>>
  BY ONLY <1>5, SMT
<1>11. pass.outs[1] = full
  BY <1>8, <1>10
<1> QED BY <1>4, <1>8, <1>9, <1>10, <1>11

--------------------------------------------------------------------------------
(* Rolling a round back.                                                         *)

\* The layer of a rolled-back round stands for the tokens it keeps.
LEMMA RolledExact ==
  ASSUME NEW full, NEW m \in Nat, NEW n \in 1..3, NEW layer, Marked(layer, full, m, n),
         NEW accepted \in 0..(n - 1)
  PROVE  Exact(Rolled(layer, accepted, n), Prefix(full, m + accepted + 1))
<1> USE DEF Marked, Exact
<1>1. CASE accepted = n - 1
  <2>1. Rolled(layer, accepted, n) = layer
    BY <1>1 DEF Rolled
  <2>2. m + accepted + 1 = m + n
    BY <1>1
  <2> QED BY <2>1, <2>2
<1>2. CASE accepted = 0 /\ n # 1
  <2>1. Rolled(layer, accepted, n) = [layer EXCEPT !.conv = layer.conv_first, !.gdn = layer.gdn_first]
    BY <1>2 DEF Rolled, Restore, recurrent_restore_first
  <2>2. LET l == [layer EXCEPT !.conv = layer.conv_first, !.gdn = layer.gdn_first]
        IN  l.gdn = layer.gdn_first /\ l.conv = layer.conv_first
    BY DEF LayerState
  <2>3. m + accepted + 1 = m + 1 /\ n >= 1
    BY <1>2
  <2> QED BY <2>1, <2>2, <2>3
<1>3. CASE accepted = 1 /\ n = 3
  <2>1. Rolled(layer, accepted, n) = [layer EXCEPT !.conv = layer.conv_second, !.gdn = layer.gdn_second]
    BY <1>3 DEF Rolled, Restore, recurrent_restore_second
  <2>2. LET l == [layer EXCEPT !.conv = layer.conv_second, !.gdn = layer.gdn_second]
        IN  l.gdn = layer.gdn_second /\ l.conv = layer.conv_second
    BY DEF LayerState
  <2>3. m + accepted + 1 = m + 2 /\ n >= 2
    BY <1>3
  <2> QED BY <2>1, <2>2, <2>3
<1> QED BY <1>1, <1>2, <1>3

\* It keeps its type whatever it holds.
LEMMA RolledTyped ==
  ASSUME NEW layer \in LayerState, NEW accepted, NEW n
  PROVE  Rolled(layer, accepted, n) \in LayerState
<1>1. recurrent_restore_first(layer) \in LayerState
  BY DEF recurrent_restore_first, LayerState
<1>2. recurrent_restore_second(layer) \in LayerState
  BY DEF recurrent_restore_second, LayerState
<1>3. Rolled(layer, accepted, n) \in {layer, recurrent_restore_first(layer), recurrent_restore_second(layer)}
  BY DEF Rolled, Restore
<1> QED BY <1>1, <1>2, <1>3

--------------------------------------------------------------------------------
(* The invariant and its parts.                                                  *)

\* What a step can do: the devices' state, the modes of the session, the graphs.
CoreTyped ==
    /\ rec \in [Slots -> LayerState] /\ kv \in CacheRows /\ pending \in Seq(Elements)
    /\ seq \in Seq(Tokens) /\ cur \in Tokens /\ Len(seq) <= MaxContext

ModeTyped ==
    /\ faults \in 0..MaxFaults /\ greedy \in BOOLEAN /\ broken \in BOOLEAN /\ cache \in Caches
    /\ last \in {"none", "prompt", "scalar", "single", "pair", "triple", "failed"}
    /\ taint \subseteq {"reset", "shape", "baked"}

GraphTyped ==
    /\ graph \in [Slots \X Regimes -> [rows : 0..3, position : 0..MaxContext]]
    /\ warm \in [Slots \X Regimes -> BOOLEAN]
    /\ disabled \subseteq 1..4 /\ capturing \subseteq Slots

\* The three parts are the type invariant, before and after a step.
LEMMA TypeParts ==
  /\ TypeOK <=> CoreTyped /\ ModeTyped /\ GraphTyped
  /\ TypeOK' <=> CoreTyped' /\ ModeTyped' /\ GraphTyped'
<1>1. TypeOK <=> CoreTyped /\ ModeTyped /\ GraphTyped
  BY Zenon DEF TypeOK, CoreTyped, ModeTyped, GraphTyped, CacheRows
<1>2. TypeOK' <=> CoreTyped' /\ ModeTyped' /\ GraphTyped'
  BY Zenon DEF TypeOK, CoreTyped, ModeTyped, GraphTyped, CacheRows
<1> QED BY <1>1, <1>2

\* The inductive invariant: each part needs the others.  The next token has its type
\* because the row it is chosen from is exact, and a round starts from exact layers.
Inv == TypeOK /\ SessionExact /\ GreedyNext /\ PendingInStep

\* The model's choice after a sequence of tokens.
LEMMA ChoiceTyped ==
  ASSUME NEW s \in Seq(Tokens), Len(s) >= 1, Len(s) <= MaxContext
  PROVE  Outcomes(s) = {Argmax(s)} /\ Argmax(s) \in Tokens
<1>1. Garbage \notin Range(s)
  BY TokensAreClean
<1>2. Outcomes(s) = {Argmax(s)}
  BY <1>1 DEF Outcomes
<1>3. Len(s) \in 1..MaxContext /\ s \in [1..Len(s) -> Tokens]
  BY DeviceAssumption, LenProperties
<1>4. Argmax(s) \in Tokens
  BY <1>3, DeviceAssumption
<1> QED BY <1>2, <1>4

\* A session whose layers and cache stand for the kept tokens is in step with them.
LEMMA InStepNext ==
  ASSUME NEW full \in Seq(Tokens), seq' = full, NEW k, k = Len(full),
         Exact(rec'[0], full), Exact(rec'[1], full), CachedOf(kv', full, k)
  PROVE  InStep(seq)'
<1>1. \A i \in Slots : rec'[i].gdn = seq' /\ rec'[i].conv = Window(seq')
  BY DEF Slots, Exact
<1>2. \A p \in 0..(Len(seq') - 1) : kv'[p] = SubSeq(seq', 1, p + 1)
  BY DEF CachedOf, Prefix
<1> QED BY <1>1, <1>2 DEF InStep

\* A beginning of what is cached is cached.
LEMMA CachedPrefix ==
  ASSUME NEW full \in Seq(Tokens), NEW n \in 0..Len(full), NEW k \in 0..n,
         NEW cached, CachedOf(cached, full, n), NEW s, s = Prefix(full, k)
  PROVE  CachedOf(cached, s, k) /\ Len(s) = k /\ s \in Seq(Tokens)
<1>1. Len(full) \in Nat
  BY LenProperties
<1>2. k \in 0..Len(full)
  BY <1>1
<1>3. Len(s) = k /\ s \in Seq(Tokens)
  BY <1>2, PrefixProperties
<1>4. ASSUME NEW p \in 0..(k - 1) PROVE cached[p] = Prefix(s, p + 1)
  <2>1. p + 1 \in 0..k /\ p \in 0..(n - 1)
    BY <1>1
  <2>2. Prefix(Prefix(full, k), p + 1) = Prefix(full, p + 1)
    BY <1>2, <2>1, PrefixOfPrefix
  <2> QED BY <2>1, <2>2 DEF CachedOf
<1> QED BY <1>3, <1>4 DEF CachedOf

\* However far a pass comes, the devices' state keeps its type; a pass that comes to its
\* end leaves its layers and its cache.
LEMMA LaunchedTyped ==
  ASSUME rec \in [Slots -> LayerState], kv \in CacheRows, NEW pass, NEW n, PassTyped(pass, n),
         NEW steps \in 0..5, Launched(pass, steps)
  PROVE  /\ rec' \in [Slots -> LayerState] /\ kv' \in CacheRows
         /\ steps = 5 => rec'[0] = pass.recA /\ rec'[1] = pass.recB /\ kv' = pass.kv
<1> DEFINE first == CASE steps = 0 -> rec[0] [] steps = 1 -> [rec[0] EXCEPT !.conv = pass.convA]
                      [] OTHER -> pass.recA
           second == CASE steps <= 3 -> rec[1] [] steps = 4 -> [rec[1] EXCEPT !.conv = pass.convB]
                       [] OTHER -> pass.recB
<1>1. rec' = [rec EXCEPT ![0] = first, ![1] = second] /\ kv' = IF steps >= 3 THEN pass.kv ELSE kv
  BY DEF Launched
<1>2. /\ pass.recA \in LayerState /\ pass.recB \in LayerState /\ pass.kv \in CacheRows
      /\ pass.convA = pass.recA.conv /\ pass.convB = pass.recB.conv
      /\ rec[0] \in LayerState /\ rec[1] \in LayerState
  BY DEF PassTyped, Slots
<1>3. ASSUME NEW layer \in LayerState, NEW other \in LayerState
      PROVE  [layer EXCEPT !.conv = other.conv] \in LayerState
  BY DEF LayerState
<1>4. first \in LayerState
  <2>1. [rec[0] EXCEPT !.conv = pass.convA] \in LayerState
    BY <1>2, <1>3
  <2> QED BY <1>2, <2>1
<1>5. second \in LayerState
  <2>1. [rec[1] EXCEPT !.conv = pass.convB] \in LayerState
    BY <1>2, <1>3
  <2>2. CASE steps <= 3
    BY <1>2, <2>2
  <2>3. CASE steps = 4
    BY <2>1, <2>3
  <2>4. CASE steps = 5
    BY <1>2, <2>4
  <2> QED BY <2>2, <2>3, <2>4
<1>6. steps = 5 => first = pass.recA /\ second = pass.recB
  OBVIOUS
<1> HIDE DEF first, second
<1>7. rec' \in [Slots -> LayerState] /\ rec'[0] = first /\ rec'[1] = second
  BY <1>1, <1>4, <1>5 DEF Slots
<1> QED BY <1>1, <1>2, <1>6, <1>7

--------------------------------------------------------------------------------
(* The verification graphs.                                                      *)

\* A launch carries a record, the call's own or the captured one.
LEMMA ShapeTyped ==
  ASSUME GraphTyped, NEW s \in Slots, NEW g \in Regimes, NEW n \in 0..3, NEW m \in 0..MaxContext
  PROVE  /\ Direct(s, n, m) \in [rows : 0..3, position : 0..MaxContext]
         /\ ShapeOf(s, g, n, m) \in [rows : 0..3, position : 0..MaxContext]
<1>1. Direct(s, n, m) \in [rows : 0..3, position : 0..MaxContext]
  BY DeviceAssumption DEF Direct
<1> DEFINE captured == graph[s, g]
<1>2. captured \in [rows : 0..3, position : 0..MaxContext]
  BY Zenon DEF GraphTyped
<1>3. ShapeOf(s, g, n, m) = captured \/ ShapeOf(s, g, n, m) = Direct(s, n, m)
  BY Zenon DEF ShapeOf
<1> HIDE DEF captured
<1> QED BY <1>1, <1>2, <1>3

\* The launches of a batch, with or without graphs.
LEMMA ShapesTyped ==
  ASSUME GraphTyped, NEW g \in Regimes, NEW n \in 0..3, NEW m \in 0..MaxContext
  PROVE  [s \in Slots |-> ShapeOf(s, g, n, m)] \in Shapes
<1>1. \A s \in Slots : ShapeOf(s, g, n, m) \in [rows : 0..3, position : 0..MaxContext]
  BY ShapeTyped
<1>2. 0..3 \subseteq Nat /\ 0..MaxContext \subseteq Nat
  BY DeviceAssumption
<1>3. \A s \in Slots : ShapeOf(s, g, n, m) \in [rows : Nat, position : Nat]
  BY <1>1, <1>2
<1> QED BY <1>3 DEF Shapes

\* A round that leaves no taint launched what the call asked for.
LEMMA UntaintedFits ==
  ASSUME GraphTyped, NEW g \in Regimes, NEW n \in 0..3, NEW m \in 0..MaxContext,
         GraphTaint(g, n, m) = {}
  PROVE  Fits([s \in Slots |-> ShapeOf(s, g, n, m)], n, m)
<1> SUFFICES ASSUME NEW s \in Slots PROVE ShapeOf(s, g, n, m) = Direct(s, n, m)
  BY DEF Fits
<1> DEFINE x == ShapeOf(s, g, n, m)
           y == Direct(s, n, m)
<1>1. x \in [rows : 0..3, position : 0..MaxContext] /\ y \in [rows : 0..3, position : 0..MaxContext]
  BY ShapeTyped
<1>2. ~(x.rows # n)
  <2> SUFFICES ASSUME x.rows # n PROVE FALSE
    OBVIOUS
  <2>1. s \in {t \in Slots : ShapeOf(t, g, n, m).rows # n}
    OBVIOUS
  <2>2. "shape" \in GraphTaint(g, n, m)
    BY <2>1 DEF GraphTaint
  <2> QED BY <2>2
<1>3. ~(x.position # y.position)
  <2> SUFFICES ASSUME x.position # y.position PROVE FALSE
    OBVIOUS
  <2>1. s \in {t \in Slots : ShapeOf(t, g, n, m).position # Direct(t, n, m).position}
    OBVIOUS
  <2>2. "baked" \in GraphTaint(g, n, m)
    BY <2>1 DEF GraphTaint
  <2> QED BY <2>2
<1>4. y.rows = n
  BY DEF Direct
<1> HIDE DEF x, y
<1>5. x = y
  BY <1>1, <1>2, <1>3, <1>4
<1> QED BY <1>5 DEF x, y

\* What a round records of its segments.
LEMMA GraphStepTyped ==
  ASSUME GraphTyped, NEW g \in Regimes, NEW n \in 0..3, NEW m \in 0..MaxContext,
         NEW refused \in SUBSET Slots, graph_step(g, n, m, refused), capturing' = capturing
  PROVE  GraphTyped'
<1>1. graph' \in [Slots \X Regimes -> [rows : 0..3, position : 0..MaxContext]]
  <2>1. \A k \in Slots \X Regimes :
           /\ Direct(k[1], n, m) \in [rows : 0..3, position : 0..MaxContext]
           /\ graph[k] \in [rows : 0..3, position : 0..MaxContext]
    BY ShapeTyped DEF GraphTyped
  <2>2. graph' = [k \in Slots \X Regimes |->
                    IF k[2] = g /\ GraphMode(k[1], g) = "capture" /\ k[1] \notin refused
                    THEN Direct(k[1], n, m) ELSE graph[k]]
    BY DEF graph_step
  <2> QED BY <2>1, <2>2
<1>2. warm' \in [Slots \X Regimes -> BOOLEAN]
  <2>1. warm' = [k \in Slots \X Regimes |->
                    warm[k] \/ (k[2] = g /\ GraphMode(k[1], g) = "warm")]
    BY DEF graph_step
  <2> QED BY <2>1
<1>3. disabled' \subseteq 1..4
  <2>1. disabled' = disabled \union {s + 1 + 2 * (g - 1) : s \in refused}
    BY DEF graph_step
  <2>2. \A s \in refused : s + 1 + 2 * (g - 1) \in 1..4
    BY DEF Slots, Regimes
  <2> QED BY <2>1, <2>2 DEF GraphTyped
<1>4. capturing' \subseteq Slots
  BY DEF GraphTyped
<1> QED BY <1>1, <1>2, <1>3, <1>4 DEF GraphTyped

\* The refusals of a round are among the failures that are left.
LEMMA RefusalsTyped ==
  ASSUME faults \in 0..MaxFaults, NEW g, NEW refused \in Refusals(g)
  PROVE  refused \in SUBSET Slots /\ faults - Cardinality(refused) \in 0..MaxFaults
<1>1. refused \in SUBSET Slots /\ Cardinality(refused) <= faults
  BY DEF Refusals
<1>2. IsFiniteSet({0}) /\ IsFiniteSet({0} \union {1})
  BY FS_Singleton, FS_AddElement
<1>3. IsFiniteSet(Slots)
  <2>1. Slots = {0} \union {1}
    BY DEF Slots
  <2> QED BY <1>2, <2>1
<1>4. IsFiniteSet(refused)
  BY <1>1, <1>3, FS_Subset
<1>5. Cardinality(refused) \in Nat
  BY <1>4, FS_CardinalityType
<1> QED BY <1>1, <1>5, DeviceAssumption

\* The regime of a round is one of the two.
LEMMA RegimeTyped ==
  ASSUME NEW m, NEW n
  PROVE  RegimeOf(m, n) \in Regimes
BY DEF RegimeOf, Regimes

--------------------------------------------------------------------------------
(* The steps.                                                                    *)

\* A session starts in step with nothing.
LEMMA InitInv == Init => Inv
<1> SUFFICES ASSUME Init PROVE Inv
  OBVIOUS
<1> USE DEF Init
<1>1. <<>> \in Seq(Elements) /\ <<>> \in Seq(Tokens) /\ Len(<<>>) = 0 /\ MaxContext \in Nat /\ MaxFaults \in Nat
  BY EmptySeq, DeviceAssumption
<1>2. recurrent_create \in LayerState /\ recurrent_create.gdn = <<>> /\ recurrent_create.conv = <<>>
  BY <1>1 DEF recurrent_create, LayerState
<1>3. CoreTyped
  BY <1>1, <1>2 DEF CoreTyped, CacheRows
<1>4. ModeTyped
  <2>1. faults \in 0..MaxFaults
    BY <1>1
  <2>2. /\ greedy \in BOOLEAN /\ broken \in BOOLEAN /\ cache \in Caches
        /\ last \in {"none", "prompt", "scalar", "single", "pair", "triple", "failed"}
        /\ taint \subseteq {"reset", "shape", "baked"}
    BY Zenon
  <2> QED BY <2>1, <2>2 DEF ModeTyped
<1>5. GraphTyped
  <2>1. NoGraph \in [rows : 0..3, position : 0..MaxContext]
    BY <1>1 DEF NoGraph
  <2> QED BY <2>1 DEF GraphTyped
<1>6. Window(<<>>) = <<>>
  BY WindowOfNothing
<1>7. InStep(seq)
  <2>1. \A i \in Slots : rec[i].gdn = seq /\ rec[i].conv = Window(seq)
    BY <1>2, <1>6
  <2>2. 0..(Len(seq) - 1) = {}
    BY <1>1
  <2> QED BY <2>1, <2>2 DEF InStep
<1>8. TypeOK
  BY <1>3, <1>4, <1>5, TypeParts
<1> QED BY <1>7, <1>8 DEF Inv, SessionExact, GreedyNext, PendingInStep

\* A failed call leaves types only, which is all that is left to show.
LEMMA BrokenInv ==
  ASSUME TypeOK', broken' = TRUE
  PROVE  Inv'
BY DEF Inv, SessionExact, GreedyNext, PendingInStep

\* A session that is able to go on is in step.
LEMMA AbleInStep ==
  ASSUME Inv, Able
  PROVE  /\ CoreTyped /\ ModeTyped /\ GraphTyped /\ InStep(seq)
         /\ Len(seq) \in 0..MaxContext /\ MaxContext \in Nat
<1>1. CoreTyped /\ ModeTyped /\ GraphTyped
  BY TypeParts DEF Inv
<1>2. InStep(seq)
  BY DEF Inv, SessionExact, Able
<1>3. Len(seq) \in 0..MaxContext /\ MaxContext \in Nat
  BY <1>1, DeviceAssumption, LenProperties DEF CoreTyped
<1> QED BY <1>1, <1>2, <1>3

\* A prompt batch.
LEMMA PromptStep ==
  ASSUME Inv, Prompt
  PROVE  Inv'
<1> DEFINE Body(n, tokens) ==
        /\ Able
        /\ position + n <= MaxContext
        /\ \E pass \in {forward_batch(tokens, position, [s \in Slots |-> Direct(s, n, position)])} :
               /\ Launched(pass, 5)
               /\ pending' = pass.outs[n]
               /\ cur' \in Outcomes(pass.outs[n])
        /\ seq' = seq \o tokens
        /\ greedy' = TRUE
        /\ last' = "prompt"
        /\ UNCHANGED <<faults, broken, cache, graphs, taint>>
<1>0. PICK n \in 1..MaxPrompt : \E tokens \in [1..n -> Tokens] : Body(n, tokens)
  BY Zenon DEF Prompt
<1>1. PICK tokens \in [1..n -> Tokens] : Body(n, tokens)
  BY Zenon, <1>0
<1> DEFINE m == Len(seq)
           shape == [s \in Slots |-> Direct(s, n, m)]
           full == seq \o tokens
           pass == forward_batch(tokens, m, shape)
<1>2. /\ CoreTyped /\ ModeTyped /\ GraphTyped /\ InStep(seq)
      /\ Len(seq) \in 0..MaxContext /\ MaxContext \in Nat /\ n \in 1..MaxContext
      /\ tokens \in Seq(Tokens) /\ Len(tokens) = n
  <2>1. CoreTyped /\ ModeTyped /\ GraphTyped /\ InStep(seq) /\ Len(seq) \in 0..MaxContext /\ MaxContext \in Nat
    BY <1>1, AbleInStep
  <2>2. n \in Nat /\ n >= 1
    BY DeviceAssumption
  <2>3. tokens \in Seq(Tokens) /\ Len(tokens) = n
    BY <2>2, FunctionIsSeq
  <2>4. n \in 1..MaxContext
    BY <1>1, <2>1, <2>2 DEF position
  <2> QED BY <2>1, <2>3, <2>4
<1>3. m + n <= MaxContext /\ Launched(pass, 5) /\ pending' = pass.outs[n] /\ cur' \in Outcomes(pass.outs[n])
  BY <1>1 DEF position
<1>4. shape \in Shapes /\ Fits(shape, n, m)
  <2>1. \A s \in Slots : Direct(s, n, m) \in [rows : Nat, position : Nat]
    BY <1>2 DEF Direct
  <2> QED BY <2>1 DEF Shapes, Fits
<1>5. seq \in Seq(Tokens) /\ rec \in [Slots -> LayerState] /\ kv \in CacheRows
  BY <1>2 DEF CoreTyped
<1>6. full = seq \o tokens /\ m = Len(seq) /\ pass = forward_batch(tokens, m, shape) /\ m \in Nat
  BY <1>2
<1>7. seq' = full
  BY <1>1
<1> HIDE DEF shape, pass, full, m
<1>8. PassTyped(pass, n)
  <2>1. PassTyped(forward_batch(tokens, m, shape), Len(tokens))
    BY <1>2, <1>4, <1>5, <1>6, ForwardTyped
  <2> QED BY <1>2, <1>6, <2>1
<1>9. PassExact(pass, full, m, n) /\ Behind(tokens, full, m, n)
  BY <1>2, <1>3, <1>4, <1>5, <1>6, ForwardExact
<1>10. /\ full \in Seq(Tokens) /\ Len(full) = m + n /\ full = Prefix(full, m + n)
       /\ m + n \in 1..MaxContext
  BY <1>2, <1>3, <1>6, <1>9 DEF Behind
<1>11. pass.outs[n] = full /\ CachedOf(pass.kv, full, m + n) /\ Exact(pass.recA, full) /\ Exact(pass.recB, full)
  BY <1>2, <1>9, <1>10 DEF PassExact, Marked
<1>12. Outcomes(full) = {Argmax(full)} /\ Argmax(full) \in Tokens
  BY <1>10, ChoiceTyped
<1>13. cur' = Argmax(full) /\ pending' = full
  BY <1>3, <1>11, <1>12
<1>14. /\ rec' \in [Slots -> LayerState] /\ kv' \in CacheRows
       /\ rec'[0] = pass.recA /\ rec'[1] = pass.recB /\ kv' = pass.kv
  <2>1. 5 \in 0..5 /\ Launched(pass, 5)
    BY <1>3
  <2> QED BY <1>5, <1>8, <2>1, LaunchedTyped
<1>15. InStep(seq)'
  BY <1>7, <1>10, <1>11, <1>14, InStepNext
<1>16. CoreTyped'
  <2>1. full \in Seq(Elements) /\ Len(full) <= MaxContext
    BY <1>10, <1>2, TokensAreClean
  <2> QED BY <1>7, <1>10, <1>12, <1>13, <1>14, <2>1 DEF CoreTyped, CacheRows
<1>17. ModeTyped' /\ GraphTyped'
  BY <1>1, <1>2 DEF ModeTyped, GraphTyped, graphs
<1>18. TypeOK'
  BY <1>16, <1>17, TypeParts
<1> QED BY <1>7, <1>13, <1>15, <1>18 DEF Inv, SessionExact, GreedyNext, PendingInStep

\* One token through the scalar path.
LEMMA ScalarStep ==
  ASSUME Inv, Scalar
  PROVE  Inv'
<1> DEFINE m == Len(seq)
           full == Append(seq, cur)
           pass == forward_body(cur, m)
<1>1. /\ Able /\ m < MaxContext
      /\ Launched(pass, 5) /\ cur' \in Outcomes(pass.outs[1])
      /\ seq' = full /\ greedy' = TRUE /\ last' = "scalar"
      /\ UNCHANGED <<pending, faults, broken, cache, graphs, taint>>
  BY Zenon DEF Scalar, position
<1>2. /\ CoreTyped /\ ModeTyped /\ GraphTyped /\ InStep(seq)
      /\ Len(seq) \in 0..MaxContext /\ MaxContext \in Nat
  BY <1>1, AbleInStep
<1>3. seq \in Seq(Tokens) /\ rec \in [Slots -> LayerState] /\ kv \in CacheRows /\ cur \in Tokens
  BY <1>2 DEF CoreTyped
<1>4. full = Append(seq, cur) /\ m = Len(seq) /\ pass = forward_body(cur, m) /\ m \in 0..(MaxContext - 1)
  BY <1>1, <1>2
<1>5. full \in Seq(Tokens) /\ Len(full) = m + 1
  BY <1>3, AppendProperties
<1> HIDE DEF pass, full, m
<1>6. PassTyped(pass, 1)
  BY <1>3, <1>4, ScalarTyped
<1>7. /\ Exact(pass.recA, full) /\ Exact(pass.recB, full)
      /\ CachedOf(pass.kv, full, m + 1)
      /\ pass.outs[1] = full
  <2>1. Exact(pass.recA, full)
    BY <1>1, <1>2, <1>3, <1>4, ScalarExact
  <2>2. Exact(pass.recB, full)
    BY <1>1, <1>2, <1>3, <1>4, ScalarExact
  <2>3. CachedOf(pass.kv, full, m + 1)
    BY <1>1, <1>2, <1>3, <1>4, ScalarExact
  <2>4. pass.outs[1] = full
    BY <1>1, <1>2, <1>3, <1>4, ScalarExact
  <2> QED BY <2>1, <2>2, <2>3, <2>4
<1>8. m + 1 \in 1..MaxContext
  BY <1>2, <1>4
<1>9. Outcomes(full) = {Argmax(full)} /\ Argmax(full) \in Tokens
  BY <1>5, <1>8, ChoiceTyped
<1>10. cur' = Argmax(full)
  BY <1>1, <1>7, <1>9
<1>11. /\ rec' \in [Slots -> LayerState] /\ kv' \in CacheRows
       /\ rec'[0] = pass.recA /\ rec'[1] = pass.recB /\ kv' = pass.kv
  <2>1. 5 \in 0..5 /\ Launched(pass, 5)
    BY <1>1
  <2> QED BY <1>3, <1>6, <2>1, LaunchedTyped
<1>12. InStep(seq)'
  BY <1>1, <1>5, <1>7, <1>11, InStepNext
<1>13. CoreTyped'
  BY <1>1, <1>2, <1>5, <1>8, <1>9, <1>10, <1>11 DEF CoreTyped, CacheRows
<1>14. ModeTyped' /\ GraphTyped'
  BY <1>1, <1>2 DEF ModeTyped, GraphTyped, graphs
<1>15. TypeOK'
  BY <1>13, <1>14, TypeParts
<1> QED BY <1>1, <1>10, <1>12, <1>15 DEF Inv, SessionExact, GreedyNext, PendingInStep

\* The layers, the cache and the chosen row of a round that keeps k tokens in all.
Keeps(pass, accepted, n, kept, k) ==
    /\ Exact(Rolled(pass.recA, accepted, n), kept)
    /\ Exact(Rolled(pass.recB, accepted, n), kept)
    /\ CachedOf(pass.kv, kept, k)
    /\ pass.outs[accepted + 1] = kept

\* What a round leaves when its launches fit: it keeps `accepted` + 1 tokens of its input.
LEMMA RoundExact ==
  ASSUME CoreTyped, InStep(seq), NEW input \in Seq(Tokens), NEW n \in 1..3, n = Len(input),
         NEW m, m = Len(seq), m + n <= MaxContext,
         NEW shape \in Shapes, Fits(shape, n, m),
         NEW pass, pass = forward_batch(input, m, shape),
         NEW accepted \in 0..(n - 1),
         NEW kept, kept = seq \o SubSeq(input, 1, accepted + 1)
  PROVE  Keeps(pass, accepted, n, kept, m + accepted + 1)
<1> DEFINE full == seq \o input
           k == accepted + 1
<1>1. seq \in Seq(Tokens) /\ rec \in [Slots -> LayerState]
  BY DEF CoreTyped
<1>2. full = seq \o input
  OBVIOUS
<1> HIDE DEF full
<1>3. PassExact(pass, full, m, n) /\ Behind(input, full, m, n)
  BY <1>1, <1>2, ForwardExact
<1>4. full \in Seq(Tokens) /\ Len(full) = m + n /\ m \in Nat /\ k \in 1..n /\ m + k = m + accepted + 1
  BY <1>3 DEF Behind
<1>5. kept = Prefix(full, m + k)
  <2>1. kept = seq \o Prefix(input, k)
    BY DEF Prefix
  <2> QED BY <1>3, <1>4, <2>1 DEF Behind
<1>6. /\ Exact(Rolled(pass.recA, accepted, n), kept)
      /\ Exact(Rolled(pass.recB, accepted, n), kept)
  <2>1. /\ Marked(pass.recA, full, m, n) /\ Marked(pass.recB, full, m, n) /\ m \in Nat
        /\ kept = Prefix(full, m + accepted + 1)
    BY <1>3, <1>4, <1>5 DEF PassExact
  <2>2. Exact(Rolled(pass.recA, accepted, n), Prefix(full, m + accepted + 1))
    BY <2>1, RolledExact
  <2>3. Exact(Rolled(pass.recB, accepted, n), Prefix(full, m + accepted + 1))
    BY <2>1, RolledExact
  <2> QED BY <2>1, <2>2, <2>3
<1>7. CachedOf(pass.kv, kept, m + k) /\ Len(kept) = m + k /\ kept \in Seq(Tokens)
  <2>1. m + n \in 0..Len(full) /\ m + k \in 0..(m + n)
    BY <1>4
  <2>2. CachedOf(pass.kv, full, m + n)
    BY <1>3 DEF PassExact
  <2> HIDE DEF k
  <2> QED BY <1>4, <1>5, <2>1, <2>2, CachedPrefix
<1>8. pass.outs[k] = kept
  BY <1>3, <1>4, <1>5 DEF PassExact
<1> QED BY <1>4, <1>6, <1>7, <1>8 DEF Keeps

\* A round of one to three rows, with graphs or without, greedy or sampled.
LEMMA RoundStep ==
  ASSUME Inv, Able, NEW drafts \in Seq(Tokens), Len(drafts) \in 0..2, Len(seq) + Len(drafts) < MaxContext,
         NEW sampled \in BOOLEAN, Round(drafts, sampled)
  PROVE  Inv'
<1> DEFINE m == Len(seq)
           input == <<cur>> \o drafts
           n == Len(input)
           g == RegimeOf(m, n)
           shape == [s \in Slots |-> ShapeOf(s, g, n, m)]
           pass == forward_batch(input, m, shape)
<1>1. PICK accepted \in 0..(n - 1), next \in Tokens, refused \in Refusals(g) :
        /\ sampled \/ Accepted(drafts, pass.outs, accepted, next)
        /\ rec' = [s \in Slots |-> Rolled(IF s = 0 THEN pass.recA ELSE pass.recB, accepted, n)]
        /\ kv' = pass.kv
        /\ pending' = IF n = 3 THEN copy_column(pass.outs, accepted) ELSE pending
        /\ seq' = seq \o SubSeq(input, 1, accepted + 1)
        /\ cur' = next
        /\ greedy' = ~sampled
        /\ last' = CASE n = 3 -> "triple" [] n = 2 -> "pair" [] OTHER -> "single"
        /\ graph_step(g, n, m, refused)
        /\ faults' = faults - Cardinality(refused)
        /\ taint' = taint \union GraphTaint(g, n, m)
        /\ UNCHANGED <<broken, cache, capturing>>
  BY Zenon DEF Round, position
<1>2. /\ CoreTyped /\ ModeTyped /\ GraphTyped /\ InStep(seq)
      /\ Len(seq) \in 0..MaxContext /\ MaxContext \in Nat
  BY AbleInStep
<1>3. /\ seq \in Seq(Tokens) /\ rec \in [Slots -> LayerState] /\ kv \in CacheRows /\ cur \in Tokens
      /\ pending \in Seq(Elements)
  BY <1>2 DEF CoreTyped
<1>4. input \in Seq(Tokens) /\ n \in 1..3 /\ m + n <= MaxContext
  <2> DEFINE one == <<cur>>
  <2>1. one \in Seq(Tokens) /\ Len(one) = 1
    BY <1>3
  <2> HIDE DEF one
  <2>2. one \o drafts \in Seq(Tokens) /\ Len(one \o drafts) = 1 + Len(drafts)
    BY <2>1, ConcatProperties
  <2>3. input = one \o drafts
    BY DEF one
  <2> HIDE DEF input
  <2> QED BY <1>2, <2>2, <2>3
<1>5. g \in Regimes /\ n \in 0..3 /\ m \in 0..MaxContext
  BY <1>2, <1>4, RegimeTyped
<1>6. shape \in Shapes
  <2> HIDE DEF g, n, m
  <2> QED BY <1>2, <1>5, ShapesTyped
<1>7. GraphTaint(g, n, m) = {} => Fits(shape, n, m)
  <2> HIDE DEF g, n, m
  <2> QED BY <1>2, <1>5, UntaintedFits
<1> DEFINE kept == seq \o SubSeq(input, 1, accepted + 1)
<1>8. pass = forward_batch(input, m, shape) /\ kept = seq \o SubSeq(input, 1, accepted + 1) /\ n = Len(input) /\ m = Len(seq)
  OBVIOUS
<1> HIDE DEF shape, pass, kept, g, n, input, m
<1>9. PassTyped(pass, n)
  <2>1. PassTyped(forward_batch(input, m, shape), Len(input))
    BY <1>3, <1>4, <1>5, <1>6, ForwardTyped
  <2> QED BY <1>8, <2>1
<1>10. pass.recA \in LayerState /\ pass.recB \in LayerState /\ pass.kv \in CacheRows /\ pass.outs \in [1..n -> Rows]
  BY <1>9 DEF PassTyped
<1>11. accepted \in 0..(n - 1) /\ next \in Tokens /\ accepted + 1 \in 1..n /\ accepted + 1 \in 0..Len(input)
  BY <1>4, <1>8
<1>12. /\ rec' \in [Slots -> LayerState]
       /\ rec'[0] = Rolled(pass.recA, accepted, n) /\ rec'[1] = Rolled(pass.recB, accepted, n)
  <2>1. Rolled(pass.recA, accepted, n) \in LayerState /\ Rolled(pass.recB, accepted, n) \in LayerState
    BY <1>10, RolledTyped
  <2> QED BY <1>1, <2>1 DEF Slots
<1>13. kept \in Seq(Tokens) /\ Len(kept) = m + accepted + 1 /\ seq' = kept
  <2> DEFINE p == Prefix(input, accepted + 1)
  <2>1. p \in Seq(Tokens) /\ Len(p) = accepted + 1
    BY <1>4, <1>11, PrefixProperties
  <2>2. kept = seq \o p /\ seq' = kept
    BY <1>1, <1>8 DEF Prefix
  <2> HIDE DEF p
  <2>3. seq \o p \in Seq(Tokens) /\ Len(seq \o p) = Len(seq) + Len(p)
    BY <1>3, <2>1, ConcatProperties
  <2> DEFINE v == seq \o p
  <2>4. v \in Seq(Tokens) /\ Len(v) = Len(seq) + Len(p) /\ kept = v
    BY <2>2, <2>3
  <2> HIDE DEF v
  <2>5. Len(kept) = m + accepted + 1
    BY <1>2, <1>8, <1>11, <2>1, <2>4
  <2> QED BY <2>2, <2>4, <2>5
<1>14. CoreTyped'
  <2>1. pending' \in Seq(Elements)
    <3>1. pass.outs[accepted + 1] \in Seq(Elements)
      BY <1>10, <1>11 DEF Rows
    <3> QED BY <1>1, <1>3, <3>1 DEF copy_column
  <2>2. Len(kept) <= MaxContext
    BY <1>2, <1>4, <1>5, <1>11, <1>13
  <2>3. kv' \in CacheRows /\ cur' \in Tokens
    BY <1>1, <1>10, <1>11
  <2> QED BY <1>12, <1>13, <2>1, <2>2, <2>3 DEF CoreTyped, CacheRows
<1>15. refused \in SUBSET Slots /\ faults' \in 0..MaxFaults
  <2>1. faults \in 0..MaxFaults
    BY <1>2 DEF ModeTyped
  <2> QED BY <1>1, <2>1, RefusalsTyped
<1>16. GraphTyped'
  <2>1. graph_step(g, n, m, refused) /\ capturing' = capturing
    BY <1>1
  <2> QED BY <1>2, <1>5, <1>15, <2>1, GraphStepTyped
<1>17. ModeTyped'
  <2>1. taint' \subseteq {"reset", "shape", "baked"}
    BY <1>1, <1>2 DEF ModeTyped, GraphTaint
  <2>2. last' \in {"none", "prompt", "scalar", "single", "pair", "triple", "failed"}
    BY <1>1, <1>4
  <2>3. greedy' \in BOOLEAN /\ broken' \in BOOLEAN /\ cache' \in Caches
    BY Zenon, <1>1, <1>2 DEF ModeTyped
  <2> QED BY <1>15, <2>1, <2>2, <2>3 DEF ModeTyped
<1>18. TypeOK'
  BY <1>14, <1>16, <1>17, TypeParts
<1>19. ASSUME taint' = {}
       PROVE  /\ InStep(seq)'
              /\ greedy' => cur' = Argmax(seq')
              /\ n = 3 => pending' = seq'
  <2>1. Fits(shape, n, m)
    BY <1>1, <1>7, <1>19
  <2> DEFINE k == m + accepted + 1
  <2>2. Keeps(pass, accepted, n, kept, k)
    BY <1>2, <1>4, <1>6, <1>8, <1>11, <2>1, RoundExact
  <2>6. kept \in Seq(Tokens) /\ k = Len(kept) /\ seq' = kept /\ kv' = pass.kv
    BY <1>1, <1>13
  <2> HIDE DEF k
  <2>7. Exact(rec'[0], kept) /\ Exact(rec'[1], kept) /\ CachedOf(kv', kept, k)
    BY <1>12, <2>2, <2>6 DEF Keeps
  <2>8. InStep(seq)'
    BY <2>6, <2>7, InStepNext
  <2>9. ASSUME greedy' PROVE cur' = Argmax(seq')
    <3>1. ~sampled
      BY Zenon, <1>1, <2>9
    <3>2. next \in Outcomes(pass.outs[accepted + 1])
      BY Zenon, <1>1, <3>1 DEF Accepted
    <3>3. Len(kept) >= 1 /\ Len(kept) <= MaxContext
      BY <1>2, <1>4, <1>5, <1>11, <1>13
    <3>4. Outcomes(kept) = {Argmax(kept)}
      BY <2>6, <3>3, ChoiceTyped
    <3>5. next = Argmax(kept)
      BY <2>2, <3>2, <3>4 DEF Keeps
    <3> QED BY <1>1, <2>6, <3>5
  <2>10. n = 3 => pending' = seq'
    BY <1>1, <2>2, <2>6 DEF Keeps, copy_column
  <2> QED BY <2>8, <2>9, <2>10
<1>20. last' \in {"prompt", "triple"} => n = 3
  BY <1>1, <1>4
<1> QED BY <1>18, <1>19, <1>20 DEF Inv, SessionExact, GreedyNext, PendingInStep

\* The three kinds of rounds.
LEMMA RoundsStep ==
  ASSUME Inv, SingleRound \/ GreedyRound \/ SampledRound
  PROVE  Inv'
<1>1. ASSUME NEW k \in Nat, NEW d \in [1..k -> Tokens] PROVE d \in Seq(Tokens) /\ Len(d) = k
  BY FunctionIsSeq
<1>2. ASSUME SingleRound PROVE Inv'
  <2>1. Able /\ Len(seq) < MaxContext /\ Round(<<>>, FALSE)
    BY <1>2 DEF SingleRound, position
  <2>2. Len(seq) \in 0..MaxContext
    BY <2>1, AbleInStep
  <2>3. <<>> \in Seq(Tokens) /\ Len(<<>>) \in 0..2 /\ Len(seq) + Len(<<>>) < MaxContext
    BY <2>1, <2>2, EmptySeq
  <2> QED BY <2>1, <2>3, RoundStep
<1>3. ASSUME GreedyRound PROVE Inv'
  <2>1. PICK capacity \in Capacities :
          /\ Able /\ seq # <<>>
          /\ \/ TripleFits(capacity) /\ \E d \in [1..2 -> Tokens] : Round(d, FALSE)
             \/ PairFits(capacity) /\ \E d \in [1..1 -> Tokens] : Round(d, FALSE)
    BY <1>3 DEF GreedyRound
  <2>2. CASE TripleFits(capacity) /\ \E d \in [1..2 -> Tokens] : Round(d, FALSE)
    <3>1. PICK d \in [1..2 -> Tokens] : Round(d, FALSE)
      BY <2>2
    <3>2. d \in Seq(Tokens) /\ Len(d) = 2
      BY <1>1
    <3>3. Len(d) \in 0..2 /\ Len(seq) + Len(d) < MaxContext
      BY <2>2, <3>2 DEF TripleFits, position
    <3> QED BY <2>1, <3>1, <3>2, <3>3, RoundStep
  <2>3. CASE PairFits(capacity) /\ \E d \in [1..1 -> Tokens] : Round(d, FALSE)
    <3>1. PICK d \in [1..1 -> Tokens] : Round(d, FALSE)
      BY <2>3
    <3>2. d \in Seq(Tokens) /\ Len(d) = 1
      BY <1>1
    <3>3. Len(d) \in 0..2 /\ Len(seq) + Len(d) < MaxContext
      BY <2>3, <3>2 DEF PairFits, position
    <3> QED BY <2>1, <3>1, <3>2, <3>3, RoundStep
  <2> QED BY <2>1, <2>2, <2>3
<1>4. ASSUME SampledRound PROVE Inv'
  <2>1. Able /\ TripleFits(3) /\ \E d \in [1..2 -> Tokens] : Round(d, TRUE)
    BY <1>4 DEF SampledRound
  <2>2. PICK d \in [1..2 -> Tokens] : Round(d, TRUE)
    BY <2>1
  <2>3. d \in Seq(Tokens) /\ Len(d) = 2
    BY <1>1
  <2>4. Len(d) \in 0..2 /\ Len(seq) + Len(d) < MaxContext
    BY <2>1, <2>3 DEF TripleFits, position
  <2> QED BY <2>1, <2>2, <2>3, <2>4, RoundStep
<1> QED BY <1>2, <1>3, <1>4

\* A device call that fails leaves the devices' state well-formed and says so.
LEMMA FailStep ==
  ASSUME Inv, Fail
  PROVE  Inv'
<1> DEFINE m == Len(seq)
           tokens == <<cur, cur, cur>>
           shape == [s \in Slots |-> Direct(s, 3, m)]
           pass == forward_batch(tokens, m, shape)
<1>1. /\ broken' = TRUE /\ last' = "failed"
      /\ \/ /\ faults > 0 /\ faults' = faults - 1
            /\ \E steps \in 0..5 : Launched(pass, steps)
            /\ UNCHANGED capturing
         \/ /\ faults > 0 /\ faults' = faults - 1
            /\ \E s \in Slots : capturing' = {s}
            /\ UNCHANGED <<rec, kv>>
         \/ UNCHANGED <<rec, kv, capturing, faults>>
      /\ UNCHANGED <<pending, seq, cur, greedy, cache, graph, warm, disabled, taint>>
  BY Zenon DEF Fail, position
<1>2. CoreTyped /\ ModeTyped /\ GraphTyped
  BY TypeParts DEF Inv
<1>3. /\ seq \in Seq(Tokens) /\ rec \in [Slots -> LayerState] /\ kv \in CacheRows /\ cur \in Tokens
      /\ m \in Nat /\ tokens \in Seq(Tokens)
  <2>1. seq \in Seq(Tokens) /\ rec \in [Slots -> LayerState] /\ kv \in CacheRows /\ cur \in Tokens
    BY <1>2 DEF CoreTyped
  <2>2. m \in Nat
    BY <2>1, LenProperties
  <2> QED BY <2>1, <2>2
<1>4. shape \in Shapes
  <2>1. \A s \in Slots : Direct(s, 3, m) \in [rows : Nat, position : Nat]
    BY <1>3 DEF Direct
  <2> QED BY <2>1 DEF Shapes
<1>5. PassTyped(pass, Len(tokens))
  <2> HIDE DEF tokens, shape
  <2> QED BY <1>3, <1>4, ForwardTyped
<1>6. rec' \in [Slots -> LayerState] /\ kv' \in CacheRows
  <2>1. CASE UNCHANGED <<rec, kv>>
    BY <1>3, <2>1
  <2>2. ASSUME NEW steps \in 0..5, Launched(pass, steps) PROVE rec' \in [Slots -> LayerState] /\ kv' \in CacheRows
    <3> HIDE DEF pass, tokens
    <3> QED BY <1>3, <1>5, <2>2, LaunchedTyped
  <2> HIDE DEF pass
  <2> QED BY <1>1, <2>1, <2>2
<1> HIDE DEF pass, shape, tokens
<1>7. CoreTyped'
  BY <1>1, <1>2, <1>6 DEF CoreTyped, CacheRows
<1>8. GraphTyped'
  BY <1>1, <1>2 DEF GraphTyped
<1>9. ModeTyped'
  <2>1. faults' \in 0..MaxFaults
    BY <1>1, <1>2, DeviceAssumption DEF ModeTyped
  <2>2. /\ greedy' \in BOOLEAN /\ broken' \in BOOLEAN /\ cache' \in Caches
        /\ last' \in {"none", "prompt", "scalar", "single", "pair", "triple", "failed"}
        /\ taint' \subseteq {"reset", "shape", "baked"}
    BY Zenon, <1>1, <1>2 DEF ModeTyped
  <2> QED BY <2>1, <2>2 DEF ModeTyped
<1>10. TypeOK'
  BY <1>7, <1>8, <1>9, TypeParts
<1> QED BY <1>1, <1>10, BrokenInv

\* A reset empties what it reaches.
LEMMA ResetTyped ==
  ASSUME NEW layer \in LayerState, NEW done \in 0..2
  PROVE  /\ recurrent_reset(layer, done) \in LayerState
         /\ done = 2 => Exact(recurrent_reset(layer, done), <<>>)
<1>1. <<>> \in Seq(Elements) /\ <<>> \in Seq(Tokens) /\ Len(<<>>) = 0
  BY EmptySeq
<1>2. Window(<<>>) = <<>>
  BY WindowOfNothing
<1>3. recurrent_reset(layer, done) \in LayerState
  <2>1. recurrent_reset(layer, done) =
          [layer EXCEPT !.conv = IF done >= 1 THEN <<>> ELSE layer.conv,
                        !.gdn = IF done >= 2 THEN <<>> ELSE layer.gdn]
    BY DEF recurrent_reset
  <2> QED BY <1>1, <2>1 DEF LayerState
<1>4. ASSUME done = 2 PROVE Exact(recurrent_reset(layer, done), <<>>)
  <2>1. recurrent_reset(layer, done) = [layer EXCEPT !.conv = <<>>, !.gdn = <<>>]
    BY <1>4 DEF recurrent_reset
  <2>2. LET l == [layer EXCEPT !.conv = <<>>, !.gdn = <<>>]
        IN  l.gdn = <<>> /\ l.conv = <<>>
    BY DEF LayerState
  <2> QED BY <1>2, <2>1, <2>2 DEF Exact
<1> QED BY <1>3, <1>4

\* A reset in which every call succeeds starts the session anew; any other is tainted.
LEMMA ResetStep ==
  ASSUME Inv, Reset
  PROVE  Inv'
<1>1. PICK failed \in {f \in SUBSET (Parts \ Stuck) : Cardinality(f) <= faults}, reached \in 0..1 :
        LET done(k) == CASE k \in Stuck -> 0 [] k \in failed -> reached [] OTHER -> 2
        IN  /\ rec' = [s \in Slots |-> recurrent_reset(rec[s], done(IF s = 0 THEN "a" ELSE "b"))]
            /\ kv' = attention_reset(done("kv"))
            /\ pending' = <<>>
            /\ seq' = <<>>
            /\ greedy' = FALSE
            /\ last' = "none"
            /\ faults' = faults - Cardinality(failed)
            /\ broken' = FALSE
            /\ taint' = {"reset" : k \in failed \union Stuck}
            /\ UNCHANGED <<cur, cache, graphs>>
  BY Zenon DEF Reset
<1> DEFINE done(k) == CASE k \in Stuck -> 0 [] k \in failed -> reached [] OTHER -> 2
           a == done("a")
           b == done("b")
           c == done("kv")
<1>2. a \in 0..2 /\ b \in 0..2 /\ c \in 0..2
  OBVIOUS
<1>3. failed \union Stuck = {} => a = 2 /\ b = 2 /\ c = 2
  OBVIOUS
<1>4. /\ rec' = [s \in Slots |-> recurrent_reset(rec[s], done(IF s = 0 THEN "a" ELSE "b"))]
      /\ kv' = attention_reset(c)
      /\ pending' = <<>> /\ seq' = <<>> /\ greedy' = FALSE /\ last' = "none"
      /\ faults' = faults - Cardinality(failed) /\ broken' = FALSE
      /\ taint' = {"reset" : k \in failed \union Stuck}
      /\ UNCHANGED <<cur, cache, graphs>>
  BY <1>1
<1>5. rec' = [s \in Slots |-> IF s = 0 THEN recurrent_reset(rec[0], a) ELSE recurrent_reset(rec[1], b)]
  BY <1>4 DEF Slots
<1> HIDE DEF a, b, c, done
<1>6. CoreTyped /\ ModeTyped /\ GraphTyped
  BY TypeParts DEF Inv
<1>7. rec[0] \in LayerState /\ rec[1] \in LayerState /\ kv \in CacheRows
  BY <1>6 DEF CoreTyped, Slots
<1>8. /\ recurrent_reset(rec[0], a) \in LayerState /\ recurrent_reset(rec[1], b) \in LayerState
      /\ a = 2 => Exact(recurrent_reset(rec[0], a), <<>>)
      /\ b = 2 => Exact(recurrent_reset(rec[1], b), <<>>)
  BY <1>2, <1>7, ResetTyped
<1>9. <<>> \in Seq(Elements) /\ <<>> \in Seq(Tokens) /\ Len(<<>>) = 0 /\ MaxContext \in Nat
  BY EmptySeq, DeviceAssumption
<1>10. rec' \in [Slots -> LayerState] /\ kv' \in CacheRows
  <2>1. rec' \in [Slots -> LayerState]
    BY <1>5, <1>8
  <2>2. kv' \in CacheRows
    BY <1>4, <1>7, <1>9 DEF attention_reset, CacheRows
  <2> QED BY <2>1, <2>2
<1>11. CoreTyped'
  BY <1>4, <1>6, <1>9, <1>10 DEF CoreTyped, CacheRows
<1>12. faults' \in 0..MaxFaults
  <2>1. failed \in SUBSET Parts /\ Cardinality(failed) <= faults /\ faults \in 0..MaxFaults
    BY <1>6 DEF ModeTyped
  <2>2. IsFiniteSet(({"a"} \union {"b"}) \union {"kv"})
    <3>1. IsFiniteSet({"a"})
      BY FS_Singleton
    <3>2. IsFiniteSet({"a"} \union {"b"})
      BY <3>1, FS_AddElement
    <3> QED BY <3>2, FS_AddElement
  <2>3. Parts = ({"a"} \union {"b"}) \union {"kv"}
    BY DEF Parts
  <2>4. IsFiniteSet(failed)
    BY <2>1, <2>2, <2>3, FS_Subset
  <2>5. Cardinality(failed) \in Nat
    BY <2>4, FS_CardinalityType
  <2> QED BY <1>4, <2>1, <2>5, DeviceAssumption
<1>13. ModeTyped'
  <2>1. /\ greedy' \in BOOLEAN /\ broken' \in BOOLEAN /\ cache' \in Caches
        /\ last' \in {"none", "prompt", "scalar", "single", "pair", "triple", "failed"}
        /\ taint' \subseteq {"reset", "shape", "baked"}
    BY Zenon, <1>4, <1>6 DEF ModeTyped
  <2> QED BY <1>12, <2>1 DEF ModeTyped
<1>14. GraphTyped'
  BY <1>4, <1>6 DEF GraphTyped, graphs
<1>15. TypeOK'
  BY <1>11, <1>13, <1>14, TypeParts
<1>16. ASSUME taint' = {} PROVE InStep(seq)'
  <2>1. failed \union Stuck = {}
    <3>1. ASSUME NEW x \in failed \union Stuck PROVE FALSE
      <4>1. "reset" \in taint'
        BY <1>4
      <4> QED BY <1>16, <4>1
    <3> QED BY <3>1
  <2>2. a = 2 /\ b = 2
    BY <1>3, <2>1
  <2>3. Exact(rec'[0], <<>>) /\ Exact(rec'[1], <<>>)
    BY <1>5, <1>8, <2>2 DEF Slots
  <2>4. CachedOf(kv', <<>>, 0)
    <3>1. 0..(0 - 1) = {}
      OBVIOUS
    <3> QED BY <3>1 DEF CachedOf
  <2> QED BY <1>4, <1>9, <2>3, <2>4, InStepNext
<1> QED BY <1>4, <1>15, <1>16 DEF Inv, SessionExact, GreedyNext, PendingInStep

\* Nothing happens.
LEMMA StutterStep ==
  ASSUME Inv, UNCHANGED vars
  PROVE  Inv'
<1>1. UNCHANGED <<rec, kv, pending, seq, cur, greedy, last, faults, broken, cache, graph,
                  warm, disabled, capturing, taint>>
  BY DEF vars
<1>2. CoreTyped /\ ModeTyped /\ GraphTyped
  BY TypeParts DEF Inv
<1>3. CoreTyped' /\ ModeTyped' /\ GraphTyped'
  BY <1>1, <1>2 DEF CoreTyped, ModeTyped, GraphTyped, CacheRows
<1>4. TypeOK'
  BY <1>3, TypeParts
<1>5. SessionExact' /\ GreedyNext' /\ PendingInStep'
  BY <1>1 DEF Inv, SessionExact, GreedyNext, PendingInStep, InStep
<1> QED BY <1>4, <1>5 DEF Inv

\* The invariant holds in every reachable state.
LEMMA Invariant == Spec => []Inv
<1>1. Init => Inv
  BY InitInv
<1>2. Inv /\ [Next]_vars => Inv'
  <2> SUFFICES ASSUME Inv, [Next]_vars PROVE Inv'
    OBVIOUS
  <2>1. CASE Prompt
    BY <2>1, PromptStep
  <2>2. CASE Scalar
    BY <2>2, ScalarStep
  <2>3. CASE SingleRound \/ GreedyRound \/ SampledRound
    BY <2>3, RoundsStep
  <2>4. CASE Fail
    BY <2>4, FailStep
  <2>5. CASE Reset
    BY <2>5, ResetStep
  <2>6. CASE UNCHANGED vars
    BY <2>6, StutterStep
  <2> QED BY <2>1, <2>2, <2>3, <2>4, <2>5, <2>6 DEF Next
<1> QED BY <1>1, <1>2, PTL DEF Spec

--------------------------------------------------------------------------------
(* What follows.                                                                 *)

\* Every variable of a session keeps its type: whatever a batch, a replayed graph or a call
\* that failed half-way left in the layers, each state stays a state, a captured graph
\* stays the record of one call, and the failures never run below zero.
THEOREM TypeCorrect == Spec => []TypeOK
BY Invariant, PTL DEF Inv

\* Speculation never shows: however long the session, whatever was drafted, accepted,
\* rejected or rolled back, both recurrent layers and the cache stand for exactly the
\* tokens the service kept (fortai_cuda_recurrent_restore_first, _second and the rejected
\* rows of the KV cache).
THEOREM Speculation == Spec => []SessionExact
BY Invariant, PTL DEF Inv

\* A greedy round of two or three rows goes on with the token single steps would choose.
THEOREM GreedyAsSingle == Spec => []GreedyNext
BY Invariant, PTL DEF Inv

\* After a prompt or a three-row round the draft starts from the row of the last kept token.
THEOREM DraftFromLastRow == Spec => []PendingInStep
BY Invariant, PTL DEF Inv

================================================================================
