--------------------------- MODULE CausalLMProofs ---------------------------
(***************************************************************************)
(* Proofs about the memory of the model, for a model and a batch of any    *)
(* size.  A forward pass never sees that its views share the workspace:    *)
(* the rows that an operator writes share no element with a row that lives *)
(* on (Separate), and every view that a later operator reads is intact     *)
(* (PassInv).  And the loading puts every tensor where its view expects it *)
(* (WeightsInv): the places do not overlap (PlacesApart), each element is  *)
(* in place or will still be copied (ChunkUploaded), and the parts of a    *)
(* joined view follow one another (ViewsCovered).                          *)
(***************************************************************************)
EXTENDS CausalLM, SequenceTheorems, SequenceLemmas

-----------------------------------------------------------------------------
(* The workspace: sizes and the places of the views.                        *)

LEMMA Raised ==
    ASSUME NEW a \in Nat \ {0}, NEW x \in Nat
    PROVE  /\ AlignUp(a, x) \in Nat /\ x <= AlignUp(a, x)
           /\ AlignUp(a, 0) = 0
<1>1. (x + a - 1) \div a \in Nat
  OBVIOUS
<1>2. x + a - 1 = a * ((x + a - 1) \div a) + ((x + a - 1) % a)
      /\ (x + a - 1) % a \in 0 .. a - 1
  OBVIOUS
<1>3. (0 + a - 1) \div a = 0
  OBVIOUS
<1> QED
  BY <1>1, <1>2, <1>3 DEF AlignUp

LEMMA MaxOfThree ==
    ASSUME NEW a \in Nat, NEW b \in Nat, NEW c \in Nat
    PROVE  /\ Max({a, b, c}) \in Nat
           /\ a <= Max({a, b, c}) /\ b <= Max({a, b, c}) /\ c <= Max({a, b, c})
<1>1. \E x \in {a, b, c} : \A y \in {a, b, c} : x >= y
  OBVIOUS
<1>2. Max({a, b, c}) \in {a, b, c} /\ \A y \in {a, b, c} : Max({a, b, c}) >= y
  BY <1>1 DEF Max
<1> QED
  BY <1>2

\* A view of "rows" rows of "cols" elements that starts after "start".
Sized(v, start, rows, cols) ==
    /\ v.offset \in Nat /\ v.rows = rows /\ v.cols = cols /\ v.stride = cols
    /\ start <= v.offset /\ v.offset <= EndOfView(v) /\ EndOfView(v) \in Nat
    /\ start = 0 => v.offset = 0

LEMMA Placed ==
    ASSUME NEW offset \in Nat, NEW rows \in Nat, NEW cols \in Nat
    PROVE  Sized(PlaceView(offset, rows, cols), offset, rows, cols)
<1> DEFINE o == AlignUp(WorkspaceAlignment, offset)
           v == PlaceView(offset, rows, cols)
<1>1. o \in Nat /\ offset <= o /\ (offset = 0 => o = 0)
  BY Raised, WorkspaceAssumption
<1>2. rows * cols \in Nat
  OBVIOUS
<1>3. v.offset = o /\ v.rows = rows /\ v.cols = cols /\ v.stride = cols
  BY DEF PlaceView
<1>4. EndOfView(v) = o + rows * cols
  BY <1>3 DEF EndOfView
<1> HIDE DEF o, v
<1>5. o <= o + rows * cols /\ o + rows * cols \in Nat
  BY <1>1, <1>2
<1> QED
  BY <1>1, <1>3, <1>4, <1>5 DEF v, Sized

\* The places of the views, in the order of the buffer, and their sizes.
LEMMA Layout ==
    /\ Hidden.offset = 0 /\ SamplingHidden.offset = 0
    /\ EndOfView(Hidden) <= Residual.offset
    /\ EndOfView(Residual) <= Qkv.offset /\ EndOfView(Qkv) <= AttnOut.offset
    /\ EndOfView(Residual) <= GateUp.offset
    /\ EndOfView(SamplingHidden) <= Logits.offset
    /\ EndOfView(Hidden) = MaxTokens * HiddenSize
    /\ Hidden.stride = HiddenSize /\ SamplingHidden.stride = HiddenSize
    /\ Gated.offset = GateUp.offset /\ Gated.stride = GateUp.stride /\ Gated.rows = GateUp.rows
    /\ \A v \in {Hidden, Residual, Qkv, AttnOut, GateUp, Gated} : v.rows = MaxTokens
    /\ \A v \in {SamplingHidden, Logits} : v.rows = MaxSamplingReqs
    /\ \A v \in {Hidden, Residual, Qkv, AttnOut, GateUp, Gated, SamplingHidden, Logits} :
          /\ v.offset \in Nat /\ v.rows \in Nat /\ v.cols \in Nat /\ v.stride \in Nat
          /\ v.cols <= v.stride
          /\ v.offset <= EndOfView(v) /\ EndOfView(v) <= RequiredSize /\ EndOfView(v) \in Nat
    /\ RequiredSize \in Nat
<1>1. /\ {MaxTokens, MaxSamplingReqs, HiddenSize, QSize, KVSize, IntermediateSize, VocabSize}
             \subseteq Nat
      /\ QSize + 2 * KVSize \in Nat /\ 2 * IntermediateSize \in Nat
      /\ IntermediateSize <= 2 * IntermediateSize /\ 0 \in Nat
  BY ModelConfigAssumption, WorkspaceAssumption
<1>2. Sized(Hidden, 0, MaxTokens, HiddenSize)
  BY <1>1, Placed DEF Hidden
<1>3. Sized(Residual, EndOfView(Hidden), MaxTokens, HiddenSize)
  <2>1. EndOfView(Hidden) \in Nat
    BY <1>2 DEF Sized
  <2> QED BY <1>1, <2>1, Placed DEF Residual
<1>4. Sized(Qkv, EndOfView(Residual), MaxTokens, QSize + 2 * KVSize)
  <2>1. EndOfView(Residual) \in Nat
    BY <1>3 DEF Sized
  <2> QED BY <1>1, <2>1, Placed DEF Qkv
<1>5. Sized(AttnOut, EndOfView(Qkv), MaxTokens, QSize)
  <2>1. EndOfView(Qkv) \in Nat
    BY <1>4 DEF Sized
  <2> QED BY <1>1, <2>1, Placed DEF AttnOut
<1>6. Sized(GateUp, EndOfView(Residual), MaxTokens, 2 * IntermediateSize)
  <2>1. EndOfView(Residual) \in Nat
    BY <1>3 DEF Sized
  <2> QED BY <1>1, <2>1, Placed DEF GateUp
<1>7. Sized(SamplingHidden, 0, MaxSamplingReqs, HiddenSize)
  BY <1>1, Placed DEF SamplingHidden
<1>8. Sized(Logits, EndOfView(SamplingHidden), MaxSamplingReqs, VocabSize)
  <2>1. EndOfView(SamplingHidden) \in Nat
    BY <1>7 DEF Sized
  <2> QED BY <1>1, <2>1, Placed DEF Logits
<1>9. /\ Gated.offset = GateUp.offset /\ Gated.stride = GateUp.stride /\ Gated.rows = GateUp.rows
      /\ Gated.cols = IntermediateSize /\ EndOfView(Gated) = EndOfView(GateUp)
  <2>1. GateUp = [offset |-> GateUp.offset, rows |-> GateUp.rows, cols |-> GateUp.cols,
                  stride |-> GateUp.stride]
    BY DEF GateUp, PlaceView
  <2>2. /\ Gated.offset = GateUp.offset /\ Gated.stride = GateUp.stride /\ Gated.rows = GateUp.rows
        /\ Gated.cols = IntermediateSize
    BY <2>1 DEF Gated
  <2> QED BY <2>2 DEF EndOfView
<1>10. /\ EndOfView(AttnOut) <= RequiredSize /\ EndOfView(GateUp) <= RequiredSize
       /\ EndOfView(Logits) <= RequiredSize /\ RequiredSize \in Nat
  BY <1>5, <1>6, <1>8, MaxOfThree DEF RequiredSize, Sized
<1>11. /\ EndOfView(Hidden) <= RequiredSize /\ EndOfView(Residual) <= RequiredSize
       /\ EndOfView(Qkv) <= RequiredSize /\ EndOfView(SamplingHidden) <= RequiredSize
  BY <1>2, <1>3, <1>4, <1>5, <1>7, <1>8, <1>10 DEF Sized
<1>12. EndOfView(Hidden) = MaxTokens * HiddenSize
  BY <1>1, <1>2 DEF EndOfView, Sized
<1> QED
  BY <1>1, <1>2, <1>3, <1>4, <1>5, <1>6, <1>7, <1>8, <1>9, <1>10, <1>11, <1>12
  DEF Sized

-----------------------------------------------------------------------------
(* Addresses.                                                               *)

Place(name) == WorkspaceViews[name]

LEMMA ViewsOf ==
    /\ ViewNames = {"hidden", "residual", "qkv", "attn_out", "gate_up", "gated",
                    "sampling_hidden", "logits"}
    /\ Place("hidden") = Hidden /\ Place("residual") = Residual /\ Place("qkv") = Qkv
    /\ Place("attn_out") = AttnOut /\ Place("gate_up") = GateUp /\ Place("gated") = Gated
    /\ Place("sampling_hidden") = SamplingHidden /\ Place("logits") = Logits
BY DEF ViewNames, WorkspaceViews, Place

LEMMA ViewSizes ==
    ASSUME NEW name \in ViewNames
    PROVE  /\ Place(name).offset \in Nat /\ Place(name).rows \in Nat
           /\ Place(name).cols \in Nat /\ Place(name).stride \in Nat
           /\ Place(name).cols <= Place(name).stride
           /\ EndOfView(Place(name)) \in Nat /\ EndOfView(Place(name)) <= RequiredSize
BY ViewsOf, Layout

LEMMA RowPlace ==
    ASSUME NEW name \in ViewNames, NEW r \in 0 .. Place(name).rows - 1,
           NEW address \in RowAddresses(name, r)
    PROVE  /\ address \in 0 .. RequiredSize - 1
           /\ Place(name).offset + r * Place(name).stride <= address
           /\ address < Place(name).offset + r * Place(name).stride + Place(name).stride
           /\ address < EndOfView(Place(name)) /\ Place(name).offset <= address
<1> DEFINE v == Place(name)
<1>1. /\ v.offset \in Nat /\ v.rows \in Nat /\ v.cols \in Nat /\ v.stride \in Nat
      /\ v.cols <= v.stride /\ EndOfView(v) \in Nat /\ EndOfView(v) <= RequiredSize
      /\ RequiredSize \in Nat
  BY ViewSizes, Layout
<1>2. PICK col \in 0 .. v.cols - 1 : address = v.offset + r * v.stride + col
  BY DEF RowAddresses, Address, Place
<1>3. EndOfView(v) = v.offset + v.rows * v.stride
  BY DEF EndOfView
<1> HIDE DEF v
<1>4. r * v.stride \in Nat /\ v.rows * v.stride \in Nat /\ r * v.stride + v.stride <= v.rows * v.stride
  <2>1. r \in Nat /\ r < v.rows
    BY <1>1 DEF v
  <2> QED BY <1>1, <2>1, Product
<1>5. /\ v.offset + r * v.stride <= address
      /\ address < v.offset + r * v.stride + v.stride
      /\ address < EndOfView(v) /\ v.offset <= address
      /\ address \in 0 .. RequiredSize - 1
  BY <1>1, <1>2, <1>3, <1>4
<1> QED
  BY <1>5 DEF v

\* No element belongs to both rows.
Apart(a, r, b, s) == RowAddresses(a, r) \cap RowAddresses(b, s) = {}

LEMMA ApartViews ==
    ASSUME NEW a \in ViewNames, NEW r \in 0 .. Place(a).rows - 1,
           NEW b \in ViewNames, NEW s \in 0 .. Place(b).rows - 1,
           EndOfView(Place(a)) <= Place(b).offset
    PROVE  Apart(a, r, b, s) /\ Apart(b, s, a, r)
<1>1. Place(b).offset \in Nat /\ EndOfView(Place(a)) \in Nat /\ RequiredSize \in Nat
  BY ViewSizes, Layout
<1>2. \A x \in RowAddresses(a, r) : x \in Int /\ x < EndOfView(Place(a))
  BY <1>1, RowPlace
<1>3. \A x \in RowAddresses(b, s) : x \in Int /\ Place(b).offset <= x
  BY <1>1, RowPlace
<1> QED
  BY <1>1, <1>2, <1>3 DEF Apart

\* Rows of views in the same place.
LEMMA ApartRows ==
    ASSUME NEW a \in ViewNames, NEW r \in 0 .. Place(a).rows - 1,
           NEW b \in ViewNames, NEW s \in 0 .. Place(b).rows - 1,
           Place(a).offset = Place(b).offset, Place(a).stride = Place(b).stride, r # s
    PROVE  Apart(a, r, b, s)
<1> DEFINE o == Place(a).offset
           n == Place(a).stride
<1>1. o \in Nat /\ n \in Nat /\ r \in Nat /\ s \in Nat /\ RequiredSize \in Nat
  BY ViewSizes, Layout
<1>2. \A x \in RowAddresses(a, r) : x \in Int /\ o + r * n <= x /\ x < o + r * n + n
  BY <1>1, RowPlace
<1>3. \A x \in RowAddresses(b, s) : x \in Int /\ o + s * n <= x /\ x < o + s * n + n
  BY <1>1, RowPlace
<1> HIDE DEF o, n
<1>4. \/ r * n + n <= s * n
      \/ s * n + n <= r * n
  <2>1. r < s \/ s < r
    BY <1>1
  <2> QED BY <1>1, <2>1, Product
<1>5. r * n \in Nat /\ s * n \in Nat
  BY <1>1
<1> QED
  BY <1>1, <1>2, <1>3, <1>4, <1>5 DEF Apart

\* The rows that are gathered lie before the residual, from which they are read,
\* although the view as a whole may not.
LEMMA ApartGather ==
    ASSUME NEW r \in 0 .. MaxTokens - 1, r < MaxSamplingReqs, NEW s \in 0 .. MaxTokens - 1
    PROVE  Apart("sampling_hidden", r, "residual", s)
<1>1. /\ {MaxTokens, MaxSamplingReqs, HiddenSize} \subseteq Nat /\ RequiredSize \in Nat
      /\ Residual.offset \in Nat
  BY ModelConfigAssumption, WorkspaceAssumption, Layout
<1>2. r \in Nat /\ r < MaxTokens /\ r \in 0 .. MaxSamplingReqs - 1
  BY <1>1
<1>3. r * HiddenSize \in Nat /\ r * HiddenSize + HiddenSize <= MaxTokens * HiddenSize
  BY <1>1, <1>2, Product
<1>4. \A x \in RowAddresses("sampling_hidden", r) : x \in Int /\ x < r * HiddenSize + HiddenSize
  <2>1. /\ "sampling_hidden" \in ViewNames /\ Place("sampling_hidden").rows = MaxSamplingReqs
        /\ Place("sampling_hidden").offset = 0 /\ Place("sampling_hidden").stride = HiddenSize
    BY ViewsOf, Layout
  <2> QED BY <1>1, <1>2, <1>3, <2>1, RowPlace
<1>5. \A x \in RowAddresses("residual", s) : x \in Int /\ Residual.offset <= x
  <2>1. /\ "residual" \in ViewNames /\ Place("residual").rows = MaxTokens
        /\ Place("residual").offset = Residual.offset
    BY ViewsOf, Layout
  <2> QED BY <1>1, <2>1, RowPlace
<1>6. MaxTokens * HiddenSize <= Residual.offset /\ MaxTokens * HiddenSize \in Nat
  BY <1>1, Layout
<1> QED
  BY <1>1, <1>3, <1>4, <1>5, <1>6 DEF Apart

-----------------------------------------------------------------------------
(* The program.                                                             *)

LEMMA Concatenated ==
    ASSUME NEW S, NEW s \in Seq(S), NEW t \in Seq(S),
           NEW m \in Nat, NEW n \in Nat, m = Len(s), n = Len(t), NEW u, u = s \o t
    PROVE  /\ u \in Seq(S) /\ Len(u) = m + n
           /\ \A j \in 1 .. m : u[j] = s[j]
           /\ \A j \in 1 .. n : u[m + j] = t[j]
<1>1. s \o t \in Seq(S) /\ Len(s \o t) = m + n
  OBVIOUS
<1>2. \A j \in 1 .. m : (s \o t)[j] = s[j]
  OBVIOUS
<1>3. ASSUME NEW j \in 1 .. n PROVE (s \o t)[m + j] = t[j]
  <2>1. m + j \in 1 .. m + n /\ ~ (m + j <= m) /\ (m + j) - m = j
    OBVIOUS
  <2>2. (s \o t)[m + j] = t[(m + j) - m]
    BY <2>1
  <2> QED BY <2>1, <2>2
<1> QED BY <1>1, <1>2, <1>3

LEMMA Tabulated ==
    ASSUME NEW S, NEW n \in Nat, NEW d, d = [k \in 1 .. n |-> d[k]],
           \A k \in 1 .. n : d[k] \in S
    PROVE  d \in Seq(S) /\ Len(d) = n
<1>1. d \in [1 .. n -> S]
  BY Zenon
<1> QED BY <1>1

\* The first i of n sequences have O[i] elements.
Lengths(seqs, n, O, X) ==
    /\ Len(seqs) = n /\ O[0] = 0
    /\ \A i \in 0 .. n : O[i] \in Nat
    /\ \A i \in 1 .. n : seqs[i] \in Seq(X) /\ O[i] = O[i - 1] + Len(seqs[i])

\* "all" is these sequences one after the other.
Joined(all, seqs, n, O, X) ==
    /\ all \in Seq(X) /\ Len(all) = O[n]
    /\ \A i \in 1 .. n : \A k \in 1 .. Len(seqs[i]) :
          O[i - 1] + k \in 1 .. O[n] /\ all[O[i - 1] + k] = seqs[i][k]

LEMMA Flattened ==
    ASSUME NEW X, NEW n \in Nat \ {0}, NEW seqs, NEW O, Lengths(seqs, n, O, X)
    PROVE  Joined(FlattenSeq(seqs), seqs, n, O, X)
<1>1. /\ Len(seqs) = n /\ O[0] = 0
      /\ \A i \in 0 .. n : O[i] \in Nat
      /\ \A i \in 1 .. n : seqs[i] \in Seq(X)
      /\ \A i \in 1 .. n : O[i] = O[i - 1] + Len(seqs[i])
  BY DEF Lengths
<1> DEFINE Solves(f) == f = [i \in 1 .. n |-> IF i = 1 THEN seqs[i] ELSE f[i - 1] \o seqs[i]]
           h == [i \in 1 .. n |-> [s \in Seq(X) |-> s \o seqs[i]]]
<1>2. \E f : Solves(f)
  <2>1. h \in [1 .. n -> [Seq(X) -> Seq(X)]] /\ <<>> \in Seq(X) /\ n \in Nat
    BY <1>1
  <2>2. PICK g \in [0 .. n -> Seq(X)] : Recursion(g, n, <<>>, h)
    <3> HIDE DEF h
    <3> QED BY <2>1, RecursionUpTo
  <2>3. \A i \in 1 .. n : g[i] = g[i - 1] \o seqs[i] /\ i - 1 \in 0 .. n
    <3> SUFFICES ASSUME NEW i \in 1 .. n PROVE g[i] = g[i - 1] \o seqs[i] /\ i - 1 \in 0 .. n
      OBVIOUS
    <3>1. i \in 0 .. n /\ i # 0 /\ i - 1 \in 0 .. n
      OBVIOUS
    <3>2. g[i] = h[i][g[i - 1]] /\ g[i - 1] \in Seq(X)
      <4> HIDE DEF h
      <4> QED BY <2>2, <3>1 DEF Recursion
    <3> QED BY <3>1, <3>2
  <2>4. g[1] = seqs[1]
    <3>1. g[0] = <<>>
      <4> HIDE DEF h
      <4>1. 0 \in 0 .. n
        OBVIOUS
      <4> QED BY <2>2, <4>1 DEF Recursion
    <3>2. 1 \in 1 .. n /\ g[1] = g[1 - 1] \o seqs[1] /\ 1 - 1 = 0
      <4>1. 1 \in 1 .. n /\ 1 - 1 = 0
        OBVIOUS
      <4>2. g[1] = g[1 - 1] \o seqs[1]
        BY <2>3, <4>1, Zenon
      <4> QED BY <4>1, <4>2
    <3>3. <<>> \o seqs[1] = seqs[1]
      BY <1>1, <3>2, ConcatEmptySeq
    <3> QED BY <3>1, <3>2, <3>3
  <2> DEFINE f == [i \in 1 .. n |-> g[i]]
  <2>5. \A i \in 1 .. n : f[i] = IF i = 1 THEN seqs[i] ELSE f[i - 1] \o seqs[i]
    <3> SUFFICES ASSUME NEW i \in 1 .. n
                 PROVE  f[i] = IF i = 1 THEN seqs[i] ELSE f[i - 1] \o seqs[i]
      OBVIOUS
    <3>1. f[i] = g[i] /\ (i # 1 => i - 1 \in 1 .. n)
      OBVIOUS
    <3>2. i # 1 => f[i - 1] = g[i - 1]
      BY <3>1
    <3> QED BY <2>3, <2>4, <3>1, <3>2
  <2>6. Solves(f)
    BY <2>5
  <2> QED BY <2>6
<1> DEFINE flatten == CHOOSE f : Solves(f)
<1>3. FlattenSeq(seqs) = flatten[n]
  <2>1. FlattenSeq(seqs) =
            LET F[i \in 1 .. Len(seqs)] == IF i = 1 THEN seqs[i] ELSE F[i - 1] \o seqs[i]
            IN  F[Len(seqs)]
    BY <1>1 DEF FlattenSeq
  <2> QED BY <1>1, <2>1
<1>4. Solves(flatten)
  <2> HIDE DEF Solves
  <2> QED BY <1>2
<1> HIDE DEF flatten
<1> DEFINE T == {i \in 0 .. n : i = 0 \/
                    /\ flatten[i] \in Seq(X) /\ Len(flatten[i]) = O[i]
                    /\ \A j \in 1 .. i : \A k \in 1 .. Len(seqs[j]) :
                          /\ O[j - 1] + k \in 1 .. O[i]
                          /\ flatten[i][O[j - 1] + k] = seqs[j][k]}
<1>5. ASSUME NEW i \in 0 .. (n - 1), i \in T PROVE i + 1 \in T
  <2> DEFINE d == seqs[i + 1]
             w == Len(d)
             m == O[i]
  <2>0. /\ i + 1 \in 1 .. n /\ i + 1 \in 0 .. n /\ (i + 1 = 1 <=> i = 0) /\ (i + 1) - 1 = i
        /\ i \in Nat /\ i \in 0 .. n
    OBVIOUS
  <2>1. flatten[i + 1] = IF i = 0 THEN d ELSE flatten[i] \o d
    <3>2. \A j \in 1 .. n : flatten[j] = IF j = 1 THEN seqs[j] ELSE flatten[j - 1] \o seqs[j]
      BY <1>4
    <3> QED BY <2>0, <3>2
  <2>2. d \in Seq(X) /\ w \in Nat /\ m \in Nat /\ O[i + 1] = m + w
    <3>1. d \in Seq(X) /\ m \in Nat /\ O[i + 1] = O[(i + 1) - 1] + w
      BY <1>1, <2>0
    <3> QED BY <2>0, <3>1
  <2>3. CASE i = 0
    <3>1. flatten[i + 1] = d /\ m = 0
      BY <1>1, <2>1, <2>3
    <3>2. ASSUME NEW j \in 1 .. (i + 1), NEW k \in 1 .. Len(seqs[j])
          PROVE  /\ O[j - 1] + k \in 1 .. O[i + 1]
                 /\ flatten[i + 1][O[j - 1] + k] = seqs[j][k]
      <4>1. j = i + 1 /\ j - 1 = i
        BY <2>3
      <4>2. O[j - 1] = 0 /\ seqs[j] = d /\ k \in 1 .. w
        BY <3>1, <4>1
      <4>3. 0 + k = k /\ O[i + 1] = w
        BY <2>2, <3>1, <4>2
      <4> HIDE DEF d, w, m
      <4> QED BY <3>1, <4>2, <4>3
    <3>3. Len(flatten[i + 1]) = O[i + 1]
      BY <2>2, <3>1
    <3> HIDE DEF d, w, m
    <3> QED BY <2>0, <2>2, <3>1, <3>2, <3>3
  <2>4. CASE i # 0
    <3> DEFINE s == flatten[i]
               u == s \o d
    <3>1. /\ s \in Seq(X) /\ m = Len(s)
          /\ \A j \in 1 .. i : \A k \in 1 .. Len(seqs[j]) :
                O[j - 1] + k \in 1 .. m /\ s[O[j - 1] + k] = seqs[j][k]
      BY <1>5, <2>4
    <3>3. /\ u \in Seq(X) /\ Len(u) = m + w
          /\ \A j \in 1 .. m : u[j] = s[j]
          /\ \A j \in 1 .. w : u[m + j] = d[j]
      <4>1. m \in Nat /\ w \in Nat /\ s \in Seq(X) /\ d \in Seq(X) /\ m = Len(s) /\ w = Len(d)
        BY <2>2, <3>1
      <4>2. u = s \o d
        OBVIOUS
      <4> HIDE DEF m, w, u, s, d
      <4> QED BY <4>1, <4>2, Concatenated
    <3>4. flatten[i + 1] = u
      BY <2>1, <2>4
    <3> HIDE DEF u, s
    <3>5. ASSUME NEW j \in 1 .. (i + 1), NEW k \in 1 .. Len(seqs[j])
          PROVE  O[j - 1] + k \in 1 .. (m + w) /\ u[O[j - 1] + k] = seqs[j][k]
      <4>1. CASE j = i + 1
        <5>1. j - 1 = i /\ seqs[j] = d /\ k \in 1 .. w /\ O[j - 1] = m
          BY <2>0, <4>1
        <5> HIDE DEF d, w, m
        <5>2. m + k \in 1 .. (m + w) /\ u[m + k] = d[k]
          BY <2>2, <3>3, <5>1
        <5> QED BY <5>1, <5>2
      <4>2. CASE j # i + 1
        <5>1. j \in 1 .. i
          BY <2>0, <4>2
        <5>2. O[j - 1] + k \in 1 .. m /\ s[O[j - 1] + k] = seqs[j][k]
          BY <3>1, <5>1
        <5> DEFINE x == O[j - 1] + k
        <5> HIDE DEF d, w, m, x
        <5>3. x \in 1 .. m /\ s[x] = seqs[j][k]
          BY <5>2 DEF x
        <5>4. x \in 1 .. (m + w) /\ u[x] = s[x]
          BY <2>2, <3>3, <5>3
        <5> QED BY <5>3, <5>4 DEF x
      <4> QED BY <4>1, <4>2
    <3> HIDE DEF d, w, m
    <3>6. O[i + 1] = m + w /\ Len(u) = O[i + 1] /\ u \in Seq(X) /\ i + 1 \in 0 .. n
      BY <2>0, <2>2, <3>3
    <3>7. \A j \in 1 .. (i + 1) : \A k \in 1 .. Len(seqs[j]) :
              O[j - 1] + k \in 1 .. O[i + 1] /\ u[O[j - 1] + k] = seqs[j][k]
      BY <3>5, <3>6
    <3> QED BY <3>4, <3>6, <3>7
  <2> QED BY <2>3, <2>4
<1>6. n \in T
  <2>1. 0 \in T /\ n \in Nat /\ n \in 0 .. n
    OBVIOUS
  <2> HIDE DEF T
  <2>2. \A i \in 0 .. n : i \in T
    BY <1>5, <2>1, InductionUpTo
  <2> QED BY <2>1, <2>2
<1>7. /\ flatten[n] \in Seq(X) /\ Len(flatten[n]) = O[n]
      /\ \A j \in 1 .. n : \A k \in 1 .. Len(seqs[j]) :
            O[j - 1] + k \in 1 .. O[n] /\ flatten[n][O[j - 1] + k] = seqs[j][k]
  BY <1>6
<1> QED BY <1>3, <1>7, Zenon DEF Joined

\* The same operators, over and over.
Repeat(n, d) == [layer \in 1 .. n |-> d]

LEMMA Repeated ==
    ASSUME NEW S, NEW d \in Seq(S), NEW w \in Nat, w = Len(d), NEW n \in Nat \ {0}
    PROVE  /\ FlattenSeq(Repeat(n, d)) \in Seq(S) /\ Len(FlattenSeq(Repeat(n, d))) = w * n
           /\ \A layer \in 1 .. n, k \in 1 .. w : FlattenSeq(Repeat(n, d))[w * (layer - 1) + k] = d[k]
<1> DEFINE seqs == Repeat(n, d)
           all == FlattenSeq(seqs)
           O == [i \in 0 .. n |-> w * i]
<1>1. Len(seqs) = n /\ \A i \in 1 .. n : seqs[i] = d
  BY DEF Repeat
<1>2. O[0] = 0 /\ O[n] = w * n /\ \A i \in 0 .. n : O[i] \in Nat
  OBVIOUS
<1>3. \A i \in 1 .. n : O[i - 1] = w * (i - 1) /\ O[i] = O[i - 1] + w
  <2> SUFFICES ASSUME NEW i \in 1 .. n PROVE O[i - 1] = w * (i - 1) /\ O[i] = O[i - 1] + w
    OBVIOUS
  <2>1. i \in 0 .. n /\ i - 1 \in 0 .. n /\ w * i = w * (i - 1) + w
    OBVIOUS
  <2> QED BY <2>1
<1> HIDE DEF seqs, O
<1>4. Joined(all, seqs, n, O, S)
  <2>1. Lengths(seqs, n, O, S)
    BY <1>1, <1>2, <1>3 DEF Lengths
  <2> QED BY <2>1, Flattened
<1> HIDE DEF all
<1>5. all \in Seq(S) /\ Len(all) = w * n
  BY <1>2, <1>4 DEF Joined
<1>6. ASSUME NEW layer \in 1 .. n, NEW k \in 1 .. w PROVE all[w * (layer - 1) + k] = d[k]
  <2>1. seqs[layer] = d /\ O[layer - 1] = w * (layer - 1) /\ k \in 1 .. Len(seqs[layer])
    BY <1>1, <1>3
  <2>2. all[O[layer - 1] + k] = seqs[layer][k]
    BY <1>4, <2>1 DEF Joined
  <2> QED BY <2>1, <2>2
<1> QED BY <1>5, <1>6 DEF all, seqs

LastForward == 1 + 12 * NumLayers

LEMMA ProgramShape ==
    /\ NumLayers \in Nat \ {0}
    /\ Len(Forward) = LastForward /\ Len(Program) = LastForward + 4
    /\ Program[1] = Operator("embedding", {}, {"residual"})
    /\ \A layer \in Layers, k \in 1 .. 12 : Program[12 * (layer - 1) + k + 1] = DecoderLayer[k]
    /\ \A i \in 1 .. 4 : Program[LastForward + i] = ComputeLogits[i]
<1>1. NumLayers \in Nat \ {0} /\ Layers = 1 .. NumLayers
  BY ModelConfigAssumption DEF Layers
<1> DEFINE embedding == Operator("embedding", {}, {"residual"})
           OperatorSet == {DecoderLayer[k] : k \in 1 .. 12} \cup {ComputeLogits[i] : i \in 1 .. 4}
                          \cup {embedding}
<1> DEFINE perLayer == 12
           inLogits == 4
           one == 1
<1>2. DecoderLayer \in Seq(OperatorSet) /\ Len(DecoderLayer) = perLayer
  <2>1. DecoderLayer = [k \in 1 .. 12 |-> DecoderLayer[k]]
    BY DEF DecoderLayer
  <2>2. \A k \in 1 .. 12 : DecoderLayer[k] \in OperatorSet
    OBVIOUS
  <2> HIDE DEF OperatorSet
  <2> QED BY <2>1, <2>2, Tabulated
<1>3. ComputeLogits \in Seq(OperatorSet) /\ Len(ComputeLogits) = inLogits
  <2>1. ComputeLogits = [k \in 1 .. 4 |-> ComputeLogits[k]]
    BY DEF ComputeLogits
  <2>2. \A k \in 1 .. 4 : ComputeLogits[k] \in OperatorSet
    OBVIOUS
  <2> HIDE DEF OperatorSet
  <2> QED BY <2>1, <2>2, Tabulated
<1> DEFINE first == <<embedding>>
           all == FlattenSeq([layer \in Layers |-> DecoderLayer])
<1>4. first \in Seq(OperatorSet) /\ Len(first) = one /\ first[1] = embedding
  <2> HIDE DEF embedding
  <2> QED OBVIOUS
<1>n. /\ perLayer \in Nat /\ inLogits \in Nat /\ one \in Nat /\ perLayer * NumLayers \in Nat
      /\ LastForward = one + perLayer * NumLayers /\ 1 \in 1 .. one
  BY <1>1 DEF LastForward
<1> HIDE DEF perLayer, inLogits, one, OperatorSet
<1>5. /\ all \in Seq(OperatorSet) /\ Len(all) = perLayer * NumLayers
      /\ \A layer \in Layers, k \in 1 .. perLayer : all[perLayer * (layer - 1) + k] = DecoderLayer[k]
  <2>1. DecoderLayer \in Seq(OperatorSet) /\ perLayer \in Nat /\ perLayer = Len(DecoderLayer)
        /\ NumLayers \in Nat \ {0}
    BY <1>1, <1>2, <1>n
  <2>2. all = FlattenSeq(Repeat(NumLayers, DecoderLayer))
    BY <1>1 DEF Repeat
  <2>3. /\ FlattenSeq(Repeat(NumLayers, DecoderLayer)) \in Seq(OperatorSet)
        /\ Len(FlattenSeq(Repeat(NumLayers, DecoderLayer))) = perLayer * NumLayers
        /\ \A layer \in 1 .. NumLayers, k \in 1 .. perLayer :
              FlattenSeq(Repeat(NumLayers, DecoderLayer))[perLayer * (layer - 1) + k]
                = DecoderLayer[k]
    <3> HIDE DEF embedding, first, all
    <3> QED BY <2>1, Repeated, Zenon
  <2> HIDE DEF all
  <2> QED BY <1>1, <2>2, <2>3
<1>6. Forward = first \o all /\ Program = Forward \o ComputeLogits
  BY DEF Forward, Program
<1> HIDE DEF first, all
<1>7. /\ Forward \in Seq(OperatorSet) /\ Len(Forward) = LastForward
      /\ Forward[1] = first[1]
      /\ \A j \in 1 .. perLayer * NumLayers : Forward[one + j] = all[j]
  <2> DEFINE n == perLayer * NumLayers
  <2>1. n \in Nat /\ one = Len(first) /\ n = Len(all) /\ one \in Nat
    BY <1>4, <1>5, <1>n
  <2> HIDE DEF n
  <2>2. /\ Forward \in Seq(OperatorSet) /\ Len(Forward) = one + n
        /\ \A j \in 1 .. one : Forward[j] = first[j]
        /\ \A j \in 1 .. n : Forward[one + j] = all[j]
    <3>1. first \in Seq(OperatorSet) /\ all \in Seq(OperatorSet) /\ Forward = first \o all
      BY <1>4, <1>5, <1>6
    <3> QED BY <2>1, <3>1, Concatenated
  <2> QED BY <1>n, <2>2, Zenon DEF n
<1>8. /\ Len(Program) = LastForward + inLogits
      /\ \A j \in 1 .. LastForward : Program[j] = Forward[j]
      /\ \A i \in 1 .. inLogits : Program[LastForward + i] = ComputeLogits[i]
  <2>1. LastForward \in Nat /\ inLogits \in Nat /\ LastForward = Len(Forward)
        /\ inLogits = Len(ComputeLogits)
    BY <1>3, <1>7, <1>n
  <2>2. /\ Forward \in Seq(OperatorSet) /\ ComputeLogits \in Seq(OperatorSet)
        /\ Program = Forward \o ComputeLogits
    BY <1>3, <1>6, <1>7
  <2> QED BY <2>1, <2>2, Concatenated
<1>9. ASSUME NEW layer \in Layers, NEW k \in 1 .. 12
      PROVE  Program[12 * (layer - 1) + k + 1] = DecoderLayer[k]
  <2>1. /\ perLayer * (layer - 1) + k \in 1 .. perLayer * NumLayers /\ k \in 1 .. perLayer
        /\ one + (perLayer * (layer - 1) + k) \in 1 .. LastForward
        /\ one + (perLayer * (layer - 1) + k) = 12 * (layer - 1) + k + 1
    BY <1>1 DEF LastForward, one, perLayer
  <2>2. Program[one + (perLayer * (layer - 1) + k)] = DecoderLayer[k]
    BY <1>5, <1>7, <1>8, <2>1
  <2> QED BY <2>1, <2>2
<1>10. Program[1] = first[1]
  <2>1. 1 \in 1 .. LastForward
    BY <1>1 DEF LastForward
  <2> QED BY <1>7, <1>8, <2>1
<1> QED
  BY <1>1, <1>4, <1>7, <1>8, <1>9, <1>10 DEF inLogits, one, embedding

-----------------------------------------------------------------------------
(* What every operator reads, writes and leaves for later ones.             *)

\* The views that a later operator reads, after each operator.
LiveInLayer ==
    <<{"residual", "hidden"}, {"residual", "qkv"}, {"residual", "qkv"}, {"residual", "qkv"},
      {"residual", "attn_out"}, {"residual", "hidden"}, {"residual"}, {"residual", "hidden"},
      {"residual", "gate_up"}, {"residual", "gated"}, {"residual", "hidden"}, {"residual"}>>
LiveInLogits == <<{"sampling_hidden"}, {"sampling_hidden"}, {"logits"}, {}>>

LiveAfter(o) ==
    IF o = 1 THEN {"residual"}
    ELSE IF o <= LastForward THEN LiveInLayer[((o - 2) % 12) + 1]
    ELSE LiveInLogits[o - LastForward]

ActivationViews == {"hidden", "residual", "qkv", "attn_out", "gate_up", "gated"}
SamplingViews == {"sampling_hidden", "logits"}

\* To write a row of a changes no other row of b.
Harmless(a, b) ==
    /\ Place(a).rows = Place(b).rows
    /\ \/ EndOfView(Place(a)) <= Place(b).offset
       \/ EndOfView(Place(b)) <= Place(a).offset
       \/ a = b
       \/ a = "gated" /\ b = "gate_up"

LEMMA Placement ==
    /\ \A a \in ActivationViews : Place(a).rows = MaxTokens /\ Harmless(a, a)
    /\ \A a \in SamplingViews : Place(a).rows = MaxSamplingReqs /\ Harmless(a, a)
    /\ Harmless("hidden", "residual") /\ Harmless("hidden", "attn_out") /\ Harmless("hidden", "gated")
    /\ Harmless("residual", "hidden")
    /\ Harmless("qkv", "hidden") /\ Harmless("qkv", "residual")
    /\ Harmless("attn_out", "qkv") /\ Harmless("attn_out", "residual")
    /\ Harmless("gate_up", "hidden") /\ Harmless("gate_up", "residual")
    /\ Harmless("gated", "gate_up") /\ Harmless("gated", "residual")
    /\ Harmless("logits", "sampling_hidden")
    /\ ActivationViews \cup SamplingViews = ViewNames
<1>1. /\ \A a \in ActivationViews : Place(a).rows = MaxTokens
      /\ \A a \in SamplingViews : Place(a).rows = MaxSamplingReqs
  BY ViewsOf, Layout DEF ActivationViews, SamplingViews
<1>2. \A a : Harmless(a, a)
  BY DEF Harmless
<1>3. ActivationViews \cup SamplingViews = ViewNames
  BY ViewsOf DEF ActivationViews, SamplingViews
<1>4. /\ EndOfView(Hidden) <= Residual.offset
      /\ EndOfView(Hidden) <= Qkv.offset /\ EndOfView(Hidden) <= AttnOut.offset
      /\ EndOfView(Hidden) <= GateUp.offset /\ EndOfView(Hidden) <= Gated.offset
      /\ EndOfView(Residual) <= Qkv.offset /\ EndOfView(Residual) <= AttnOut.offset
      /\ EndOfView(Residual) <= GateUp.offset /\ EndOfView(Residual) <= Gated.offset
      /\ EndOfView(Qkv) <= AttnOut.offset
      /\ EndOfView(SamplingHidden) <= Logits.offset
  BY Layout
<1>5. /\ Hidden.rows = Residual.rows /\ Hidden.rows = Qkv.rows /\ Hidden.rows = AttnOut.rows
      /\ Hidden.rows = GateUp.rows /\ Hidden.rows = Gated.rows
      /\ SamplingHidden.rows = Logits.rows
  BY Layout
<1>6. /\ Harmless("hidden", "residual") /\ Harmless("hidden", "attn_out")
      /\ Harmless("hidden", "gated") /\ Harmless("residual", "hidden")
      /\ Harmless("qkv", "hidden") /\ Harmless("qkv", "residual")
  BY ViewsOf, <1>4, <1>5 DEF Harmless
<1>7. /\ Harmless("attn_out", "qkv") /\ Harmless("attn_out", "residual")
      /\ Harmless("gate_up", "hidden") /\ Harmless("gate_up", "residual")
      /\ Harmless("gated", "gate_up") /\ Harmless("gated", "residual")
      /\ Harmless("logits", "sampling_hidden")
  BY ViewsOf, <1>4, <1>5 DEF Harmless
<1> QED
  BY <1>1, <1>2, <1>3, <1>6, <1>7

LEMMA ApartHarmless ==
    ASSUME NEW a \in ViewNames, NEW r \in 0 .. Place(a).rows - 1,
           NEW b \in ViewNames, NEW s \in 0 .. Place(a).rows - 1,
           Harmless(a, b), r # s \/ (a # b /\ ~ (a = "gated" /\ b = "gate_up"))
    PROVE  Apart(a, r, b, s)
<1>1. s \in 0 .. Place(b).rows - 1
  BY DEF Harmless
<1>2. CASE EndOfView(Place(a)) <= Place(b).offset
  BY <1>1, <1>2, ApartViews
<1>3. CASE EndOfView(Place(b)) <= Place(a).offset
  BY <1>1, <1>3, ApartViews
<1>4. CASE /\ Place(a).offset = Place(b).offset /\ Place(a).stride = Place(b).stride
           /\ r # s
  BY <1>1, <1>4, ApartRows
<1>5. a = "gated" /\ b = "gate_up" =>
        Place(a).offset = Place(b).offset /\ Place(a).stride = Place(b).stride
  BY ViewsOf, Layout
<1> QED
  BY <1>2, <1>3, <1>4, <1>5 DEF Harmless

LEMMA LayerTable ==
    ASSUME NEW k \in 1 .. 12
    PROVE  LET before == IF k = 1 THEN {"residual"} ELSE LiveInLayer[k - 1]
               reads == DecoderLayer[k].reads
               writes == DecoderLayer[k].writes
           IN  /\ DecoderLayer[k].name # "gather"
               /\ reads \subseteq before /\ reads \subseteq ActivationViews
               /\ LiveInLayer[k] \subseteq writes \cup before
               /\ LiveInLayer[k] \subseteq ActivationViews
               /\ \/ writes = {}
                  \/ \E a \in ActivationViews :
                        /\ writes = {a}
                        /\ \A b \in LiveInLayer[k] : Harmless(a, b) /\ ~ (a = "gated" /\ b = "gate_up")
                        /\ \A b \in reads : Harmless(a, b)
<1>1. /\ DecoderLayer[1] = Operator("rms_norm", {"residual"}, {"hidden"})
      /\ DecoderLayer[2] = Operator("projection", {"hidden"}, {"qkv"})
      /\ DecoderLayer[3] = Operator("rope", {"qkv"}, {"qkv"})
      /\ DecoderLayer[4] = Operator("unified_kv_cache_update", {"qkv"}, {})
      /\ DecoderLayer[5] = Operator("paged_attention", {"qkv"}, {"attn_out"})
      /\ DecoderLayer[6] = Operator("projection", {"attn_out"}, {"hidden"})
      /\ DecoderLayer[7] = Operator("residual_add", {"hidden", "residual"}, {"residual"})
      /\ DecoderLayer[8] = Operator("rms_norm", {"residual"}, {"hidden"})
      /\ DecoderLayer[9] = Operator("projection", {"hidden"}, {"gate_up"})
      /\ DecoderLayer[10] = Operator("swiglu", {"gate_up"}, {"gated"})
      /\ DecoderLayer[11] = Operator("projection", {"gated"}, {"hidden"})
      /\ DecoderLayer[12] = Operator("residual_add", {"hidden", "residual"}, {"residual"})
  BY DEF DecoderLayer
<1>2. /\ LiveInLayer[1] = {"residual", "hidden"} /\ LiveInLayer[2] = {"residual", "qkv"}
      /\ LiveInLayer[3] = {"residual", "qkv"} /\ LiveInLayer[4] = {"residual", "qkv"}
      /\ LiveInLayer[5] = {"residual", "attn_out"} /\ LiveInLayer[6] = {"residual", "hidden"}
      /\ LiveInLayer[7] = {"residual"} /\ LiveInLayer[8] = {"residual", "hidden"}
      /\ LiveInLayer[9] = {"residual", "gate_up"} /\ LiveInLayer[10] = {"residual", "gated"}
      /\ LiveInLayer[11] = {"residual", "hidden"} /\ LiveInLayer[12] = {"residual"}
  BY DEF LiveInLayer
<1>3. \A name, reads, writes :
          /\ Operator(name, reads, writes).name = name
          /\ Operator(name, reads, writes).reads = reads
          /\ Operator(name, reads, writes).writes = writes
  BY DEF Operator
<1> USE DEF ActivationViews
<1>4. CASE k \in {1, 8}
  <2>1. DecoderLayer[k] = Operator("rms_norm", {"residual"}, {"hidden"})
    BY <1>1, <1>4
  <2>2. LiveInLayer[k] = {"residual", "hidden"}
        /\ (k # 1 => k = 8 /\ LiveInLayer[k - 1] = {"residual"})
    BY <1>2, <1>4
  <2> QED BY <1>3, <2>1, <2>2, Placement
<1>5. CASE k \in {2, 9}
  <2>1. \E a \in {"qkv", "gate_up"} : /\ DecoderLayer[k] = Operator("projection", {"hidden"}, {a})
                                      /\ LiveInLayer[k] = {"residual", a}
    BY <1>1, <1>2, <1>5
  <2>2. LiveInLayer[k - 1] = {"residual", "hidden"} /\ k # 1
    BY <1>2, <1>5
  <2> QED BY <1>3, <2>1, <2>2, Placement
<1>6. CASE k = 3
  BY <1>1, <1>2, <1>3, <1>6, Placement
<1>7. CASE k = 4
  BY <1>1, <1>2, <1>3, <1>7, Placement
<1>8. CASE k = 5
  BY <1>1, <1>2, <1>3, <1>8, Placement
<1>9. CASE k = 6
  BY <1>1, <1>2, <1>3, <1>9, Placement
<1>10. CASE k \in {7, 12}
  <2>1. DecoderLayer[k] = Operator("residual_add", {"hidden", "residual"}, {"residual"})
    BY <1>1, <1>10
  <2>2. LiveInLayer[k] = {"residual"} /\ LiveInLayer[k - 1] = {"residual", "hidden"} /\ k # 1
    BY <1>2, <1>10
  <2> QED BY <1>3, <2>1, <2>2, Placement
<1>11. CASE k = 10
  BY <1>1, <1>2, <1>3, <1>11, Placement
<1>12. CASE k = 11
  BY <1>1, <1>2, <1>3, <1>12, Placement
<1> QED
  BY <1>4, <1>5, <1>6, <1>7, <1>8, <1>9, <1>10, <1>11, <1>12

\* The operators of the pass: what an operator reads was left by those before
\* it, and what lives after it was left by them or is written by it.
Feeds(before, o) ==
    /\ Program[o].reads \subseteq before
    /\ LiveAfter(o) \subseteq Program[o].writes \cup before

WritesForward(o) ==
    /\ Program[o].name # "gather"
    /\ Program[o].reads \subseteq ActivationViews /\ LiveAfter(o) \subseteq ActivationViews
    /\ \/ Program[o].writes = {}
       \/ \E a \in ActivationViews :
             /\ Program[o].writes = {a}
             /\ \A b \in LiveAfter(o) : Harmless(a, b) /\ ~ (a = "gated" /\ b = "gate_up")
             /\ \A b \in Program[o].reads : Harmless(a, b)

WritesSampling(o) ==
    /\ LiveAfter(o) \subseteq SamplingViews
    /\ \/ Program[o].writes = {}
       \/ \E a \in SamplingViews :
             /\ Program[o].writes = {a}
             /\ \A b \in LiveAfter(o) : Harmless(a, b)
             /\ Program[o].name # "gather" => \A b \in Program[o].reads : Harmless(a, b)
    /\ Program[o].name # "gather" => Program[o].reads \subseteq SamplingViews
    /\ Program[o].name = "gather" =>
          /\ Program[o].writes = {"sampling_hidden"} /\ Program[o].reads = {"residual"}
          /\ LiveAfter(o) \subseteq {"sampling_hidden"}

LEMMA ForwardTable ==
    /\ \A o \in 1 .. LastForward : WritesForward(o)
    /\ \A o \in 1 .. LastForward - 1 : Feeds(LiveAfter(o), o + 1)
    /\ Program[1].reads = {} /\ Program[1].writes = {"residual"} /\ LiveAfter(1) = {"residual"}
    /\ LiveAfter(LastForward) = {"residual"}
<1>1. NumLayers \in Nat \ {0} /\ LastForward \in Nat /\ LastForward = 1 + 12 * NumLayers
  BY ProgramShape DEF LastForward
<1>2. /\ Program[1].reads = {} /\ Program[1].writes = {"residual"}
      /\ Program[1].name = "embedding" /\ LiveAfter(1) = {"residual"}
  BY ProgramShape DEF Operator, LiveAfter
<1>3. ASSUME NEW o \in 2 .. LastForward
      PROVE  \E k \in 1 .. 12 : /\ Program[o] = DecoderLayer[k] /\ LiveAfter(o) = LiveInLayer[k]
                                /\ k = ((o - 2) % 12) + 1
  <2> DEFINE k == ((o - 2) % 12) + 1
             layer == ((o - 2) \div 12) + 1
  <2>1. k \in 1 .. 12 /\ layer \in 1 .. NumLayers /\ o = 12 * (layer - 1) + k + 1
    BY <1>1
  <2>2. LiveAfter(o) = LiveInLayer[k]
    <3>1. o # 1 /\ o <= LastForward
      BY <1>1
    <3> QED BY <3>1 DEF LiveAfter
  <2> HIDE DEF k, layer
  <2>3. Program[12 * (layer - 1) + k + 1] = DecoderLayer[k]
    BY <2>1, ProgramShape DEF Layers
  <2>4. k = ((o - 2) % 12) + 1
    BY DEF k
  <2> QED BY <2>1, <2>2, <2>3, <2>4
<1>4. \A o \in 2 .. LastForward : WritesForward(o)
  <2> SUFFICES ASSUME NEW o \in 2 .. LastForward PROVE WritesForward(o)
    OBVIOUS
  <2>1. PICK k \in 1 .. 12 : Program[o] = DecoderLayer[k] /\ LiveAfter(o) = LiveInLayer[k]
    BY <1>3
  <2> QED BY <2>1, LayerTable DEF WritesForward
<1>5. WritesForward(1)
  BY <1>2, Placement DEF WritesForward, ActivationViews
<1>6. LiveAfter(LastForward) = {"residual"}
  <2>1. ((LastForward - 2) % 12) + 1 = 12 /\ LastForward \in 2 .. LastForward
    BY <1>1
  <2>2. LiveInLayer[12] = {"residual"}
    BY DEF LiveInLayer
  <2> QED BY <1>3, <2>1, <2>2
<1>7. \A o \in 1 .. LastForward - 1 : Feeds(LiveAfter(o), o + 1)
  <2> SUFFICES ASSUME NEW o \in 1 .. LastForward - 1 PROVE Feeds(LiveAfter(o), o + 1)
    OBVIOUS
  <2>1. o + 1 \in 2 .. LastForward /\ (o + 1) - 2 = o - 1
    BY <1>1
  <2>2. PICK k \in 1 .. 12 : /\ Program[o + 1] = DecoderLayer[k]
                             /\ LiveAfter(o + 1) = LiveInLayer[k] /\ k = ((o - 1) % 12) + 1
    BY <1>3, <2>1
  <2>3. LiveAfter(o) = IF k = 1 THEN {"residual"} ELSE LiveInLayer[k - 1]
    <3>1. CASE o = 1
      BY <1>2, <2>2, <3>1
    <3>2. CASE o # 1
      <4>1. o \in 2 .. LastForward
        BY <1>1, <3>2
      <4>2. PICK j \in 1 .. 12 : LiveAfter(o) = LiveInLayer[j] /\ j = ((o - 2) % 12) + 1
        BY <1>3, <4>1
      <4>3. IF k = 1 THEN j = 12 ELSE j = k - 1
        BY <2>2, <4>1, <4>2
      <4>4. LiveInLayer[12] = {"residual"}
        BY DEF LiveInLayer
      <4> QED BY <4>2, <4>3, <4>4
    <3> QED BY <3>1, <3>2
  <2> QED BY <2>2, <2>3, LayerTable DEF Feeds
<1>8. 1 .. LastForward = {1} \cup 2 .. LastForward
  BY <1>1
<1> QED
  BY <1>2, <1>4, <1>5, <1>6, <1>7, <1>8

LEMMA LogitsTable ==
    /\ \A o \in LastForward + 1 .. LastForward + 4 : WritesSampling(o)
    /\ \A o \in LastForward .. LastForward + 3 : Feeds(LiveAfter(o), o + 1)
    /\ \A o \in LastForward + 1 .. LastForward + 4 :
          Program[o].name = "gather" <=> o = LastForward + 1
<1>1. LastForward \in Nat
  BY ProgramShape DEF LastForward
<1>2. /\ Program[LastForward + 1] = Operator("gather", {"residual"}, {"sampling_hidden"})
      /\ Program[LastForward + 2] = Operator("rms_norm", {"sampling_hidden"}, {"sampling_hidden"})
      /\ Program[LastForward + 3] = Operator("projection", {"sampling_hidden"}, {"logits"})
      /\ Program[LastForward + 4] = Operator("sample", {"logits"}, {})
  BY ProgramShape DEF ComputeLogits
<1>3. /\ LiveAfter(LastForward) = {"residual"}
      /\ LiveAfter(LastForward + 1) = {"sampling_hidden"}
      /\ LiveAfter(LastForward + 2) = {"sampling_hidden"}
      /\ LiveAfter(LastForward + 3) = {"logits"} /\ LiveAfter(LastForward + 4) = {}
  <2>1. \A i \in 1 .. 4 : LiveAfter(LastForward + i) = LiveInLogits[i]
    <3> SUFFICES ASSUME NEW i \in 1 .. 4 PROVE LiveAfter(LastForward + i) = LiveInLogits[i]
      OBVIOUS
    <3>1. ~ (LastForward + i = 1) /\ ~ (LastForward + i <= LastForward)
          /\ (LastForward + i) - LastForward = i
      BY ProgramShape DEF LastForward
    <3> QED BY <3>1 DEF LiveAfter
  <2>2. /\ LiveInLogits[1] = {"sampling_hidden"} /\ LiveInLogits[2] = {"sampling_hidden"}
        /\ LiveInLogits[3] = {"logits"} /\ LiveInLogits[4] = {}
    BY DEF LiveInLogits
  <2> QED BY <2>1, <2>2, ForwardTable
<1>4. \A name, reads, writes :
          /\ Operator(name, reads, writes).name = name
          /\ Operator(name, reads, writes).reads = reads
          /\ Operator(name, reads, writes).writes = writes
  BY DEF Operator
<1>5. /\ WritesSampling(LastForward + 1) /\ WritesSampling(LastForward + 2)
      /\ WritesSampling(LastForward + 3) /\ WritesSampling(LastForward + 4)
  BY <1>2, <1>3, <1>4, Placement DEF WritesSampling, SamplingViews
<1>6. /\ Feeds(LiveAfter(LastForward), LastForward + 1)
      /\ Feeds(LiveAfter(LastForward + 1), LastForward + 2)
      /\ Feeds(LiveAfter(LastForward + 2), LastForward + 3)
      /\ Feeds(LiveAfter(LastForward + 3), LastForward + 4)
  BY <1>2, <1>3, <1>4 DEF Feeds
<1>7. /\ Program[LastForward + 1].name = "gather" /\ Program[LastForward + 2].name # "gather"
      /\ Program[LastForward + 3].name # "gather" /\ Program[LastForward + 4].name # "gather"
  BY <1>2, <1>4
<1>8. \A o \in LastForward + 1 .. LastForward + 4 :
          o \in {LastForward + 1, LastForward + 2, LastForward + 3, LastForward + 4}
  BY <1>1
<1>9. \A o \in LastForward .. LastForward + 3 :
          \/ o = LastForward /\ o + 1 = LastForward + 1
          \/ o = LastForward + 1 /\ o + 1 = LastForward + 2
          \/ o = LastForward + 2 /\ o + 1 = LastForward + 3
          \/ o = LastForward + 3 /\ o + 1 = LastForward + 4
  BY <1>1
<1>10. \A o \in LastForward + 1 .. LastForward + 4 : WritesSampling(o)
  BY <1>5, <1>8
<1>11. \A o \in LastForward .. LastForward + 3 : Feeds(LiveAfter(o), o + 1)
  BY <1>6, <1>9
<1>12. \A o \in LastForward + 1 .. LastForward + 4 :
          Program[o].name = "gather" <=> o = LastForward + 1
  <2>1. /\ LastForward + 2 # LastForward + 1 /\ LastForward + 3 # LastForward + 1
        /\ LastForward + 4 # LastForward + 1
    BY <1>1
  <2> QED BY <1>7, <1>8, <2>1
<1> QED
  BY <1>10, <1>11, <1>12

-----------------------------------------------------------------------------
(* The pass.                                                                *)

Intact(name, r) ==
    \A address \in RowAddresses(name, r) :
        /\ address \in DOMAIN memory
        /\ memory[address] = [op |-> tensors[name][r], row |-> r, address |-> address]

PassTypeOK ==
    /\ op \in 0 .. LastForward + 4
    /\ batch.numTokens \in 0 .. MaxTokens
    /\ \E count \in Nat :
          /\ count <= MaxSamplingReqs /\ count <= batch.numTokens
          /\ batch.sampled \in [1 .. count -> 0 .. batch.numTokens - 1]
    /\ DOMAIN memory = 0 .. RequiredSize - 1
    /\ DOMAIN tensors = ViewNames
    /\ \A name \in ViewNames : DOMAIN tensors[name] = 0 .. Place(name).rows - 1

\* The live views are intact, but for rows that the running operator has still
\* to write, and so is what it has still to read.
Upheld(o, unwritten) ==
    /\ \A name \in LiveAfter(o), r \in RowsOf(o) :
          name \notin Program[o].writes \/ r \notin unwritten => Intact(name, r)
    /\ \A name \in Program[o].reads, r \in unwritten : Intact(name, ReadRow(o, r))

PassInv ==
    /\ PassTypeOK
    /\ op = 0 => pending = {}
    /\ op # 0 => op \in 1 .. LastOp /\ pending \subseteq RowsOf(op) /\ Upheld(op, pending)

LEMMA Batch ==
    ASSUME PassTypeOK
    PROVE  /\ Len(batch.sampled) \in Nat /\ Len(batch.sampled) <= MaxSamplingReqs
           /\ Len(batch.sampled) <= batch.numTokens
           /\ batch.numTokens \in Nat /\ batch.numTokens <= MaxTokens
           /\ \A r \in 0 .. Len(batch.sampled) - 1 :
                 batch.sampled[r + 1] \in 0 .. batch.numTokens - 1
<1>1. PICK count \in Nat :
          /\ count <= MaxSamplingReqs /\ count <= batch.numTokens
          /\ batch.sampled \in [1 .. count -> 0 .. batch.numTokens - 1]
  BY DEF PassTypeOK
<1>2. batch.numTokens \in Nat /\ batch.numTokens <= MaxTokens
  BY WorkspaceAssumption DEF PassTypeOK
<1>3. Len(batch.sampled) = count
  BY <1>1
<1>4. \A r \in 0 .. count - 1 : r + 1 \in 1 .. count
  BY <1>1
<1> QED
  BY <1>1, <1>2, <1>3, <1>4

LEMMA RowsInRange ==
    ASSUME PassTypeOK, NEW o \in 1 .. LastForward + 4, NEW r \in RowsOf(o)
    PROVE  /\ o <= LastForward => /\ r \in 0 .. MaxTokens - 1
                                  /\ r \in 0 .. batch.numTokens - 1
           /\ o > LastForward => /\ r \in 0 .. MaxSamplingReqs - 1
                                 /\ r \in 0 .. MaxTokens - 1
                                 /\ r \in 0 .. Len(batch.sampled) - 1
<1>1. LastForward \in Nat /\ Len(Forward) = LastForward
  BY ProgramShape DEF LastForward
<1>2. {MaxTokens, MaxSamplingReqs} \subseteq Nat
  BY WorkspaceAssumption
<1>3. RowsOf(o) = IF o <= LastForward THEN 0 .. batch.numTokens - 1
                  ELSE 0 .. Len(batch.sampled) - 1
  BY <1>1 DEF RowsOf
<1> QED
  BY <1>1, <1>2, <1>3, Batch

\* The row that an operator writes shares no element with a row that lives on,
\* other than itself, or with one that another of its rows reads.
LEMMA Separate ==
    ASSUME PassTypeOK, NEW o \in 1 .. LastForward + 4,
           NEW a \in Program[o].writes, NEW r \in RowsOf(o)
    PROVE  /\ a \in ViewNames /\ r \in 0 .. Place(a).rows - 1
           /\ \A b \in LiveAfter(o), s \in RowsOf(o) : (a = b /\ r = s) \/ Apart(a, r, b, s)
           /\ \A b \in Program[o].reads, s \in RowsOf(o) :
                 s # r => Apart(a, r, b, ReadRow(o, s))
<1>1. LastForward \in Nat /\ {MaxTokens, MaxSamplingReqs} \subseteq Nat
  BY ProgramShape, WorkspaceAssumption DEF LastForward
<1>2. ActivationViews \subseteq ViewNames /\ SamplingViews \subseteq ViewNames
  BY Placement
<1>3. CASE o <= LastForward
  <2>1. WritesForward(o)
    <3>1. o \in 1 .. LastForward
      BY <1>1, <1>3
    <3> QED BY <3>1, ForwardTable
  <2>2. a \in ActivationViews /\ a \in ViewNames
    BY <1>2, <2>1 DEF WritesForward
  <2>3. \A s \in RowsOf(o) : s \in 0 .. Place(a).rows - 1
    BY <1>3, <2>2, Placement, RowsInRange
  <2>4. ASSUME NEW b \in LiveAfter(o), NEW s \in RowsOf(o), ~ (a = b /\ r = s)
        PROVE  Apart(a, r, b, s)
    <3>1. b \in ViewNames /\ Harmless(a, b) /\ ~ (a = "gated" /\ b = "gate_up")
      BY <1>2, <2>1 DEF WritesForward
    <3> QED BY <2>2, <2>3, <2>4, <3>1, ApartHarmless
  <2>5. ASSUME NEW b \in Program[o].reads, NEW s \in RowsOf(o), s # r
        PROVE  Apart(a, r, b, ReadRow(o, s))
    <3>1. b \in ViewNames /\ Harmless(a, b)
      BY <1>2, <2>1 DEF WritesForward
    <3>2. ReadRow(o, s) = s
      BY <2>1 DEF ReadRow, WritesForward
    <3> QED BY <2>2, <2>3, <2>5, <3>1, <3>2, ApartHarmless
  <2> QED BY <2>2, <2>3, <2>4, <2>5
<1>4. CASE o > LastForward
  <2>1. o \in LastForward + 1 .. LastForward + 4 /\ WritesSampling(o)
    <3>1. o \in LastForward + 1 .. LastForward + 4
      BY <1>1, <1>4
    <3> QED BY <3>1, LogitsTable
  <2>2. a \in SamplingViews /\ a \in ViewNames /\ a # "gated"
    BY <1>2, <2>1 DEF WritesSampling, SamplingViews
  <2>3. \A s \in RowsOf(o) : s \in 0 .. Place(a).rows - 1 /\ s \in 0 .. MaxTokens - 1
                             /\ s \in 0 .. MaxSamplingReqs - 1
    BY <1>4, <2>2, Placement, RowsInRange
  <2>4. ASSUME NEW b \in LiveAfter(o), NEW s \in RowsOf(o), ~ (a = b /\ r = s)
        PROVE  Apart(a, r, b, s)
    <3>1. b \in ViewNames /\ Harmless(a, b)
      BY <1>2, <2>1 DEF WritesSampling
    <3> QED BY <2>2, <2>3, <2>4, <3>1, ApartHarmless
  <2>5. ASSUME NEW b \in Program[o].reads, NEW s \in RowsOf(o), s # r
        PROVE  Apart(a, r, b, ReadRow(o, s))
    <3>1. CASE Program[o].name = "gather"
      <4>1. a = "sampling_hidden" /\ b = "residual"
        BY <2>1, <3>1 DEF WritesSampling
      <4>2. ReadRow(o, s) \in 0 .. MaxTokens - 1
        <5>1. ReadRow(o, s) = batch.sampled[s + 1]
          BY <3>1 DEF ReadRow
        <5>2. s \in 0 .. Len(batch.sampled) - 1
          BY <1>4, RowsInRange
        <5> QED BY <1>1, <5>1, <5>2, Batch
      <4>3. r \in 0 .. MaxTokens - 1 /\ r < MaxSamplingReqs
        BY <1>1, <2>3
      <4> QED BY <4>1, <4>2, <4>3, ApartGather
    <3>2. CASE Program[o].name # "gather"
      <4>1. b \in ViewNames /\ Harmless(a, b)
        BY <1>2, <2>1, <3>2 DEF WritesSampling
      <4>2. ReadRow(o, s) = s
        BY <3>2 DEF ReadRow
      <4> QED BY <2>2, <2>3, <2>5, <4>1, <4>2, ApartHarmless
    <3> QED BY <3>1, <3>2
  <2> QED BY <2>2, <2>3, <2>4, <2>5
<1> QED
  BY <1>1, <1>3, <1>4

LEMMA NextOperator ==
    ASSUME PassTypeOK, NEW o \in 1 .. LastForward + 3
    PROVE  /\ \A name \in LiveAfter(o + 1), s \in RowsOf(o + 1) :
                 \/ name \in Program[o + 1].writes
                 \/ name \in LiveAfter(o) /\ s \in RowsOf(o)
           /\ \A name \in Program[o + 1].reads, s \in RowsOf(o + 1) :
                 name \in LiveAfter(o) /\ ReadRow(o + 1, s) \in RowsOf(o)
<1>1. LastForward \in Nat /\ Len(Forward) = LastForward /\ o + 1 \in 1 .. LastForward + 4
  BY ProgramShape DEF LastForward
<1>2. Feeds(LiveAfter(o), o + 1)
  <2>1. o \in 1 .. LastForward - 1 \/ o \in LastForward .. LastForward + 3
    BY <1>1
  <2> QED BY <2>1, ForwardTable, LogitsTable
<1>3. CASE o # LastForward
  <2>1. RowsOf(o + 1) = RowsOf(o)
    <3>1. o + 1 <= LastForward <=> o <= LastForward
      BY <1>1, <1>3
    <3> QED BY <1>1, <3>1 DEF RowsOf
  <2>2. Program[o + 1].name # "gather"
    <3>1. o + 1 \in 1 .. LastForward \/ (o + 1 \in LastForward + 1 .. LastForward + 4
                                         /\ o + 1 # LastForward + 1)
      BY <1>1, <1>3
    <3> QED BY <3>1, ForwardTable, LogitsTable DEF WritesForward
  <2> QED BY <1>2, <2>1, <2>2 DEF Feeds, ReadRow
<1>4. CASE o = LastForward
  <2>1. o + 1 \in LastForward + 1 .. LastForward + 4 /\ o + 1 = LastForward + 1
    BY <1>1, <1>4
  <2>2. WritesSampling(o + 1) /\ Program[o + 1].name = "gather"
    BY <2>1, LogitsTable
  <2>3. \A s \in RowsOf(o + 1) : ReadRow(o + 1, s) \in RowsOf(o)
    <3> SUFFICES ASSUME NEW s \in RowsOf(o + 1) PROVE ReadRow(o + 1, s) \in RowsOf(o)
      OBVIOUS
    <3>1. s \in 0 .. Len(batch.sampled) - 1
      BY <1>1, <2>1, RowsInRange
    <3>2. ReadRow(o + 1, s) = batch.sampled[s + 1]
      BY <2>2 DEF ReadRow
    <3>3. RowsOf(o) = 0 .. batch.numTokens - 1
      BY <1>1, <1>4 DEF RowsOf
    <3> QED BY <3>1, <3>2, <3>3, Batch
  <2> QED BY <1>2, <2>2, <2>3 DEF Feeds, WritesSampling
<1> QED
  BY <1>3, <1>4

LEMMA WriteRow ==
    ASSUME PassTypeOK, op \in 1 .. LastForward + 4, NEW r \in RowsOf(op),
           \A a \in Program[op].writes :
              /\ memory' = [address \in DOMAIN memory |->
                    IF address \in RowAddresses(a, r)
                    THEN [op |-> op, row |-> r, address |-> address]
                    ELSE memory[address]]
              /\ tensors' = [tensors EXCEPT ![a][r] = op],
           Program[op].writes = {} => UNCHANGED <<memory, tensors>>
    PROVE  /\ DOMAIN memory' = 0 .. RequiredSize - 1 /\ DOMAIN tensors' = ViewNames
           /\ \A name \in ViewNames : DOMAIN tensors'[name] = 0 .. Place(name).rows - 1
           /\ \A a \in Program[op].writes : Intact(a, r)'
           /\ \A name \in ViewNames : \A s :
                 Intact(name, s)
                 /\ (\A a \in Program[op].writes : (a = name /\ s = r) \/ Apart(a, r, name, s))
                 => Intact(name, s)'
<1>1. CASE Program[op].writes = {}
  BY <1>1 DEF Intact, PassTypeOK, RowAddresses, Address
<1>2. CASE Program[op].writes # {}
  <2>1. PICK a \in Program[op].writes : TRUE
    BY <1>2
  <2>2. /\ memory' = [address \in DOMAIN memory |->
               IF address \in RowAddresses(a, r)
               THEN [op |-> op, row |-> r, address |-> address]
               ELSE memory[address]]
        /\ tensors' = [tensors EXCEPT ![a][r] = op]
        /\ a \in ViewNames /\ r \in 0 .. Place(a).rows - 1
    BY <2>1, Separate
  <2>3. \A b \in Program[op].writes : b = a
    <3>1. \E x : Program[op].writes \subseteq {x}
      <4>1. LastForward \in Nat
        BY ProgramShape DEF LastForward
      <4>2. op \in 1 .. LastForward \/ op \in LastForward + 1 .. LastForward + 4
        BY <4>1
      <4> QED BY <4>2, ForwardTable, LogitsTable DEF WritesForward, WritesSampling
    <3> QED BY <2>1, <3>1
  <2>4. /\ DOMAIN memory' = 0 .. RequiredSize - 1 /\ DOMAIN tensors' = ViewNames
        /\ \A name \in ViewNames : DOMAIN tensors'[name] = 0 .. Place(name).rows - 1
    <3>1. DOMAIN memory' = 0 .. RequiredSize - 1 /\ DOMAIN tensors' = ViewNames
      BY <2>2 DEF PassTypeOK
    <3>2. ASSUME NEW name \in ViewNames
          PROVE  DOMAIN tensors'[name] = 0 .. Place(name).rows - 1
      <4>1. tensors'[name] = IF name = a THEN [tensors[a] EXCEPT ![r] = op] ELSE tensors[name]
        BY <2>2 DEF PassTypeOK
      <4> QED BY <4>1 DEF PassTypeOK
    <3> QED BY <3>1, <3>2
  <2>5. Intact(a, r)'
    <3> SUFFICES ASSUME NEW address \in RowAddresses(a, r)'
                 PROVE  /\ address \in DOMAIN memory'
                        /\ memory'[address] = [op |-> tensors'[a][r], row |-> r, address |-> address]
      BY DEF Intact
    <3>1. address \in RowAddresses(a, r)
      BY DEF RowAddresses, Address
    <3>2. address \in DOMAIN memory
      BY <2>2, <3>1, RowPlace DEF PassTypeOK
    <3>3. tensors'[a][r] = op
      BY <2>2 DEF PassTypeOK
    <3> QED BY <2>2, <3>1, <3>2, <3>3
  <2>6. ASSUME NEW name \in ViewNames, NEW s, Intact(name, s), ~ (a = name /\ s = r),
               Apart(a, r, name, s)
        PROVE  Intact(name, s)'
    <3> SUFFICES ASSUME NEW address \in RowAddresses(name, s)'
                 PROVE  /\ address \in DOMAIN memory'
                        /\ memory'[address] = [op |-> tensors'[name][s], row |-> s, address |-> address]
      BY DEF Intact
    <3>1. address \in RowAddresses(name, s) /\ address \notin RowAddresses(a, r)
      <4>1. address \in RowAddresses(name, s)
        BY DEF RowAddresses, Address
      <4> QED BY <2>6, <4>1 DEF Apart
    <3>2. /\ address \in DOMAIN memory
          /\ memory[address] = [op |-> tensors[name][s], row |-> s, address |-> address]
      BY <2>6, <3>1 DEF Intact
    <3>3. tensors'[name][s] = tensors[name][s]
      <4>1. tensors'[name] = IF name = a THEN [tensors[a] EXCEPT ![r] = op] ELSE tensors[name]
        BY <2>2 DEF PassTypeOK
      <4>2. name = a => s # r
        BY <2>6
      <4>3. name = a => [tensors[a] EXCEPT ![r] = op][s] = tensors[a][s]
        BY <4>2
      <4> QED BY <4>1, <4>3
    <3> QED BY <2>2, <3>1, <3>2, <3>3
  <2> QED BY <2>1, <2>3, <2>4, <2>5, <2>6
<1> QED
  BY <1>1, <1>2

LEMMA PassInit == ModelInit => PassInv
<1> SUFFICES ASSUME ModelInit PROVE PassInv
  OBVIOUS
<1>1. op = 0 /\ pending = {} /\ batch.numTokens = 0 /\ batch.sampled = <<>>
  BY DEF ModelInit
<1>2. LastForward + 4 \in Nat /\ MaxTokens \in Nat /\ MaxSamplingReqs \in Nat
  BY ProgramShape, WorkspaceAssumption DEF LastForward
<1>3. batch.sampled \in [1 .. 0 -> 0 .. batch.numTokens - 1]
  BY <1>1
<1>4. /\ DOMAIN memory = 0 .. RequiredSize - 1 /\ DOMAIN tensors = ViewNames
      /\ \A name \in ViewNames : DOMAIN tensors[name] = 0 .. Place(name).rows - 1
  BY DEF ModelInit, Place
<1>5. 0 \in Nat /\ 0 <= MaxSamplingReqs /\ 0 <= batch.numTokens
  BY <1>1, <1>2
<1>6. op \in 0 .. LastForward + 4 /\ batch.numTokens \in 0 .. MaxTokens
  BY <1>1, <1>2
<1> QED
  BY <1>1, <1>3, <1>4, <1>5, <1>6 DEF PassInv, PassTypeOK

\* Increasing rows are as many as the tokens at most.
LEMMA Increasing ==
    ASSUME NEW n \in Nat, NEW count \in Nat, NEW rows \in [1 .. count -> 0 .. n - 1],
           \A i, j \in 1 .. count : i < j => rows[i] < rows[j]
    PROVE  count <= n
<1> DEFINE T == {i \in 0 .. count : i = 0 \/ i <= rows[i] + 1}
<1>1. ASSUME NEW i \in 0 .. (count - 1), i \in T PROVE i + 1 \in T
  <2>1. i + 1 \in 1 .. count /\ rows[i + 1] \in 0 .. n - 1
    OBVIOUS
  <2>2. CASE i = 0
    BY <2>1, <2>2
  <2>3. CASE i # 0
    <3>1. i \in 1 .. count /\ i < i + 1
      BY <2>3
    <3>2. rows[i] < rows[i + 1] /\ rows[i] \in 0 .. n - 1
      BY <2>1, <3>1
    <3> QED BY <1>1, <2>1, <2>3, <3>2
  <2> QED BY <2>2, <2>3
<1>2. count \in T
  <2>1. 0 \in T
    OBVIOUS
  <2> HIDE DEF T
  <2>2. \A i \in 0 .. count : i \in T
    BY <1>1, <2>1, InductionUpTo
  <2> QED BY <2>2
<1>3. count # 0 => rows[count] \in 0 .. n - 1
  OBVIOUS
<1> QED
  BY <1>2, <1>3

LEMMA PassStarts == PassInv /\ StartPass => PassInv'
<1> SUFFICES ASSUME PassInv, StartPass PROVE PassInv'
  OBVIOUS
<1>0. PICK numTokens \in 1 .. MaxTokens, count \in 0 .. MaxSamplingReqs :
        \E rows \in [1 .. count -> 0 .. numTokens - 1] :
            /\ \A i, j \in 1 .. count : i < j => rows[i] < rows[j]
            /\ batch' = [numTokens |-> numTokens, sampled |-> rows]
            /\ pending' = 0 .. numTokens - 1
  BY DEF StartPass
<1>1. PICK rows \in [1 .. count -> 0 .. numTokens - 1] :
        /\ \A i, j \in 1 .. count : i < j => rows[i] < rows[j]
        /\ batch' = [numTokens |-> numTokens, sampled |-> rows]
        /\ pending' = 0 .. numTokens - 1
  BY <1>0
<1>2. op' = 1 /\ UNCHANGED <<memory, tensors>>
  BY DEF StartPass
<1>3. /\ {MaxTokens, MaxSamplingReqs} \subseteq Nat /\ LastForward \in Nat \ {0}
      /\ Len(Forward) = LastForward /\ Len(Program) = LastForward + 4
  BY ProgramShape, WorkspaceAssumption DEF LastForward
<1>4. numTokens \in Nat /\ count \in Nat /\ count <= MaxSamplingReqs /\ numTokens <= MaxTokens
  BY <1>3
<1>5. count <= numTokens
  BY <1>1, <1>4, Increasing
<1>6. PassTypeOK'
  <2>1. batch'.numTokens = numTokens /\ batch'.sampled = rows
    BY <1>1
  <2>2. op' \in 0 .. LastForward + 4 /\ batch'.numTokens \in 0 .. MaxTokens
    BY <1>2, <1>3, <1>4, <2>1
  <2>3. /\ DOMAIN memory' = 0 .. RequiredSize - 1 /\ DOMAIN tensors' = ViewNames
        /\ \A name \in ViewNames : DOMAIN tensors'[name] = 0 .. Place(name).rows - 1
    BY <1>2 DEF PassInv, PassTypeOK
  <2> QED BY <1>4, <1>5, <2>1, <2>2, <2>3 DEF PassTypeOK
<1>7. op' # 0 /\ op' \in (1 .. LastOp)'
  <2>1. LastOp' \in {LastForward, LastForward + 4}
    BY <1>3 DEF LastOp
  <2> QED BY <1>2, <1>3, <2>1
<1>8. RowsOf(1)' = pending'
  BY <1>1, <1>3 DEF RowsOf
<1>9. Upheld(op, pending)'
  BY <1>2, <1>8, ForwardTable DEF Upheld
<1> QED
  BY <1>2, <1>6, <1>7, <1>8, <1>9 DEF PassInv

LEMMA PassRuns == ASSUME PassInv, NEW r, RunRow(r) PROVE PassInv'
<1>1. /\ PassTypeOK /\ op \in 1 .. LastOp /\ pending \subseteq RowsOf(op) /\ Upheld(op, pending)
      /\ r \in pending /\ r \in RowsOf(op) /\ UNCHANGED batch
  BY DEF PassInv, RunRow
<1>2. /\ LastForward \in Nat \ {0} /\ LastOp \in {LastForward, LastForward + 4}
      /\ op \in 1 .. LastForward + 4 /\ op \in Nat
  <2>1. LastForward \in Nat \ {0}
    BY ProgramShape DEF LastForward
  <2>2. LastOp \in {LastForward, LastForward + 4}
    BY ProgramShape DEF LastOp
  <2> QED BY <1>1, <2>1, <2>2
<1>3. /\ DOMAIN memory' = 0 .. RequiredSize - 1 /\ DOMAIN tensors' = ViewNames
      /\ \A name \in ViewNames : DOMAIN tensors'[name] = 0 .. Place(name).rows - 1
      /\ \A a \in Program[op].writes : Intact(a, r)'
      /\ \A name \in ViewNames : \A s :
            Intact(name, s)
            /\ (\A a \in Program[op].writes : (a = name /\ s = r) \/ Apart(a, r, name, s))
            => Intact(name, s)'
  <2>1. \A a \in Program[op].writes :
              /\ memory' = [address \in DOMAIN memory |->
                    IF address \in RowAddresses(a, r)
                    THEN [op |-> op, row |-> r, address |-> address]
                    ELSE memory[address]]
              /\ tensors' = [tensors EXCEPT ![a][r] = op]
    BY DEF RunRow
  <2>2. Program[op].writes = {} => UNCHANGED <<memory, tensors>>
    BY DEF RunRow
  <2> QED BY <1>1, <1>2, <2>1, <2>2, WriteRow
<1>4. /\ \A o : RowsOf(o)' = RowsOf(o)
      /\ LastOp' = LastOp
      /\ \A o, s : ReadRow(o, s)' = ReadRow(o, s)
  BY <1>1 DEF RowsOf, LastOp, ReadRow
<1>5. LiveAfter(op) \subseteq ViewNames /\ Program[op].reads \subseteq ViewNames
  <2>1. op \in 1 .. LastForward \/ op \in LastForward + 1 .. LastForward + 4
    BY <1>2
  <2>2. ActivationViews \cup SamplingViews = ViewNames /\ "residual" \in ViewNames
    BY Placement DEF ActivationViews
  <2> QED BY <2>1, <2>2, ForwardTable, LogitsTable DEF WritesForward, WritesSampling
<1>6. ASSUME NEW name \in LiveAfter(op), NEW s \in RowsOf(op),
             name \notin Program[op].writes \/ s \notin pending \ {r}
      PROVE  Intact(name, s)'
  <2>1. CASE name \in Program[op].writes /\ s = r
    BY <1>3, <2>1
  <2>2. CASE ~ (name \in Program[op].writes /\ s = r)
    <3>1. Intact(name, s)
      BY <1>1, <1>6, <2>2 DEF Upheld
    <3>2. \A a \in Program[op].writes : (a = name /\ s = r) \/ Apart(a, r, name, s)
      BY <1>1, <1>2, Separate
    <3> QED BY <1>3, <1>5, <3>1, <3>2
  <2> QED BY <2>1, <2>2
<1>7. ASSUME NEW name \in Program[op].reads, NEW s \in pending \ {r},
             NEW from, from = ReadRow(op, s)
      PROVE  Intact(name, from)'
  <2>1. Intact(name, from)
    BY <1>1, <1>7 DEF Upheld
  <2>2. \A a \in Program[op].writes : Apart(a, r, name, from)
    <3>1. s \in RowsOf(op) /\ s # r
      BY <1>1
    <3> QED BY <1>1, <1>2, <1>7, <3>1, Separate
  <2> QED BY <1>3, <1>5, <2>1, <2>2
<1>8. CASE pending # {r}
  <2>1. pending' = pending \ {r} /\ op' = op
    BY <1>8 DEF RunRow
  <2>2. Upheld(op, pending)'
    BY <1>4, <1>6, <1>7, <2>1 DEF Upheld
  <2>3. PassTypeOK'
    BY <1>1, <1>3, <2>1 DEF PassTypeOK
  <2> QED BY <1>1, <1>2, <1>4, <2>1, <2>2, <2>3 DEF PassInv
<1>9. CASE pending = {r} /\ op = LastOp
  <2>1. pending' = {} /\ op' = 0
    BY <1>9 DEF RunRow
  <2>2. PassTypeOK'
    BY <1>1, <1>2, <1>3, <2>1 DEF PassTypeOK
  <2> QED BY <2>1, <2>2 DEF PassInv
<1>10. CASE pending = {r} /\ op # LastOp
  <2>1. pending' = RowsOf(op + 1) /\ op' = op + 1
    BY <1>10 DEF RunRow
  <2>2. op \in 1 .. LastForward + 3 /\ op + 1 \in 1 .. LastOp /\ op + 1 \in 0 .. LastForward + 4
    BY <1>1, <1>2, <1>10
  <2>3. \A name \in LiveAfter(op), s \in RowsOf(op) : Intact(name, s)'
    BY <1>6, <1>10
  <2>4. \A name \in LiveAfter(op + 1), s \in RowsOf(op + 1) :
            \/ name \in Program[op + 1].writes
            \/ name \in LiveAfter(op) /\ s \in RowsOf(op)
    BY <1>1, <2>2, NextOperator
  <2>5. \A name \in Program[op + 1].reads, s \in RowsOf(op + 1) :
            name \in LiveAfter(op) /\ ReadRow(op + 1, s) \in RowsOf(op)
    BY <1>1, <2>2, NextOperator
  <2>6. Upheld(op, pending)'
    BY <1>4, <2>1, <2>3, <2>4, <2>5 DEF Upheld
  <2>7. PassTypeOK'
    BY <1>1, <1>3, <2>1, <2>2 DEF PassTypeOK
  <2> QED BY <1>2, <1>4, <2>1, <2>2, <2>6, <2>7 DEF PassInv
<1> QED
  BY <1>8, <1>9, <1>10

LEMMA PassStep == PassInv /\ [ModelNext]_modelVars => PassInv'
<1> SUFFICES ASSUME PassInv, [ModelNext]_modelVars PROVE PassInv'
  OBVIOUS
<1>1. CASE UNCHANGED passVars
  BY <1>1 DEF passVars, PassInv, PassTypeOK, Upheld, Intact, RowAddresses, Address, RowsOf,
     ReadRow, LastOp
<1>2. CASE StartPass
  BY <1>2, PassStarts
<1>3. ASSUME NEW r \in 0 .. MaxTokens - 1, RunRow(r) PROVE PassInv'
  BY <1>3, PassRuns
<1>4. ModelNext \/ UNCHANGED modelVars
  OBVIOUS
<1> QED
  BY <1>1, <1>2, <1>3, <1>4 DEF ModelNext, LoadModel, modelVars

(* The operators of a pass over any model and batch, their rows in any order,*)
(* never find in a shared workspace anything other than what was last        *)
(* written to the view they read.                                            *)
THEOREM WorkspaceSharing == ModelSpec => []AliasingInvisible
<1>1. PassInv => AliasingInvisible
  <2> SUFFICES ASSUME PassInv, NEW r \in pending, NEW name \in Program[op].reads
               PROVE  Intact(name, ReadRow(op, r))
    BY DEF AliasingInvisible, Intact
  <2>1. op # 0
    BY DEF PassInv
  <2> QED BY <2>1 DEF PassInv, Upheld
<1> QED
  BY <1>1, PassInit, PassStep, PTL DEF ModelSpec

-----------------------------------------------------------------------------
(* The weights: the tensors of the file, and the order they are placed in.  *)

Tensors == [name : TensorNames, layer : Nat, size : Nat, align : BOOLEAN]

\* The tensors of the file have different names.
FileOK ==
    /\ file.tensors \in Seq(Tensors)
    /\ \A i, j \in 1 .. Len(file.tensors) : file.tensors[i] = file.tensors[j] => i = j

Sizes == [i \in 1 .. Len(file.tensors) |-> file.tensors[i].size]

LEMMA SourceOffset ==
    ASSUME FileOK, NEW k \in 1 .. Len(file.tensors)
    PROVE  SrcOffset(file.tensors[k]) = SumOf(Sizes, 1 .. k - 1)
<1> DEFINE S == 1 .. k - 1
           Right(g) == FoldEquation(g, Sizes, S)
           Left(g) == g = [s \in SUBSET S |->
                              IF s = {} THEN 0
                              ELSE file.tensors[Pick(s)].size + g[s \ {Pick(s)}]]
<1>1. S = {i \in DOMAIN file.tensors :
              i < (CHOOSE j \in DOMAIN file.tensors : file.tensors[j] = file.tensors[k])}
  <2>1. DOMAIN file.tensors = 1 .. Len(file.tensors) /\ Len(file.tensors) \in Nat
    BY DEF FileOK
  <2>2. (CHOOSE j \in DOMAIN file.tensors : file.tensors[j] = file.tensors[k]) = k
    BY <2>1 DEF FileOK
  <2> DEFINE n == Len(file.tensors)
             c == CHOOSE j \in DOMAIN file.tensors : file.tensors[j] = file.tensors[k]
  <2>3. DOMAIN file.tensors = 1 .. n /\ n \in Nat /\ c = k /\ k \in 1 .. n
    BY <2>1, <2>2
  <2> HIDE DEF n, c
  <2>4. {i \in DOMAIN file.tensors : i < c} = 1 .. k - 1
    BY <2>3
  <2> QED BY <2>4, Zenon DEF c
<1>2. SrcOffset(file.tensors[k]) = MapThenSumSet(LAMBDA i : file.tensors[i].size, S)
  BY <1>1, Zenon DEF SrcOffset
<1>3. MapThenSumSet(LAMBDA i : file.tensors[i].size, S) = (CHOOSE g : Left(g))[S]
  <2> HIDE DEF S
  <2> QED BY Zenon DEF MapThenSumSet, MapThenFoldSet, Pick
<1>4. ASSUME NEW g PROVE Left(g) <=> Right(g)
  <2>1. ASSUME NEW s \in SUBSET S, s # {}
        PROVE  file.tensors[Pick(s)].size = Sizes[Pick(s)]
    <3>1. Pick(s) \in s
      BY <2>1, Zenon DEF Pick
    <3>2. Pick(s) \in 1 .. Len(file.tensors)
      <4>1. Len(file.tensors) \in Nat
        BY DEF FileOK
      <4>2. Pick(s) \in 1 .. k - 1
        BY <3>1
      <4> QED BY <4>1, <4>2
    <3> QED BY <3>2 DEF Sizes
  <2> HIDE DEF S
  <2>2. [s \in SUBSET S |-> IF s = {} THEN 0
                            ELSE file.tensors[Pick(s)].size + g[s \ {Pick(s)}]]
        = [s \in SUBSET S |-> IF s = {} THEN 0 ELSE Sizes[Pick(s)] + g[s \ {Pick(s)}]]
    BY <2>1
  <2> QED BY <2>2 DEF FoldEquation
<1>5. (CHOOSE g : Left(g)) = (CHOOSE g : Right(g))
  <2> HIDE DEF Left, Right
  <2> QED BY <1>4
<1>6. (CHOOSE g : Right(g)) = FoldOf(Sizes, S)
  BY Zenon DEF FoldOf
<1> QED BY <1>2, <1>3, <1>5, <1>6, Zenon DEF SumOf


LEMMA Elements ==
    ASSUME FileOK, NEW k \in 1 .. Len(file.tensors)
    PROVE  \A j \in 1 .. file.tensors[k].size :
              FileElements[SrcOffset(file.tensors[k]) + j] = <<file.tensors[k], j>>
<1> DEFINE n == Len(file.tensors)
           seqs == [i \in DOMAIN file.tensors |->
                       [j \in 1 .. file.tensors[i].size |-> <<file.tensors[i], j>>]]
           O == [i \in 0 .. n |-> SumOf(Sizes, 1 .. i)]
           X == Tensors \X Nat
<1>1. DOMAIN file.tensors = 1 .. n /\ n \in Nat \ {0} /\ k \in 1 .. n /\ k \in Nat
  BY DEF FileOK
<1>2. \A i \in 1 .. n : file.tensors[i] \in Tensors /\ file.tensors[i].size \in Nat
  <2>1. \A i \in 1 .. n : file.tensors[i] \in Tensors
    BY DEF FileOK
  <2>2. \A t \in Tensors : t.size \in Nat
    BY DEF Tensors
  <2> HIDE DEF n
  <2> QED BY <2>1, <2>2
<1>3. \A i \in 1 .. n : Sizes[i] = file.tensors[i].size /\ Sizes[i] \in Nat
  BY <1>2 DEF Sizes
<1>4. Len(seqs) = n
  BY <1>1
<1>5. ASSUME NEW i \in 1 .. n
      PROVE  /\ seqs[i] \in Seq(X) /\ Len(seqs[i]) = Sizes[i]
             /\ \A j \in 1 .. Sizes[i] : seqs[i][j] = <<file.tensors[i], j>>
  <2> DEFINE t == file.tensors[i]
             m == Sizes[i]
             d == [j \in 1 .. m |-> <<t, j>>]
  <2>1. t \in Tensors /\ m \in Nat /\ t.size = m
    BY <1>2, <1>3
  <2>2. seqs[i] = d
    BY <1>1, <2>1
  <2> HIDE DEF t, m, seqs
  <2>3. \A j \in 1 .. m : d[j] = <<t, j>> /\ d[j] \in X
    BY <2>1
  <2>4. d \in Seq(X) /\ Len(d) = m
    <3>1. d = [j \in 1 .. m |-> d[j]]
      OBVIOUS
    <3> HIDE DEF d, X
    <3> QED BY <2>1, <2>3, <3>1, Tabulated
  <2> HIDE DEF d, X
  <2> QED BY <2>2, <2>3, <2>4 DEF t, m
<1>6. ASSUME NEW i \in 0 .. n
      PROVE  O[i] = SumOf(Sizes, 1 .. i) /\ O[i] \in Nat
  <2>1. IsFiniteSet(1 .. i) /\ \A j \in 1 .. i : Sizes[j] \in Nat
    BY <1>1, <1>3, FS_Interval
  <2> DEFINE S == 1 .. i
  <2> HIDE DEF S
  <2>2. SumOf(Sizes, S) \in Nat
    BY <2>1, SumElement DEF S
  <2> QED BY <2>2 DEF S
<1>7. ASSUME NEW i \in 1 .. n PROVE O[i] = O[i - 1] + Sizes[i]
  <2>1. i - 1 \in 0 .. n /\ i \in 0 .. n /\ i \in 1 .. i /\ (1 .. i) \ {i} = 1 .. i - 1
    BY <1>1
  <2>2. IsFiniteSet(1 .. i) /\ \A j \in 1 .. i : Sizes[j] \in Nat
    <3>1. 1 \in Int /\ i \in Int /\ \A j \in 1 .. i : j \in 1 .. n
      BY <1>1
    <3>2. IsFiniteSet(1 .. i)
      BY <3>1, FS_Interval
    <3> QED BY <1>3, <3>1, <3>2
  <2> DEFINE S == 1 .. i
             R == 1 .. i - 1
  <2>3. i \in S /\ S \ {i} = R /\ IsFiniteSet(S) /\ \A j \in S : Sizes[j] \in Nat
    BY <2>1, <2>2
  <2>4. O[i] = SumOf(Sizes, S) /\ O[i - 1] = SumOf(Sizes, R) /\ O[i - 1] \in Nat
    BY <1>6, <2>1
  <2>5. Sizes[i] \in Nat
    BY <1>3
  <2> HIDE DEF S, R, O
  <2>6. SumOf(Sizes, S) = Sizes[i] + SumOf(Sizes, S \ {i})
    <3>1. IsFiniteSet(S) /\ \A j \in S : Sizes[j] \in Nat
      BY <2>3
    <3> QED BY <2>3, <3>1, SumElement
  <2>7. SumOf(Sizes, S) = Sizes[i] + SumOf(Sizes, R)
    BY <2>3, <2>6, Zenon
  <2>8. O[i] = Sizes[i] + O[i - 1]
    BY <2>4, <2>7, Zenon
  <2> QED BY <2>4, <2>5, <2>8
<1>8. O[0] = 0
  <2>1. 1 .. 0 = {} /\ 0 \in 0 .. n
    BY <1>1
  <2>2. SumOf(Sizes, {}) = 0
    BY FS_EmptySet, SumElement
  <2> QED BY <1>6, <2>1, <2>2, Zenon
<1>9. SrcOffset(file.tensors[k]) = O[k - 1]
  <2>1. k - 1 \in 0 .. n
    BY <1>1
  <2> QED BY <1>6, <2>1, SourceOffset
<1>10. FileElements = FlattenSeq(seqs)
  BY DEF FileElements
<1>11. \A i \in 1 .. n : O[i] = O[i - 1] + Len(seqs[i])
  BY <1>5, <1>7
<1>12. Lengths(seqs, n, O, X)
  <2> HIDE DEF seqs, O, X, n
  <2>1. /\ \A i \in 1 .. n : seqs[i] \in Seq(X) /\ O[i] = O[i - 1] + Len(seqs[i])
        /\ \A i \in 0 .. n : O[i] \in Nat
    BY <1>5, <1>6, <1>11
  <2> QED BY <1>4, <1>8, <2>1, Zenon DEF Lengths
<1>13. Len(seqs[k]) = file.tensors[k].size
  BY <1>1, <1>3, <1>5
<1> HIDE DEF seqs, O, X, n
<1>14. \A i \in 1 .. n : \A j \in 1 .. Len(seqs[i]) : FlattenSeq(seqs)[O[i - 1] + j] = seqs[i][j]
  <2>1. Joined(FlattenSeq(seqs), seqs, n, O, X)
    BY <1>1, <1>12, Flattened
  <2> QED BY <2>1, Zenon DEF Joined
<1>15. ASSUME NEW j \in 1 .. file.tensors[k].size
       PROVE  FileElements[SrcOffset(file.tensors[k]) + j] = <<file.tensors[k], j>>
  <2>1. k \in 1 .. n /\ j \in 1 .. Len(seqs[k])
    BY <1>1, <1>13
  <2>2. FlattenSeq(seqs)[O[k - 1] + j] = seqs[k][j]
    BY <1>14, <2>1
  <2>3. Sizes[k] = file.tensors[k].size
    BY <1>3, <2>1
  <2>4. seqs[k][j] = <<file.tensors[k], j>>
    BY <1>5, <2>1, <2>3
  <2> QED BY <1>9, <1>10, <2>2, <2>4
<1> QED BY <1>15

\* What build_plan asks for.
Is(t, name, layer, size) ==
    t \in Tensors /\ t.name = name /\ t.layer = layer /\ t.size = size

\* It is to follow the tensor before it without a gap.
IsNext(t, name, layer, size) == Is(t, name, layer, size) /\ ~ t.align

NumNorms == IF config.hasQkNorm THEN 2 ELSE 0
LayerLen == 9 + NumNorms

LEMMA TensorIs ==
    ASSUME NEW name \in TensorNames, NEW layer \in Nat, NEW size \in Nat
    PROVE  /\ Is(Tensor(name, layer, size, TRUE), name, layer, size)
           /\ IsNext(Tensor(name, layer, size, FALSE), name, layer, size)
<1>1. ASSUME NEW a \in BOOLEAN
      PROVE  /\ Tensor(name, layer, size, a) \in Tensors
             /\ Is(Tensor(name, layer, size, a), name, layer, size)
  BY DEF Is, Tensor, Tensors
<1>2. Is(Tensor(name, layer, size, TRUE), name, layer, size)
  BY <1>1, Zenon
<1>3. Is(Tensor(name, layer, size, FALSE), name, layer, size)
  BY <1>1, Zenon
<1>4. ~ Tensor(name, layer, size, FALSE).align
  BY DEF Tensor
<1> QED BY <1>2, <1>3, <1>4 DEF IsNext

\* The places of a layer's tensors.
LayerOrder(s, layer) ==
    /\ Is(s[1], "input_layernorm", layer, HiddenSize)
    /\ Is(s[2], "q_proj", layer, QSize * HiddenSize)
    /\ IsNext(s[3], "k_proj", layer, KVSize * HiddenSize)
    /\ IsNext(s[4], "v_proj", layer, KVSize * HiddenSize)
    /\ NumNorms = 2 => /\ Is(s[5], "q_norm", layer, HeadDim)
                       /\ Is(s[6], "k_norm", layer, HeadDim)
    /\ Is(s[5 + NumNorms], "o_proj", layer, HiddenSize * QSize)
    /\ Is(s[6 + NumNorms], "post_attention_layernorm", layer, HiddenSize)
    /\ Is(s[7 + NumNorms], "gate_proj", layer, IntermediateSize * HiddenSize)
    /\ IsNext(s[8 + NumNorms], "up_proj", layer, IntermediateSize * HiddenSize)
    /\ Is(s[9 + NumNorms], "down_proj", layer, HiddenSize * IntermediateSize)

LEMMA ModelSizes ==
    /\ {VocabSize, HiddenSize, IntermediateSize, HeadDim, QSize, KVSize, NumLayers} \subseteq Nat
    /\ NumLayers \in Nat \ {0}
    /\ QSize * HiddenSize \in Nat /\ KVSize * HiddenSize \in Nat /\ HiddenSize * QSize \in Nat
    /\ IntermediateSize * HiddenSize \in Nat /\ HiddenSize * IntermediateSize \in Nat
    /\ VocabSize * HiddenSize \in Nat
<1>1. /\ VocabSize \in Nat /\ HiddenSize \in Nat /\ IntermediateSize \in Nat /\ HeadDim \in Nat
      /\ QSize \in Nat /\ KVSize \in Nat /\ NumLayers \in Nat \ {0}
  BY ModelConfigAssumption
<1>2. \A a, b \in Nat : a * b \in Nat
  OBVIOUS
<1> QED BY <1>1, <1>2

LEMMA LayerSlots ==
    ASSUME NEW layer \in Layers
    PROVE  /\ LayerTensors(layer) \in Seq(Tensors) /\ Len(LayerTensors(layer)) = LayerLen
           /\ LayerOrder(LayerTensors(layer), layer)
<1> DEFINE s1 == <<Tensor("input_layernorm", layer, HiddenSize, TRUE),
                   Tensor("q_proj", layer, QSize * HiddenSize, TRUE),
                   Tensor("k_proj", layer, KVSize * HiddenSize, FALSE),
                   Tensor("v_proj", layer, KVSize * HiddenSize, FALSE)>>
           s2 == QkNorms(layer)
           s3 == <<Tensor("o_proj", layer, HiddenSize * QSize, TRUE),
                   Tensor("post_attention_layernorm", layer, HiddenSize, TRUE),
                   Tensor("gate_proj", layer, IntermediateSize * HiddenSize, TRUE),
                   Tensor("up_proj", layer, IntermediateSize * HiddenSize, FALSE),
                   Tensor("down_proj", layer, HiddenSize * IntermediateSize, TRUE)>>
           s12 == s1 \o s2
           s == s12 \o s3
<1>1. layer \in Nat
  BY ModelSizes DEF Layers
<1>2. {"input_layernorm", "q_proj", "k_proj", "v_proj", "q_norm", "k_norm", "o_proj",
       "post_attention_layernorm", "gate_proj", "up_proj", "down_proj"} \subseteq TensorNames
  BY DEF TensorNames
<1>3. \A t, name, size : IsNext(t, name, layer, size) => Is(t, name, layer, size)
  BY DEF IsNext
<1>4. /\ Is(s1[1], "input_layernorm", layer, HiddenSize)
      /\ Is(s1[2], "q_proj", layer, QSize * HiddenSize)
      /\ IsNext(s1[3], "k_proj", layer, KVSize * HiddenSize)
      /\ IsNext(s1[4], "v_proj", layer, KVSize * HiddenSize)
      /\ Len(s1) = 4
  <2> DEFINE t1 == Tensor("input_layernorm", layer, HiddenSize, TRUE)
             t2 == Tensor("q_proj", layer, QSize * HiddenSize, TRUE)
             t3 == Tensor("k_proj", layer, KVSize * HiddenSize, FALSE)
             t4 == Tensor("v_proj", layer, KVSize * HiddenSize, FALSE)
  <2>1. Is(t1, "input_layernorm", layer, HiddenSize)
    BY <1>1, <1>2, ModelSizes, TensorIs
  <2>2. Is(t2, "q_proj", layer, QSize * HiddenSize)
    BY <1>1, <1>2, ModelSizes, TensorIs
  <2>3. IsNext(t3, "k_proj", layer, KVSize * HiddenSize)
    BY <1>1, <1>2, ModelSizes, TensorIs
  <2>4. IsNext(t4, "v_proj", layer, KVSize * HiddenSize)
    BY <1>1, <1>2, ModelSizes, TensorIs
  <2> HIDE DEF t1, t2, t3, t4
  <2>5. s1[1] = t1 /\ s1[2] = t2 /\ s1[3] = t3 /\ s1[4] = t4 /\ Len(s1) = 4
    BY DEF t1, t2, t3, t4
  <2> QED BY <2>1, <2>2, <2>3, <2>4, <2>5
<1>5. /\ Is(s3[1], "o_proj", layer, HiddenSize * QSize)
      /\ Is(s3[2], "post_attention_layernorm", layer, HiddenSize)
      /\ Is(s3[3], "gate_proj", layer, IntermediateSize * HiddenSize)
      /\ IsNext(s3[4], "up_proj", layer, IntermediateSize * HiddenSize)
      /\ Is(s3[5], "down_proj", layer, HiddenSize * IntermediateSize)
      /\ Len(s3) = 5
  <2> DEFINE t1 == Tensor("o_proj", layer, HiddenSize * QSize, TRUE)
             t2 == Tensor("post_attention_layernorm", layer, HiddenSize, TRUE)
             t3 == Tensor("gate_proj", layer, IntermediateSize * HiddenSize, TRUE)
             t4 == Tensor("up_proj", layer, IntermediateSize * HiddenSize, FALSE)
             t5 == Tensor("down_proj", layer, HiddenSize * IntermediateSize, TRUE)
  <2>1. Is(t1, "o_proj", layer, HiddenSize * QSize)
    BY <1>1, <1>2, ModelSizes, TensorIs
  <2>2. Is(t2, "post_attention_layernorm", layer, HiddenSize)
    BY <1>1, <1>2, ModelSizes, TensorIs
  <2>3. Is(t3, "gate_proj", layer, IntermediateSize * HiddenSize)
    BY <1>1, <1>2, ModelSizes, TensorIs
  <2>4. IsNext(t4, "up_proj", layer, IntermediateSize * HiddenSize)
    BY <1>1, <1>2, ModelSizes, TensorIs
  <2>5. Is(t5, "down_proj", layer, HiddenSize * IntermediateSize)
    BY <1>1, <1>2, ModelSizes, TensorIs
  <2> HIDE DEF t1, t2, t3, t4, t5
  <2>6. /\ s3[1] = t1 /\ s3[2] = t2 /\ s3[3] = t3 /\ s3[4] = t4 /\ s3[5] = t5
        /\ Len(s3) = 5
    BY DEF t1, t2, t3, t4, t5
  <2> QED BY <2>1, <2>2, <2>3, <2>4, <2>5, <2>6
<1>6. /\ NumNorms \in {0, 2} /\ Len(s2) = NumNorms
      /\ NumNorms = 2 => /\ Is(s2[1], "q_norm", layer, HeadDim)
                         /\ Is(s2[2], "k_norm", layer, HeadDim)
      /\ s2 \in Seq(Tensors)
  <2>1. CASE config.hasQkNorm
    <3> DEFINE t1 == Tensor("q_norm", layer, HeadDim, TRUE)
               t2 == Tensor("k_norm", layer, HeadDim, TRUE)
    <3>1. s2 = <<t1, t2>> /\ NumNorms = 2
      BY <2>1 DEF QkNorms, NumNorms
    <3>2. Is(t1, "q_norm", layer, HeadDim) /\ Is(t2, "k_norm", layer, HeadDim)
      BY <1>1, <1>2, ModelSizes, TensorIs
    <3>3. t1 \in Tensors /\ t2 \in Tensors
      BY <3>2 DEF Is
    <3>4. s2[1] = t1 /\ s2[2] = t2 /\ Len(s2) = 2 /\ s2 \in Seq(Tensors)
      <4> HIDE DEF t1, t2, s2
      <4> QED BY <3>1, <3>3
    <3> HIDE DEF t1, t2, s2
    <3> QED BY <3>1, <3>2, <3>4
  <2>2. CASE ~ config.hasQkNorm
    BY <2>2 DEF QkNorms, NumNorms
  <2> QED BY <2>1, <2>2
<1>7. s1 \in Seq(Tensors) /\ s3 \in Seq(Tensors)
  <2>1. \A i \in 1 .. 4 : s1[i] \in Tensors
    <3>1. s1[1] \in Tensors /\ s1[2] \in Tensors /\ s1[3] \in Tensors /\ s1[4] \in Tensors
      BY <1>3, <1>4 DEF Is
    <3> HIDE DEF s1
    <3> QED BY <3>1
  <2>2. \A i \in 1 .. 5 : s3[i] \in Tensors
    <3>1. s3[1] \in Tensors /\ s3[2] \in Tensors /\ s3[3] \in Tensors /\ s3[4] \in Tensors
          /\ s3[5] \in Tensors
      BY <1>3, <1>5 DEF Is
    <3> HIDE DEF s3
    <3> QED BY <3>1
  <2>3. s1 = [i \in 1 .. 4 |-> s1[i]] /\ s3 = [i \in 1 .. 5 |-> s3[i]]
    OBVIOUS
  <2> HIDE DEF s1, s3
  <2> QED BY <2>1, <2>2, <2>3, Tabulated
<1>8. LayerTensors(layer) = s
  BY Zenon DEF LayerTensors
<1>9. NumNorms \in Nat
  BY <1>6
<1> HIDE DEF s1, s2, s3
<1>10. /\ s12 \in Seq(Tensors) /\ Len(s12) = 4 + NumNorms
       /\ \A j \in 1 .. 4 : s12[j] = s1[j]
       /\ \A j \in 1 .. NumNorms : s12[4 + j] = s2[j]
  <2> DEFINE m == 4
             n == NumNorms
  <2>1. s12 = s1 \o s2 /\ m = Len(s1) /\ n = Len(s2) /\ m \in Nat /\ n \in Nat
    BY <1>4, <1>6
  <2>2. s1 \in Seq(Tensors) /\ s2 \in Seq(Tensors)
    BY <1>6, <1>7
  <2> HIDE DEF s12, m, n
  <2>3. /\ s12 \in Seq(Tensors) /\ Len(s12) = m + n
        /\ \A j \in 1 .. m : s12[j] = s1[j]
        /\ \A j \in 1 .. n : s12[m + j] = s2[j]
    BY <2>1, <2>2, Concatenated
  <2> QED BY <2>3 DEF m, n
<1>11. /\ s \in Seq(Tensors) /\ Len(s) = (4 + NumNorms) + 5
       /\ \A j \in 1 .. 4 + NumNorms : s[j] = s12[j]
       /\ \A j \in 1 .. 5 : s[(4 + NumNorms) + j] = s3[j]
  <2> DEFINE m == 4 + NumNorms
             n == 5
  <2>1. s = s12 \o s3 /\ m = Len(s12) /\ n = Len(s3) /\ m \in Nat /\ n \in Nat
    BY <1>5, <1>9, <1>10
  <2> HIDE DEF s12, s, m, n
  <2>2. /\ s \in Seq(Tensors) /\ Len(s) = m + n
        /\ \A j \in 1 .. m : s[j] = s12[j]
        /\ \A j \in 1 .. n : s[m + j] = s3[j]
    <3>1. s12 \in Seq(Tensors) /\ s3 \in Seq(Tensors)
      BY <1>7, <1>10
    <3> QED BY <2>1, <3>1, Concatenated
  <2> QED BY <2>2 DEF m, n
<1> HIDE DEF s12, s
<1>12. /\ s[1] = s1[1] /\ s[2] = s1[2] /\ s[3] = s1[3] /\ s[4] = s1[4]
       /\ NumNorms = 2 => s[5] = s2[1] /\ s[6] = s2[2]
  <2>1. \A j \in 1 .. 4 : j \in 1 .. 4 + NumNorms
    BY <1>9
  <2>2. \A j \in 1 .. 4 : s[j] = s1[j]
    BY <1>10, <1>11, <2>1
  <2>3. NumNorms = 2 => \A j \in 1 .. 2 : s[4 + j] = s2[j]
    BY <1>10, <1>11
  <2> QED BY <2>2, <2>3
<1>13. /\ s[5 + NumNorms] = s3[1] /\ s[6 + NumNorms] = s3[2] /\ s[7 + NumNorms] = s3[3]
       /\ s[8 + NumNorms] = s3[4] /\ s[9 + NumNorms] = s3[5]
  BY <1>9, <1>11
<1>14. Len(s) = LayerLen
  BY <1>9, <1>11 DEF LayerLen
<1> QED BY <1>4, <1>5, <1>6, <1>8, <1>11, <1>12, <1>13, <1>14 DEF LayerOrder

InLayers == LayerLen * NumLayers
Slot(layer, m) == LayerLen * (layer - 1) + m + 1

LEMMA LayerLength == LayerLen \in {9, 11} /\ NumNorms \in {0, 2} /\ InLayers \in Nat
<1>1. LayerLen \in {9, 11} /\ NumNorms \in {0, 2}
  BY DEF LayerLen, NumNorms
<1>2. \A a, b \in Nat : a * b \in Nat
  OBVIOUS
<1> QED BY <1>1, <1>2, ModelSizes DEF InLayers

LEMMA SlotRange ==
    /\ \A layer \in Layers, m \in 1 .. LayerLen : Slot(layer, m) \in 2 .. InLayers + 1
    /\ \A j \in 2 .. InLayers + 1 : \E layer \in Layers, m \in 1 .. LayerLen : j = Slot(layer, m)
<1>1. LayerLen \in Nat \ {0} /\ NumLayers \in Nat /\ InLayers \in Nat
  BY LayerLength, ModelSizes
<1>2. ASSUME NEW layer \in Layers, NEW m \in 1 .. LayerLen
      PROVE  Slot(layer, m) \in 2 .. InLayers + 1
  <2>1. layer - 1 \in Nat /\ layer - 1 < NumLayers
    BY <1>1 DEF Layers
  <2>2. (layer - 1) * LayerLen + LayerLen <= NumLayers * LayerLen /\ (layer - 1) * LayerLen \in Nat
    BY <1>1, <2>1, Product
  <2>3. LayerLen * (layer - 1) = (layer - 1) * LayerLen /\ NumLayers * LayerLen = InLayers
    BY <1>1, <2>1 DEF InLayers
  <2> QED BY <1>1, <2>2, <2>3 DEF Slot
<1>3. ASSUME NEW j \in 2 .. InLayers + 1
      PROVE  \E layer \in Layers, m \in 1 .. LayerLen : j = Slot(layer, m)
  <2> DEFINE a == j - 2
             q == a \div LayerLen
             r == a % LayerLen
  <2>1. a \in Nat /\ a < InLayers /\ InLayers = NumLayers * LayerLen
    BY <1>1 DEF InLayers
  <2>2. q \in Nat /\ r \in 0 .. LayerLen - 1 /\ a = q * LayerLen + r
    <3> HIDE DEF a
    <3> QED BY <1>1, <2>1, Quotient
  <2>3. q < NumLayers
    <3> HIDE DEF a
    <3> QED BY <1>1, <2>1, QuotientBelow
  <2> HIDE DEF q, r
  <2>4. q + 1 \in Layers /\ r + 1 \in 1 .. LayerLen
    BY <1>1, <2>2, <2>3 DEF Layers
  <2>5. j = Slot(q + 1, r + 1)
    <3>1. LayerLen * ((q + 1) - 1) = q * LayerLen /\ q * LayerLen \in Nat
      BY <1>1, <2>2
    <3> QED BY <1>1, <2>2, <3>1 DEF Slot
  <2> QED BY <2>4, <2>5
<1> QED BY <1>2, <1>3

\* All layers, one after the other.
LayersFlat == FlattenSeq([layer \in Layers |-> LayerTensors(layer)])

LEMMA LayersInOrder ==
    /\ LayersFlat \in Seq(Tensors) /\ Len(LayersFlat) = InLayers
    /\ \A layer \in Layers, m \in 1 .. LayerLen :
          LayersFlat[LayerLen * (layer - 1) + m] = LayerTensors(layer)[m]
<1> DEFINE seqs == [layer \in Layers |-> LayerTensors(layer)]
           n == NumLayers
           O == [i \in 0 .. n |-> LayerLen * i]
<1>1. n \in Nat \ {0} /\ Layers = 1 .. n /\ LayerLen \in Nat
  BY ModelSizes, LayerLength DEF Layers
<1>2. \A layer \in 1 .. n : seqs[layer] \in Seq(Tensors) /\ Len(seqs[layer]) = LayerLen
                            /\ seqs[layer] = LayerTensors(layer)
  BY <1>1, LayerSlots
<1>3. Len(seqs) = n
  BY <1>1
<1>4. \A i \in 0 .. n : O[i] = LayerLen * i /\ O[i] \in Nat
  BY <1>1
<1>5. \A i \in 1 .. n : O[i] = O[i - 1] + LayerLen
  <2> SUFFICES ASSUME NEW i \in 1 .. n PROVE O[i] = O[i - 1] + LayerLen
    OBVIOUS
  <2>1. i \in 0 .. n /\ i - 1 \in 0 .. n /\ i \in Nat
    BY <1>1
  <2>2. LayerLen * i = LayerLen * (i - 1) + LayerLen
    BY <1>1, <2>1
  <2> HIDE DEF O
  <2> QED BY <1>4, <2>1, <2>2
<1>6. O[0] = 0
  BY <1>1, <1>4
<1>7. LayersFlat = FlattenSeq(seqs)
  BY DEF LayersFlat
<1>8. O[n] = InLayers
  BY <1>1, <1>4 DEF InLayers
<1> HIDE DEF seqs, O
<1>9. Lengths(seqs, n, O, Tensors)
  <2>1. /\ \A i \in 1 .. n : seqs[i] \in Seq(Tensors) /\ O[i] = O[i - 1] + Len(seqs[i])
        /\ \A i \in 0 .. n : O[i] \in Nat
    BY <1>2, <1>4, <1>5
  <2> HIDE DEF n
  <2> QED BY <1>3, <1>6, <2>1, Zenon DEF Lengths
<1>10. Joined(LayersFlat, seqs, n, O, Tensors)
  <2> HIDE DEF n
  <2> QED BY <1>1, <1>7, <1>9, Flattened
<1>11. /\ LayersFlat \in Seq(Tensors) /\ Len(LayersFlat) = O[n]
       /\ \A i \in 1 .. n : \A k \in 1 .. Len(seqs[i]) : LayersFlat[O[i - 1] + k] = seqs[i][k]
  <2> HIDE DEF n
  <2> QED BY <1>10, Zenon DEF Joined
<1>12. ASSUME NEW layer \in Layers, NEW m \in 1 .. LayerLen
       PROVE  LayersFlat[LayerLen * (layer - 1) + m] = LayerTensors(layer)[m]
  <2>1. layer \in 1 .. n /\ layer - 1 \in 0 .. n
    BY <1>1
  <2>2. O[layer - 1] = LayerLen * (layer - 1) /\ m \in 1 .. Len(seqs[layer])
        /\ seqs[layer] = LayerTensors(layer)
    BY <1>2, <1>4, <2>1
  <2>3. LayersFlat[O[layer - 1] + m] = seqs[layer][m]
    BY <1>11, <2>1, <2>2
  <2> QED BY <2>2, <2>3
<1> QED BY <1>8, <1>11, <1>12

\* build_plan's order.
PlannedOrder ==
    /\ PlannedTensors \in Seq(Tensors)
    /\ Len(PlannedTensors) = InLayers + (IF config.tieWordEmbeddings THEN 2 ELSE 3)
    /\ Is(PlannedTensors[1], "embed_tokens", 0, VocabSize * HiddenSize)
    /\ \A layer \in Layers, m \in 1 .. LayerLen :
          PlannedTensors[Slot(layer, m)] = LayerTensors(layer)[m]
    /\ Is(PlannedTensors[InLayers + 2], "norm", 0, HiddenSize)
    /\ ~ config.tieWordEmbeddings =>
          Is(PlannedTensors[InLayers + 3], "lm_head", 0, VocabSize * HiddenSize)

LEMMA InPlannedOrder == PlannedOrder
<1> DEFINE e == Tensor("embed_tokens", 0, VocabSize * HiddenSize, TRUE)
           t == Tensor("norm", 0, HiddenSize, TRUE)
           h == Tensor("lm_head", 0, VocabSize * HiddenSize, TRUE)
           s1 == <<e>>
           s3 == <<t>>
           s4 == IF config.tieWordEmbeddings THEN <<>> ELSE <<h>>
           s12 == s1 \o LayersFlat
           s123 == s12 \o s3
           s == s123 \o s4
           one == 1
           m2 == one + InLayers
           m3 == m2 + one
           n4 == IF config.tieWordEmbeddings THEN 0 ELSE 1
<1>1. /\ Is(e, "embed_tokens", 0, VocabSize * HiddenSize)
      /\ Is(t, "norm", 0, HiddenSize)
      /\ Is(h, "lm_head", 0, VocabSize * HiddenSize)
  <2>1. {"embed_tokens", "norm", "lm_head"} \subseteq TensorNames /\ 0 \in Nat
    BY DEF TensorNames
  <2> HIDE DEF s, s123, s12, s1, s3, s4
  <2> QED BY <2>1, ModelSizes, TensorIs
<1>2. e \in Tensors /\ t \in Tensors /\ h \in Tensors
  BY <1>1 DEF Is
<1>3. PlannedTensors = s
  BY Zenon DEF PlannedTensors, LayersFlat
<1> HIDE DEF e, t, h
<1>4. /\ s1 \in Seq(Tensors) /\ Len(s1) = 1 /\ s1[1] = e
      /\ s3 \in Seq(Tensors) /\ Len(s3) = 1 /\ s3[1] = t
      /\ s4 \in Seq(Tensors) /\ Len(s4) = n4
      /\ n4 \in Nat
      /\ ~ config.tieWordEmbeddings => s4[1] = h
  <2> HIDE DEF s, s123, s12
  <2> QED BY <1>2
<1>5. one \in Nat /\ InLayers \in Nat /\ m2 \in Nat /\ m3 \in Nat
  BY LayerLength
<1> HIDE DEF s1, s3, s4, n4
<1>6. /\ s12 \in Seq(Tensors) /\ Len(s12) = m2
      /\ \A j \in 1 .. one : s12[j] = s1[j]
      /\ \A j \in 1 .. InLayers : s12[one + j] = LayersFlat[j]
  <2> DEFINE n == InLayers
             l == LayersFlat
  <2>1. s1 \in Seq(Tensors) /\ l \in Seq(Tensors) /\ one = Len(s1) /\ n = Len(l) /\ s12 = s1 \o l
        /\ one \in Nat /\ n \in Nat
    BY <1>4, <1>5, LayersInOrder
  <2> HIDE DEF n, l, s12, s123, s, one
  <2>2. /\ s12 \in Seq(Tensors) /\ Len(s12) = one + n
        /\ \A j \in 1 .. one : s12[j] = s1[j]
        /\ \A j \in 1 .. n : s12[one + j] = l[j]
    BY <2>1, Concatenated
  <2> QED BY <2>2 DEF n, l
<1> HIDE DEF s12
<1>7. /\ s123 \in Seq(Tensors) /\ Len(s123) = m3
      /\ \A j \in 1 .. m2 : s123[j] = s12[j]
      /\ \A j \in 1 .. one : s123[m2 + j] = s3[j]
  <2>1. s12 \in Seq(Tensors) /\ s3 \in Seq(Tensors) /\ m2 = Len(s12) /\ one = Len(s3)
        /\ s123 = s12 \o s3 /\ one \in Nat /\ m2 \in Nat
    BY <1>4, <1>5, <1>6
  <2>2. m3 = m2 + one
    OBVIOUS
  <2> HIDE DEF s123, s, m2, m3, one
  <2>3. /\ s123 \in Seq(Tensors) /\ Len(s123) = m2 + one
        /\ \A j \in 1 .. m2 : s123[j] = s12[j]
        /\ \A j \in 1 .. one : s123[m2 + j] = s3[j]
    BY <2>1, Concatenated
  <2> QED BY <2>2, <2>3
<1> HIDE DEF s123
<1>8. /\ s \in Seq(Tensors) /\ Len(s) = m3 + n4
      /\ \A j \in 1 .. m3 : s[j] = s123[j]
      /\ \A j \in 1 .. n4 : s[m3 + j] = s4[j]
  <2>1. s123 \in Seq(Tensors) /\ s4 \in Seq(Tensors) /\ m3 = Len(s123) /\ n4 = Len(s4)
        /\ s = s123 \o s4 /\ n4 \in Nat /\ m3 \in Nat
    BY <1>4, <1>5, <1>7
  <2> HIDE DEF s, m3
  <2> QED BY <2>1, Concatenated
<1> HIDE DEF s
<1>9. s[1] = e
  <2>1. 1 \in 1 .. one /\ 1 \in 1 .. m2 /\ 1 \in 1 .. m3
    BY <1>5
  <2> HIDE DEF one, m2, m3
  <2> QED BY <1>4, <1>6, <1>7, <1>8, <2>1
<1>10. ASSUME NEW layer \in Layers, NEW m \in 1 .. LayerLen
       PROVE  s[Slot(layer, m)] = LayerTensors(layer)[m]
  <2> DEFINE j == LayerLen * (layer - 1) + m
  <2>1. LayersFlat[j] = LayerTensors(layer)[m]
    BY LayersInOrder
  <2>2. j \in 1 .. InLayers /\ Slot(layer, m) = one + j
    <3>1. Slot(layer, m) \in 2 .. InLayers + 1 /\ Slot(layer, m) = j + 1
      BY SlotRange DEF Slot
    <3>2. LayerLen \in Nat /\ layer - 1 \in Int /\ m \in Nat
      BY LayerLength, ModelSizes DEF Layers
    <3>3. LayerLen * (layer - 1) \in Int
      BY <3>2
    <3>4. j \in Int
      BY <3>2, <3>3
    <3> HIDE DEF j
    <3> QED BY <1>5, <3>1, <3>4
  <2> HIDE DEF j
  <2>3. one + j \in 1 .. m2 /\ one + j \in 1 .. m3
    BY <1>5, <2>2
  <2> HIDE DEF one, m2, m3
  <2> QED BY <1>6, <1>7, <1>8, <2>1, <2>2, <2>3
<1>11. s[InLayers + 2] = t
  <2>1. InLayers + 2 = m2 + 1 /\ m2 + 1 \in 1 .. m3 /\ 1 \in 1 .. one
    BY <1>5
  <2> HIDE DEF one, m2, m3
  <2> QED BY <1>4, <1>7, <1>8, <2>1
<1>12. ASSUME ~ config.tieWordEmbeddings PROVE s[InLayers + 3] = h
  <2>1. InLayers + 3 = m3 + 1 /\ 1 \in 1 .. n4
    BY <1>5, <1>12 DEF n4
  <2> HIDE DEF one, m2, m3
  <2> QED BY <1>4, <1>8, <1>12, <2>1
<1>13. Len(s) = InLayers + (IF config.tieWordEmbeddings THEN 2 ELSE 3)
  BY <1>5, <1>8 DEF n4
<1> QED BY <1>1, <1>3, <1>8, <1>9, <1>10, <1>11, <1>12, <1>13 DEF PlannedOrder

\* In a layer the place follows from the name.
PlaceOfName(name) ==
    CASE name = "input_layernorm" -> 1
      [] name = "q_proj" -> 2
      [] name = "k_proj" -> 3
      [] name = "v_proj" -> 4
      [] name = "q_norm" -> 5
      [] name = "k_norm" -> 6
      [] name = "o_proj" -> 5 + NumNorms
      [] name = "post_attention_layernorm" -> 6 + NumNorms
      [] name = "gate_proj" -> 7 + NumNorms
      [] name = "up_proj" -> 8 + NumNorms
      [] OTHER -> 9 + NumNorms

LEMMA LayerNames ==
    ASSUME NEW layer \in Layers, NEW m \in 1 .. LayerLen
    PROVE  /\ LayerTensors(layer)[m] \in Tensors
           /\ LayerTensors(layer)[m].layer = layer
           /\ LayerTensors(layer)[m].name
                 \notin {"embed_tokens", "norm", "lm_head", "rotary_emb.inv_freq"}
           /\ PlaceOfName(LayerTensors(layer)[m].name) = m
<1> DEFINE s == LayerTensors(layer)
<1>1. LayerOrder(s, layer)
  BY LayerSlots
<1> HIDE DEF s
<1>2. \/ m = 1 /\ s[m].name = "input_layernorm" /\ s[m].layer = layer /\ s[m] \in Tensors
      \/ m = 2 /\ s[m].name = "q_proj" /\ s[m].layer = layer /\ s[m] \in Tensors
      \/ m = 3 /\ s[m].name = "k_proj" /\ s[m].layer = layer /\ s[m] \in Tensors
      \/ m = 4 /\ s[m].name = "v_proj" /\ s[m].layer = layer /\ s[m] \in Tensors
      \/ m = 5 /\ s[m].name = "q_norm" /\ s[m].layer = layer /\ s[m] \in Tensors
      \/ m = 6 /\ s[m].name = "k_norm" /\ s[m].layer = layer /\ s[m] \in Tensors
      \/ m = 5 + NumNorms /\ s[m].name = "o_proj" /\ s[m].layer = layer /\ s[m] \in Tensors
      \/ m = 6 + NumNorms /\ s[m].name = "post_attention_layernorm" /\ s[m].layer = layer
         /\ s[m] \in Tensors
      \/ m = 7 + NumNorms /\ s[m].name = "gate_proj" /\ s[m].layer = layer /\ s[m] \in Tensors
      \/ m = 8 + NumNorms /\ s[m].name = "up_proj" /\ s[m].layer = layer /\ s[m] \in Tensors
      \/ m = 9 + NumNorms /\ s[m].name = "down_proj" /\ s[m].layer = layer /\ s[m] \in Tensors
  <2>1. NumNorms \in {0, 2} /\ m \in 1 .. 9 + NumNorms
    BY LayerLength DEF LayerLen
  <2>2. CASE m \in 1 .. 4
    BY <1>1, <2>2 DEF LayerOrder, IsNext, Is
  <2>3. CASE m \in 5 .. 6 /\ NumNorms = 2
    BY <1>1, <2>3 DEF LayerOrder, IsNext, Is
  <2>4. CASE m \in 5 + NumNorms .. 9 + NumNorms
    <3>1. m = 5 + NumNorms \/ m = 6 + NumNorms \/ m = 7 + NumNorms \/ m = 8 + NumNorms
          \/ m = 9 + NumNorms
      BY <2>1, <2>4
    <3> QED BY <1>1, <3>1 DEF LayerOrder, IsNext, Is
  <2>5. m \in 1 .. 4 \/ (m \in 5 .. 6 /\ NumNorms = 2) \/ m \in 5 + NumNorms .. 9 + NumNorms
    BY <2>1
  <2> QED BY <2>2, <2>3, <2>4, <2>5
<1>3. PlaceOfName(s[m].name) = m
  BY <1>2 DEF PlaceOfName
<1> QED BY <1>2, <1>3 DEF s

\* What a place of the plan may hold.
LEMMA PlannedKinds ==
    ASSUME NEW j \in 1 .. Len(PlannedTensors)
    PROVE  /\ PlannedTensors[j] \in Tensors
           /\ \/ j = 1 /\ PlannedTensors[j].name = "embed_tokens" /\ PlannedTensors[j].layer = 0
              \/ j = InLayers + 2 /\ PlannedTensors[j].name = "norm" /\ PlannedTensors[j].layer = 0
              \/ /\ j = InLayers + 3 /\ ~ config.tieWordEmbeddings
                 /\ PlannedTensors[j].name = "lm_head" /\ PlannedTensors[j].layer = 0
              \/ \E layer \in Layers, m \in 1 .. LayerLen :
                    j = Slot(layer, m) /\ PlannedTensors[j] = LayerTensors(layer)[m]
<1>1. PlannedOrder /\ InLayers \in Nat
  BY InPlannedOrder, LayerLength
<1>2. PlannedTensors[j] \in Tensors
  BY <1>1 DEF PlannedOrder
<1>3. \/ j = 1 \/ j \in 2 .. InLayers + 1 \/ j = InLayers + 2
      \/ (j = InLayers + 3 /\ ~ config.tieWordEmbeddings)
  <2>1. Len(PlannedTensors) = InLayers + (IF config.tieWordEmbeddings THEN 2 ELSE 3)
    BY <1>1 DEF PlannedOrder
  <2> QED BY <1>1, <2>1
<1>4. CASE j \in 2 .. InLayers + 1
  <2>1. PICK layer \in Layers, m \in 1 .. LayerLen : j = Slot(layer, m)
    BY <1>4, SlotRange
  <2>2. PlannedTensors[j] = LayerTensors(layer)[m]
    BY <1>1, <2>1 DEF PlannedOrder
  <2> QED BY <1>2, <2>1, <2>2
<1>5. CASE j = 1
  BY <1>1, <1>2, <1>5 DEF PlannedOrder, Is
<1>6. CASE j = InLayers + 2
  BY <1>1, <1>2, <1>6 DEF PlannedOrder, Is
<1>7. CASE j = InLayers + 3 /\ ~ config.tieWordEmbeddings
  BY <1>1, <1>2, <1>7 DEF PlannedOrder, Is
<1> QED BY <1>3, <1>4, <1>5, <1>6, <1>7

LEMMA PlannedOnce ==
    ASSUME NEW i \in 1 .. Len(PlannedTensors), NEW j \in 1 .. Len(PlannedTensors),
           PlannedTensors[i].name = PlannedTensors[j].name,
           PlannedTensors[i].layer = PlannedTensors[j].layer
    PROVE  i = j
<1> DEFINE P == PlannedTensors
           Outer == {"embed_tokens", "norm", "lm_head"}
           Inner(k) == \E layer \in Layers, m \in 1 .. LayerLen :
                          k = Slot(layer, m) /\ P[k] = LayerTensors(layer)[m]
<1>1. \A layer \in Layers, m \in 1 .. LayerLen :
          /\ LayerTensors(layer)[m].layer = layer
          /\ LayerTensors(layer)[m].name \notin Outer
          /\ PlaceOfName(LayerTensors(layer)[m].name) = m
  BY LayerNames
<1>2. \A k \in 1 .. Len(P) :
          \/ k = 1 /\ P[k].name = "embed_tokens"
          \/ k = InLayers + 2 /\ P[k].name = "norm"
          \/ k = InLayers + 3 /\ P[k].name = "lm_head"
          \/ Inner(k)
  BY PlannedKinds
<1>3. i \in 1 .. Len(P) /\ j \in 1 .. Len(P) /\ P[i].name = P[j].name /\ P[i].layer = P[j].layer
  OBVIOUS
<1> HIDE DEF P
<1>4. CASE Inner(i) /\ Inner(j)
  <2>1. PICK l1 \in Layers, m1 \in 1 .. LayerLen : i = Slot(l1, m1) /\ P[i] = LayerTensors(l1)[m1]
    BY <1>4
  <2>2. PICK l2 \in Layers, m2 \in 1 .. LayerLen : j = Slot(l2, m2) /\ P[j] = LayerTensors(l2)[m2]
    BY <1>4
  <2>3. P[i].layer = l1 /\ PlaceOfName(P[i].name) = m1
    BY <1>1, <2>1
  <2>4. P[j].layer = l2 /\ PlaceOfName(P[j].name) = m2
    BY <1>1, <2>2
  <2>5. l1 = l2 /\ m1 = m2
    BY <1>3, <2>3, <2>4
  <2> QED BY <2>1, <2>2, <2>5
<1>5. \A k : Inner(k) => P[k].name \notin Outer
  BY <1>1
<1> HIDE DEF Inner
<1>6. CASE ~ Inner(i)
  <2>1. P[i].name \in Outer
    BY <1>2, <1>3, <1>6
  <2>2. ~ Inner(j)
    BY <1>3, <1>5, <2>1
  <2> QED BY <1>2, <1>3, <1>6, <2>2
<1>7. CASE ~ Inner(j)
  <2>1. P[j].name \in Outer
    BY <1>2, <1>3, <1>7
  <2>2. ~ Inner(i)
    BY <1>3, <1>5, <2>1
  <2> QED BY <1>2, <1>3, <1>7, <2>2
<1> QED BY <1>4, <1>6, <1>7

-----------------------------------------------------------------------------
(* Where the tensors are put. *)

LEMMA Destinations ==
    LET n == Len(PlannedTensors)
    IN  /\ DOMAIN DstOffsets = 1 .. n
        /\ \A i \in 1 .. n : DstOffsets[i] \in Nat
        /\ \A i \in 2 .. n :
              /\ DstOffsets[i - 1] + PlannedTensors[i - 1].size <= DstOffsets[i]
              /\ ~ PlannedTensors[i].align =>
                    DstOffsets[i] = DstOffsets[i - 1] + PlannedTensors[i - 1].size
<1> DEFINE P == PlannedTensors
           n == Len(P)
           Start(i, end) == IF P[i].align THEN AlignUp(WeightAlignment, end) ELSE end
           End(f, i) == IF i = 1 THEN 0 ELSE f[i - 1] + P[i - 1].size
           Solves(f) == f = [i \in 1 .. n |-> Start(i, End(f, i))]
           h == [i \in 1 .. n |->
                    [x \in Nat |-> Start(i, IF i = 1 THEN 0 ELSE x + P[i - 1].size)]]
<1>1. n \in Nat /\ \A i \in 1 .. n : P[i] \in Tensors
  BY InPlannedOrder DEF PlannedOrder
<1>2. \A i \in 1 .. n : P[i].size \in Nat
  <2>1. \A t \in Tensors : t.size \in Nat
    BY DEF Tensors
  <2> HIDE DEF P, n
  <2> QED BY <1>1, <2>1
<1>3. WeightAlignment \in Nat \ {0}
  BY ModelWeightsAssumption
<1> HIDE DEF P
<1>4. \A i, x : x \in Nat => /\ Start(i, x) \in Nat /\ x <= Start(i, x)
                             /\ ~ P[i].align => Start(i, x) = x
  BY <1>3, Raised
<1>5. \E f : Solves(f)
  <2>1. h \in [1 .. n -> [Nat -> Nat]]
    <3>1. \A i \in 1 .. n, x \in Nat : Start(i, IF i = 1 THEN 0 ELSE x + P[i - 1].size) \in Nat
      <4> SUFFICES ASSUME NEW i \in 1 .. n, NEW x \in Nat
                   PROVE  Start(i, IF i = 1 THEN 0 ELSE x + P[i - 1].size) \in Nat
        OBVIOUS
      <4>1. i # 1 => i - 1 \in 1 .. n
        BY <1>1
      <4>2. (IF i = 1 THEN 0 ELSE x + P[i - 1].size) \in Nat
        BY <1>2, <4>1
      <4> HIDE DEF Start
      <4> QED BY <1>4, <4>2
    <3> HIDE DEF Start, n
    <3> QED BY <3>1
  <2>2. PICK g \in [0 .. n -> Nat] : Recursion(g, n, 0, h)
    <3>1. 0 \in Nat /\ n \in Nat
      BY <1>1
    <3> HIDE DEF h, n
    <3> QED BY <2>1, <3>1, RecursionUpTo
  <2> DEFINE f == [i \in 1 .. n |-> g[i]]
  <2>3. ASSUME NEW i \in 1 .. n PROVE f[i] = Start(i, End(f, i))
    <3>1. i \in 0 .. n /\ i - 1 \in 0 .. n /\ i # 0 /\ (i # 1 => i - 1 \in 1 .. n)
      BY <1>1
    <3>2. g[i] = h[i][g[i - 1]] /\ g[i - 1] \in Nat
      <4> HIDE DEF h, n
      <4> QED BY <2>2, <3>1 DEF Recursion
    <3>3. h[i][g[i - 1]] = Start(i, IF i = 1 THEN 0 ELSE g[i - 1] + P[i - 1].size)
      <4> HIDE DEF Start, n
      <4> QED BY <3>2
    <3>4. f[i] = g[i] /\ (i # 1 => f[i - 1] = g[i - 1])
      BY <3>1
    <3> HIDE DEF f, h, n, Start
    <3> QED BY <3>2, <3>3, <3>4
  <2>4. f = [i \in 1 .. n |-> f[i]]
    OBVIOUS
  <2>5. Solves(f)
    <3> HIDE DEF f, Start, End, n
    <3> QED BY <2>3, <2>4
  <2> QED BY <2>5
<1> DEFINE D == CHOOSE f : Solves(f)
<1>6. DstOffsets = D
  BY Zenon DEF DstOffsets, P
<1>7. Solves(D)
  <2> HIDE DEF Solves
  <2> QED BY <1>5
<1> HIDE DEF D
<1>8. \A i \in 1 .. n : D[i] = Start(i, End(D, i))
  <2> HIDE DEF Start, End, n
  <2> QED BY <1>7
<1>9. DOMAIN D = 1 .. n
  <2> HIDE DEF Start, End, n
  <2> QED BY <1>7
<1> HIDE DEF Start, n
<1>10. \A i \in 1 .. n : D[i] \in Nat
  <2> DEFINE T == {i \in 0 .. n : i = 0 \/ D[i] \in Nat}
  <2>1. ASSUME NEW i \in 0 .. (n - 1), i \in T PROVE i + 1 \in T
    <3>1. i + 1 \in 1 .. n /\ i + 1 \in 0 .. n /\ (i + 1 = 1 <=> i = 0) /\ (i + 1) - 1 = i
      BY <1>1
    <3>2. i # 0 => i \in 1 .. n /\ D[i] \in Nat
      BY <1>1, <2>1
    <3>3. End(D, i + 1) \in Nat
      BY <1>2, <3>1, <3>2
    <3>4. D[i + 1] \in Nat
      <4> HIDE DEF End
      <4> QED BY <1>4, <1>8, <3>1, <3>3
    <3> QED BY <3>1, <3>4
  <2>2. 0 \in T
    BY <1>1
  <2> HIDE DEF T
  <2>3. \A i \in 0 .. n : i \in T
    BY <1>1, <2>1, <2>2, InductionUpTo
  <2>4. \A i \in 1 .. n : i \in 0 .. n /\ i # 0
    BY <1>1
  <2> QED BY <2>3, <2>4 DEF T
<1>11. ASSUME NEW i \in 2 .. n
       PROVE  /\ D[i - 1] + P[i - 1].size <= D[i]
              /\ ~ P[i].align => D[i] = D[i - 1] + P[i - 1].size
  <2>1. i \in 1 .. n /\ i - 1 \in 1 .. n /\ i # 1
    BY <1>1
  <2> DEFINE x == D[i - 1] + P[i - 1].size
  <2>2. x \in Nat /\ End(D, i) = x
    BY <1>2, <1>10, <2>1
  <2> HIDE DEF x, End
  <2>3. D[i] = Start(i, x)
    BY <1>8, <2>1, <2>2
  <2> QED BY <1>4, <2>2, <2>3 DEF x
<1> QED BY <1>6, <1>9, <1>10, <1>11 DEF P, n

\* The places of two tensors do not overlap.
LEMMA PlacesApart ==
    ASSUME NEW i \in 1 .. Len(PlannedTensors), NEW j \in 1 .. Len(PlannedTensors), i < j
    PROVE  DstOffsets[i] + PlannedTensors[i].size <= DstOffsets[j]
<1> DEFINE P == PlannedTensors
           n == Len(P)
           D == DstOffsets
           T == {k \in 0 .. n : \A l \in 1 .. n : l < k => D[l] + P[l].size <= D[k]}
<1>1. /\ n \in Nat /\ i \in 1 .. n /\ j \in 1 .. n
      /\ \A k \in 1 .. n : D[k] \in Nat /\ P[k].size \in Nat
      /\ \A k \in 2 .. n : D[k - 1] + P[k - 1].size <= D[k]
  <2>1. n \in Nat /\ \A k \in 1 .. n : P[k] \in Tensors
    BY InPlannedOrder DEF PlannedOrder
  <2>2. \A t \in Tensors : t.size \in Nat
    BY DEF Tensors
  <2>3. /\ \A k \in 1 .. n : D[k] \in Nat
        /\ \A k \in 2 .. n : D[k - 1] + P[k - 1].size <= D[k]
    BY Destinations
  <2> HIDE DEF P, D, n
  <2>4. i \in 1 .. n /\ j \in 1 .. n
    BY DEF P, n
  <2> QED BY <2>1, <2>2, <2>3, <2>4
<1> HIDE DEF P, n, D
<1>2. 0 \in T
  BY <1>1
<1>3. ASSUME NEW k \in 0 .. (n - 1), k \in T PROVE k + 1 \in T
  <2>1. k + 1 \in 0 .. n /\ k + 1 \in 1 .. n /\ (k + 1) - 1 = k /\ (k # 0 => k + 1 \in 2 .. n /\ k \in 1 .. n)
    BY <1>1
  <2>2. ASSUME NEW l \in 1 .. n, l < k + 1 PROVE D[l] + P[l].size <= D[k + 1]
    <3>1. k # 0 /\ k \in 1 .. n /\ D[k] + P[k].size <= D[k + 1]
      BY <1>1, <2>1, <2>2
    <3>2. l = k \/ l < k
      BY <1>1, <2>2
    <3>3. l < k => D[l] + P[l].size <= D[k]
      BY <1>3
    <3>4. /\ D[l] \in Nat /\ P[l].size \in Nat /\ D[k] \in Nat /\ P[k].size \in Nat
          /\ D[k + 1] \in Nat
      BY <1>1, <2>1, <3>1
    <3> DEFINE dl == D[l]
               pl == P[l].size
               dk == D[k]
               pk == P[k].size
               z == D[k + 1]
    <3>5. dl \in Nat /\ pl \in Nat /\ dk \in Nat /\ pk \in Nat /\ z \in Nat
      BY <3>4
    <3>6. (dl = dk /\ pl = pk) \/ dl + pl <= dk
      BY <3>2, <3>3
    <3>7. dk + pk <= z
      BY <3>1
    <3>8. dl + pl <= z
      <4> HIDE DEF dl, pl, dk, pk, z
      <4> QED BY <3>5, <3>6, <3>7
    <3> QED BY <3>8
  <2> QED BY <2>1, <2>2
<1> HIDE DEF T
<1>4. \A k \in 0 .. n : k \in T
  BY <1>1, <1>2, <1>3, InductionUpTo
<1>5. j \in T
  BY <1>1, <1>4
<1>6. D[i] + P[i].size <= D[j]
  BY <1>1, <1>5 DEF T
<1> QED BY <1>6 DEF D, P

-----------------------------------------------------------------------------
(* The files. *)

LEMMA FilesDistinct == ModelInit => FileOK
<1> SUFFICES ASSUME ModelInit PROVE FileOK
  OBVIOUS
<1>1. WellFormed(file)
  BY DEF ModelInit
<1>2. file.tensors \in Seq(Tensors) /\ DOMAIN file.tensors = 1 .. Len(file.tensors)
  BY <1>1 DEF WellFormed, Tensors
<1> QED BY <1>1, <1>2 DEF WellFormed, FileOK

-----------------------------------------------------------------------------
(* Uploading. *)

\* p copies the tensor P[j] from the elements E of the file to its place D[j].
PlanFor(P, D, E, p, j) ==
    /\ p.dst = D[j] /\ p.size = P[j].size /\ p.src \in Nat
    /\ \A k \in 1 .. p.size : E[p.src + k] = <<P[j], k>>

\* Element k of P[j] is in place, or a plan that is left will still copy it.
InPlace(P, D, E, rest, next, done, w, j, k) ==
    /\ D[j] + k - 1 \in DOMAIN w
    /\ \/ w[D[j] + k - 1] = <<P[j], k>>
       \/ \E p \in rest : PlanFor(P, D, E, p, j) /\ (p = next => k > done)

Uploaded(P, D, E, rest, next, done, w) ==
    /\ \A p \in rest : \E j \in 1 .. Len(P) : PlanFor(P, D, E, p, j)
    /\ rest # {} => next \in rest /\ done <= next.size
    /\ done \in Nat
    /\ \A j \in 1 .. Len(P) : \A k \in 1 .. P[j].size : InPlace(P, D, E, rest, next, done, w, j, k)

\* The places D of the tensors P.
Places(P, D) ==
    /\ \A j \in 1 .. Len(P) : D[j] \in Nat /\ P[j].size \in Nat
    /\ \A i, j \in 1 .. Len(P) : i < j => D[i] + P[i].size <= D[j]

CopyOf(E, next, done, chunk, w) ==
    [offset \in DOMAIN w |->
        IF offset \in next.dst + done .. next.dst + done + chunk - 1
        THEN E[next.src + done + (offset - (next.dst + done)) + 1]
        ELSE w[offset]]

LEMMA ChunkInPlace ==
    ASSUME NEW P, NEW D, NEW E, NEW rest, NEW next, NEW done, NEW w, NEW chunk \in Nat,
           Len(P) \in Nat, Places(P, D), Uploaded(P, D, E, rest, next, done, w),
           next \in rest, done + chunk <= next.size,
           NEW j \in 1 .. Len(P), NEW k \in 1 .. P[j].size
    PROVE  InPlace(P, D, E, rest, next, done + chunk, CopyOf(E, next, done, chunk, w), j, k)
<1> DEFINE u == CopyOf(E, next, done, chunk, w)
           a == D[j] + k - 1
           s == next.dst + done
<1> SUFFICES InPlace(P, D, E, rest, next, done + chunk, u, j, k)
  OBVIOUS
<1>1. PICK i \in 1 .. Len(P) : PlanFor(P, D, E, next, i)
  BY DEF Uploaded
<1>2. /\ D[i] \in Nat /\ D[j] \in Nat /\ P[i].size \in Nat /\ P[j].size \in Nat
      /\ i < j => D[i] + P[i].size <= D[j]
      /\ j < i => D[j] + P[j].size <= D[i]
  BY DEF Places
<1>3. done \in Nat
  BY DEF Uploaded
<1>4. next.dst = D[i] /\ next.size = P[i].size /\ next.src \in Nat
  BY <1>1 DEF PlanFor
<1>5. a \in DOMAIN w /\ DOMAIN u = DOMAIN w
      /\ (\/ w[a] = <<P[j], k>>
          \/ \E p \in rest : PlanFor(P, D, E, p, j) /\ (p = next => k > done))
  BY DEF Uploaded, InPlace, CopyOf
<1>6. a \notin s .. s + chunk - 1 => u[a] = w[a]
  BY <1>5 DEF CopyOf
<1>7. CASE PlanFor(P, D, E, next, j)
  <2>1. next.dst = D[j] /\ next.size = P[j].size
        /\ \A l \in 1 .. next.size : E[next.src + l] = <<P[j], l>>
    BY <1>7 DEF PlanFor
  <2>2. CASE k \in done + 1 .. done + chunk
    <3>1. a \in s .. s + chunk - 1 /\ next.src + done + (a - s) + 1 = next.src + k
      <4> DEFINE d == D[j]
                 x == next.src
                 y == next.dst
      <4>1. d \in Nat /\ x \in Nat /\ y = d
        BY <1>2, <1>4, <2>1
      <4>2. d + k - 1 \in y + done .. y + done + chunk - 1
            /\ x + done + ((d + k - 1) - (y + done)) + 1 = x + k
        <5> HIDE DEF d, x, y
        <5> QED BY <1>3, <2>2, <4>1
      <4> QED BY <4>2
    <3>2. u[a] = E[next.src + done + (a - s) + 1]
      BY <1>5, <3>1 DEF CopyOf
    <3>3. u[a] = <<P[j], k>>
      BY <2>1, <3>1, <3>2
    <3> QED BY <1>5, <3>3 DEF InPlace
  <2>3. CASE k \notin done + 1 .. done + chunk
    <3>1. a \notin s .. s + chunk - 1
      BY <1>2, <1>3, <2>1, <2>3
    <3>2. k > done => k > done + chunk
      BY <1>2, <1>3, <2>3
    <3> HIDE DEF u, s, a
    <3>3. u[a] = w[a] /\ a \in DOMAIN u
      BY <1>5, <1>6, <3>1
    <3> QED BY <1>5, <3>2, <3>3 DEF InPlace, a
  <2> QED BY <2>2, <2>3
<1>8. CASE ~ PlanFor(P, D, E, next, j)
  <2>1. i # j
    BY <1>1, <1>8
  <2>2. i < j \/ j < i
    BY <2>1
  <2>3. a \notin s .. s + chunk - 1
    <3> DEFINE di == D[i]
               dj == D[j]
               zi == P[i].size
               zj == P[j].size
               d == next.dst
               z == next.size
    <3>1. di \in Nat /\ dj \in Nat /\ zi \in Nat /\ zj \in Nat /\ k \in 1 .. zj
      BY <1>2
    <3>2. di + zi <= dj \/ dj + zj <= di
      BY <1>2, <2>2
    <3>3. d = di /\ z = zi /\ done + chunk <= z
      BY <1>4
    <3>4. dj + k - 1 \notin d + done .. d + done + chunk - 1
      <4> HIDE DEF di, dj, zi, zj, d, z
      <4> QED BY <1>3, <3>1, <3>2, <3>3
    <3> QED BY <3>4
  <2> HIDE DEF u, s, a
  <2>4. u[a] = w[a] /\ a \in DOMAIN u
    BY <1>5, <1>6, <2>3
  <2> QED BY <1>5, <1>8, <2>4 DEF InPlace, a
<1> QED BY <1>7, <1>8

LEMMA ChunkUploaded ==
    ASSUME NEW P, NEW D, NEW E, NEW rest, NEW next, NEW done, NEW w, NEW chunk \in Nat,
           Len(P) \in Nat, Places(P, D), Uploaded(P, D, E, rest, next, done, w),
           next \in rest, done + chunk <= next.size
    PROVE  Uploaded(P, D, E, rest, next, done + chunk, CopyOf(E, next, done, chunk, w))
<1> DEFINE u == CopyOf(E, next, done, chunk, w)
           c == done + chunk
<1>1. \A j \in 1 .. Len(P) : \A k \in 1 .. P[j].size : InPlace(P, D, E, rest, next, c, u, j, k)
  BY ChunkInPlace
<1>2. /\ \A p \in rest : \E j \in 1 .. Len(P) : PlanFor(P, D, E, p, j)
      /\ c \in Nat /\ c <= next.size
  BY DEF Uploaded
<1> HIDE DEF u, c
<1>3. Uploaded(P, D, E, rest, next, c, u)
  BY <1>1, <1>2 DEF Uploaded
<1> QED BY <1>3 DEF u, c

\* A plan that has been copied can be dropped.
LEMMA PlanUploaded ==
    ASSUME NEW P, NEW D, NEW E, NEW rest, NEW next, NEW w,
           \A j \in 1 .. Len(P) : P[j].size \in Nat,
           Uploaded(P, D, E, rest, next, next.size, w),
           NEW left, left = rest \ {next},
           NEW then, left # {} => then \in left /\ then.size \in Nat
    PROVE  Uploaded(P, D, E, left, then, 0, w)
<1>1. ASSUME NEW j \in 1 .. Len(P), NEW k \in 1 .. P[j].size
      PROVE  InPlace(P, D, E, left, then, 0, w, j, k)
  <2>1. InPlace(P, D, E, rest, next, next.size, w, j, k)
    BY DEF Uploaded
  <2>2. k > 0
    OBVIOUS
  <2>3. ASSUME NEW p \in rest, PlanFor(P, D, E, p, j), p = next => k > next.size
        PROVE  p \in left
    <3>1. p.size = P[j].size /\ P[j].size \in Nat
      BY <2>3 DEF PlanFor
    <3>2. p # next
      BY <2>3, <3>1
    <3> QED BY <3>2
  <2> QED BY <2>1, <2>2, <2>3 DEF InPlace
<1>2. \A p \in left : \E j \in 1 .. Len(P) : PlanFor(P, D, E, p, j)
  BY DEF Uploaded
<1>3. left # {} => then \in left /\ 0 <= then.size
  <2> DEFINE size == then.size
  <2>1. left # {} => then \in left /\ size \in Nat
    OBVIOUS
  <2>2. size \in Nat => 0 <= size
    OBVIOUS
  <2> QED BY <2>1, <2>2
<1>4. \A j \in 1 .. Len(P) : \A k \in 1 .. P[j].size : InPlace(P, D, E, left, then, 0, w, j, k)
  BY <1>1
<1> QED BY <1>2, <1>3, <1>4, 0 \in Nat DEF Uploaded

-----------------------------------------------------------------------------
(* The views. *)

LEMMA InSomePart ==
    ASSUME NEW X, NEW n \in Nat, NEW seqs, NEW O, Lengths(seqs, n, O, X), NEW x \in 1 .. O[n]
    PROVE  \E i \in 1 .. n : \E k \in 1 .. Len(seqs[i]) : x = O[i - 1] + k
<1> DEFINE Some(y) == \E i \in 1 .. n : \E k \in 1 .. Len(seqs[i]) : y = O[i - 1] + k
           T == {i \in 0 .. n : \A y \in 1 .. O[i] : Some(y)}
<1>1. /\ O[0] = 0 /\ \A i \in 0 .. n : O[i] \in Nat
      /\ \A i \in 1 .. n : seqs[i] \in Seq(X) /\ O[i] = O[i - 1] + Len(seqs[i])
  BY DEF Lengths
<1>2. 0 \in T
  BY <1>1
<1>3. ASSUME NEW i \in 0 .. (n - 1), i \in T PROVE i + 1 \in T
  <2>1. i + 1 \in 1 .. n /\ i + 1 \in 0 .. n /\ i \in 0 .. n /\ (i + 1) - 1 = i
    OBVIOUS
  <2>2. O[i + 1] = O[i] + Len(seqs[i + 1]) /\ O[i] \in Nat /\ Len(seqs[i + 1]) \in Nat
    <3>1. seqs[i + 1] \in Seq(X) /\ O[i + 1] = O[(i + 1) - 1] + Len(seqs[i + 1])
      BY <1>1, <2>1
    <3> QED BY <1>1, <2>1, <3>1
  <2>3. ASSUME NEW y \in 1 .. O[i + 1] PROVE Some(y)
    <3>1. CASE y <= O[i]
      <4>1. y \in 1 .. O[i]
        BY <2>2, <3>1
      <4> HIDE DEF Some
      <4> QED BY <1>3, <4>1
    <3>2. CASE ~ (y <= O[i])
      <4>1. y - O[i] \in 1 .. Len(seqs[i + 1]) /\ y = O[(i + 1) - 1] + (y - O[i])
        BY <2>1, <2>2, <3>2
      <4> QED BY <2>1, <4>1
    <3> QED BY <3>1, <3>2
  <2> QED BY <2>1, <2>3
<1> HIDE DEF T, Some
<1>4. n \in T
  <2>1. \A i \in 0 .. n : i \in T
    BY <1>2, <1>3, InductionUpTo
  <2> QED BY <2>1
<1>5. Some(x)
  BY <1>4 DEF T
<1> QED BY <1>5 DEF Some

LEMMA NamedTensor ==
    ASSUME NEW j \in 1 .. Len(PlannedTensors)
    PROVE  TensorNamed(PlannedTensors[j].name, PlannedTensors[j].layer) = PlannedTensors[j]
<1> DEFINE P == PlannedTensors
<1>1. ToSet(P) = {P[i] : i \in 1 .. Len(P)}
  BY InPlannedOrder DEF ToSet, PlannedOrder
<1>2. ASSUME NEW t \in ToSet(P), t.name = P[j].name, t.layer = P[j].layer PROVE t = P[j]
  <2>1. PICK i \in 1 .. Len(P) : t = P[i]
    BY <1>1
  <2>2. i = j
    BY <1>2, <2>1, PlannedOnce
  <2> QED BY <2>1, <2>2
<1>3. P[j] \in ToSet(P)
  BY <1>1
<1> QED BY <1>2, <1>3 DEF TensorNamed

\* Every element of the tensors is at its place.
AllInPlace(P, D, w) ==
    \A j \in 1 .. Len(P) : \A k \in 1 .. P[j].size : w[D[j] + k - 1] = <<P[j], k>>

\* A view lies over its parts, which follow one another without a gap.
Covers(P, D, parts, view) ==
    \E j \in 1 .. Len(P) :
        /\ Len(parts) \in Nat \ {0} /\ DOMAIN parts = 1 .. Len(parts)
        /\ j + Len(parts) - 1 <= Len(P)
        /\ \A i \in 1 .. Len(parts) :
              P[j + i - 1].name = parts[i] /\ P[j + i - 1].layer = view.layer
        /\ \A i \in 2 .. Len(parts) : D[j + i - 1] = D[j + i - 2] + P[j + i - 2].size
        /\ view.offset = D[j]
        /\ D[j] + view.size = D[j + Len(parts) - 1] + P[j + Len(parts) - 1].size
        /\ view.size \in Nat

LEMMA CoveredWhole ==
    ASSUME AllInPlace(PlannedTensors, DstOffsets, weights), Places(PlannedTensors, DstOffsets),
           NEW view, Covers(PlannedTensors, DstOffsets, PartsOf(view), view)
    PROVE  ElementsOf(view) = [k \in 1 .. view.size |-> weights[view.offset + k - 1]]
<1> DEFINE P == PlannedTensors
           D == DstOffsets
           parts == PartsOf(view)
           n == Len(parts)
           elements(name) == [k \in 1 .. TensorNamed(name, view.layer).size |->
                                 <<TensorNamed(name, view.layer), k>>]
           seqs == [i \in DOMAIN parts |-> elements(parts[i])]
           all == FlattenSeq(seqs)
           X == Tensors \X Nat
<1>1. ElementsOf(view) = all
  BY Zenon DEF ElementsOf
<1>2. /\ \A j \in 1 .. Len(P) : D[j] \in Nat /\ P[j].size \in Nat
      /\ \A i, j \in 1 .. Len(P) : i < j => D[i] + P[i].size <= D[j]
      /\ Len(P) \in Nat /\ \A j \in 1 .. Len(P) : P[j] \in Tensors
  BY InPlannedOrder DEF Places, PlannedOrder
<1>3. PICK j \in 1 .. Len(P) :
        /\ n \in Nat \ {0} /\ DOMAIN parts = 1 .. n
        /\ j + n - 1 <= Len(P)
        /\ \A i \in 1 .. n : P[j + i - 1].name = parts[i] /\ P[j + i - 1].layer = view.layer
        /\ \A i \in 2 .. n : D[j + i - 1] = D[j + i - 2] + P[j + i - 2].size
        /\ view.offset = D[j]
        /\ D[j] + view.size = D[j + n - 1] + P[j + n - 1].size
        /\ view.size \in Nat
  BY DEF Covers
<1> DEFINE O == [i \in 0 .. n |-> IF i = 0 THEN 0 ELSE (D[j + i - 1] + P[j + i - 1].size) - D[j]]
<1>4. ASSUME NEW i \in 1 .. n
      PROVE  /\ j + i - 1 \in 1 .. Len(P) /\ TensorNamed(parts[i], view.layer) = P[j + i - 1]
             /\ P[j + i - 1] \in Tensors /\ P[j + i - 1].size \in Nat
  <2>1. j + i - 1 \in 1 .. Len(P)
    <3> HIDE DEF n
    <3> QED BY <1>2, <1>3
  <2> QED BY <1>2, <1>3, <2>1, NamedTensor
<1> HIDE DEF P, D
<1>5. ASSUME NEW i \in 1 .. n
      PROVE  seqs[i] \in Seq(X) /\ Len(seqs[i]) = P[j + i - 1].size
             /\ \A k \in 1 .. P[j + i - 1].size : seqs[i][k] = <<P[j + i - 1], k>>
  <2> DEFINE t == P[j + i - 1]
             m == t.size
             d == [k \in 1 .. m |-> <<t, k>>]
  <2>1. seqs[i] = d /\ t \in Tensors /\ m \in Nat
    <3>1. i \in DOMAIN parts
      BY <1>3
    <3> HIDE DEF parts, n, P
    <3> QED BY <1>4, <3>1
  <2> HIDE DEF seqs, t, m
  <2>2. d \in Seq(X) /\ Len(d) = m /\ \A k \in 1 .. m : d[k] = <<t, k>>
    BY <2>1
  <2> HIDE DEF d
  <2> QED BY <2>1, <2>2 DEF t, m
<1> HIDE DEF parts
<1>6. ASSUME NEW i \in 1 .. n
      PROVE  /\ O[i] = (D[j + i - 1] + P[j + i - 1].size) - D[j] /\ O[i] \in Nat
             /\ O[i - 1] = D[j + i - 1] - D[j] /\ O[i - 1] \in Nat
             /\ D[j] \in Nat /\ D[j + i - 1] \in Nat /\ P[j + i - 1].size \in Nat
  <2> DEFINE x == D[j + i - 1]
             z == P[j + i - 1].size
             o == D[j]
             y == D[j + i - 2] + P[j + i - 2].size
  <2>1. x \in Nat /\ z \in Nat /\ o \in Nat /\ o <= x
    <3>1. j = j + i - 1 \/ j < j + i - 1
      OBVIOUS
    <3>2. j + i - 1 \in 1 .. Len(P)
      BY <1>4
    <3>3. j < j + i - 1 => D[j] + P[j].size <= D[j + i - 1]
      BY <1>2, <3>2
    <3>4. D[j] \in Nat /\ P[j].size \in Nat /\ D[j + i - 1] \in Nat /\ P[j + i - 1].size \in Nat
      BY <1>2, <3>2
    <3>5. o <= x
      <4> DEFINE w == P[j].size
      <4>1. w \in Nat /\ o \in Nat /\ x \in Nat /\ (o = x \/ o + w <= x)
        BY <3>1, <3>3, <3>4
      <4> HIDE DEF w, o, x
      <4> QED BY <4>1
    <3> QED BY <3>4, <3>5
  <2>2. O[i] = (x + z) - o
    BY <1>3
  <2>3. i = 1 => O[i - 1] = 0 /\ x = o
    BY <1>3
  <2>4. i # 1 => O[i - 1] = y - o /\ x = y
    <3> SUFFICES ASSUME i # 1 PROVE O[i - 1] = y - o /\ x = y
      OBVIOUS
    <3>1. i - 1 \in 0 .. n /\ i - 1 # 0 /\ i \in 2 .. n /\ j + (i - 1) - 1 = j + i - 2
      BY <1>3
    <3>2. O[i - 1] = (D[j + (i - 1) - 1] + P[j + (i - 1) - 1].size) - D[j]
      BY <3>1
    <3>3. O[i - 1] = y - o
      <4> HIDE DEF O
      <4> QED BY <3>1, <3>2
    <3>4. x = y
      BY <1>3, <3>1
    <3> QED BY <3>3, <3>4
  <2> HIDE DEF x, z, o, y, O
  <2>5. O[i] \in Nat /\ O[i - 1] = x - o /\ O[i - 1] \in Nat
    BY <2>1, <2>2, <2>3, <2>4
  <2> QED BY <2>1, <2>2, <2>5 DEF x, z, o
<1>7. O[0] = 0 /\ Len(seqs) = n /\ n \in Nat \ {0}
  BY <1>3
<1>8. D[j] + O[n] = D[j + n - 1] + P[j + n - 1].size /\ O[n] = view.size
  <2> DEFINE x == D[j + n - 1]
             z == P[j + n - 1].size
             o == D[j]
             e == O[n]
             s == view.size
  <2>1. n \in 1 .. n
    BY <1>7
  <2>2. e = (x + z) - o /\ x \in Nat /\ z \in Nat /\ o \in Nat /\ s \in Nat /\ o + s = x + z
    BY <1>3, <1>6, <2>1
  <2>3. o + e = x + z /\ e = s
    <3> HIDE DEF x, z, o, e, s
    <3> QED BY <2>2
  <2> QED BY <2>3
<1> HIDE DEF O, seqs, n
<1>9. Lengths(seqs, n, O, X)
  <2>1. \A i \in 0 .. n : O[i] \in Nat
    <3>1. \A i \in 0 .. n : i = 0 \/ i \in 1 .. n
      BY <1>7
    <3> QED BY <1>6, <1>7, <3>1
  <2>2. ASSUME NEW i \in 1 .. n PROVE seqs[i] \in Seq(X) /\ O[i] = O[i - 1] + Len(seqs[i])
    <3> DEFINE x == D[j + i - 1]
               z == P[j + i - 1].size
               o == D[j]
               b == O[i - 1]
               e == O[i]
    <3>1. e = (x + z) - o /\ b = x - o /\ x \in Nat /\ z \in Nat /\ o \in Nat
      BY <1>6
    <3>2. e = b + z
      <4> HIDE DEF x, z, o, b, e
      <4> QED BY <3>1
    <3> QED BY <1>5, <3>2
  <2> QED BY <1>7, <2>1, <2>2 DEF Lengths
<1>10. Joined(all, seqs, n, O, X)
  BY <1>7, <1>9, Flattened
<1> HIDE DEF all
<1>11. ASSUME NEW x \in 1 .. view.size PROVE all[x] = weights[view.offset + x - 1]
  <2>0. PICK i \in 1 .. n : \E k \in 1 .. Len(seqs[i]) : x = O[i - 1] + k
    <3>1. x \in 1 .. O[n] /\ n \in Nat
      BY <1>7, <1>8
    <3> HIDE DEF X
    <3> QED BY <1>9, <3>1, InSomePart
  <2>1. PICK k \in 1 .. Len(seqs[i]) : x = O[i - 1] + k
    BY <2>0
  <2>2. all[x] = seqs[i][k]
    BY <1>10, <2>1 DEF Joined
  <2>3. k \in 1 .. P[j + i - 1].size /\ seqs[i][k] = <<P[j + i - 1], k>>
    BY <1>5, <2>1
  <2>4. weights[D[j + i - 1] + k - 1] = <<P[j + i - 1], k>>
    BY <1>4, <2>3 DEF AllInPlace, P, D
  <2>5. D[j + i - 1] + k - 1 = view.offset + x - 1
    <3> DEFINE a == D[j + i - 1]
               o == D[j]
               b == O[i - 1]
    <3>1. a \in Nat /\ o \in Nat /\ b = a - o /\ x = b + k /\ view.offset = o
      BY <1>3, <1>6, <2>1
    <3>2. k \in Int
      BY <1>6, <2>3
    <3>3. a + k - 1 = o + x - 1
      <4> HIDE DEF a, o, b
      <4> QED BY <3>1, <3>2
    <3> QED BY <3>1, <3>3
  <2> QED BY <2>2, <2>3, <2>4, <2>5
<1>12. all \in Seq(X) /\ Len(all) = view.size
  BY <1>8, <1>10 DEF Joined
<1>13. all = [k \in 1 .. view.size |-> weights[view.offset + k - 1]]
  <2>1. all = [k \in 1 .. view.size |-> all[k]]
    BY <1>12
  <2> QED BY <1>11, <2>1
<1> QED BY <1>1, <1>13

LEMMA PlannedPlaces == Places(PlannedTensors, DstOffsets)
<1>1. ASSUME NEW j \in 1 .. Len(PlannedTensors)
      PROVE  DstOffsets[j] \in Nat /\ PlannedTensors[j].size \in Nat
  <2>1. PlannedTensors[j].size \in Nat
    BY PlannedKinds DEF Tensors
  <2>2. DstOffsets[j] \in Nat
    BY Destinations
  <2> QED BY <2>1, <2>2
<1> QED BY <1>1, PlacesApart DEF Places

\* build_view makes these views.
AllViews ==
    (UNION {LayerViews(layer) : layer \in Layers}) \union
    {View("embed_tokens", 0, "embed_tokens", VocabSize * HiddenSize),
     View("norm", 0, "norm", HiddenSize),
     View("lm_head", 0, IF config.tieWordEmbeddings THEN "embed_tokens" ELSE "lm_head",
          VocabSize * HiddenSize)}

LEMMA ViewPlace ==
    ASSUME NEW j \in 1 .. Len(PlannedTensors), NEW name, NEW tensor, NEW layer, NEW size,
           PlannedTensors[j].name = tensor, PlannedTensors[j].layer = layer
    PROVE  /\ View(name, layer, tensor, size).offset = DstOffsets[j]
           /\ View(name, layer, tensor, size).layer = layer
           /\ View(name, layer, tensor, size).size = size
           /\ View(name, layer, tensor, size).name = name
<1> DEFINE P == PlannedTensors
           Named(i) == P[i].name = tensor /\ P[i].layer = layer
           c == CHOOSE i \in DOMAIN P : Named(i)
<1>1. DOMAIN P = 1 .. Len(P)
  BY InPlannedOrder DEF PlannedOrder
<1>2. c = j
  <2>1. j \in DOMAIN P /\ Named(j)
    BY <1>1
  <2>2. c \in DOMAIN P /\ Named(c)
    <3> HIDE DEF P, Named
    <3> QED BY <2>1
  <2> QED BY <1>1, <2>1, <2>2, PlannedOnce
<1>3. View(name, layer, tensor, size) =
         [name |-> name, layer |-> layer, size |-> size, offset |-> DstOffsets[c]]
  BY Zenon DEF View
<1> HIDE DEF c
<1> QED BY <1>2, <1>3

LEMMA OnePart ==
    ASSUME NEW j \in 1 .. Len(PlannedTensors), NEW tensor, NEW layer, NEW size,
           Is(PlannedTensors[j], tensor, layer, size),
           NEW view, view.offset = DstOffsets[j], view.layer = layer, view.size = size,
           PartsOf(view) = <<tensor>>
    PROVE  Covers(PlannedTensors, DstOffsets, PartsOf(view), view)
<1> DEFINE P == PlannedTensors
           D == DstOffsets
           parts == <<tensor>>
<1>1. Len(parts) = 1 /\ DOMAIN parts = 1 .. 1 /\ parts[1] = tensor
  OBVIOUS
<1>2. P[j].name = tensor /\ P[j].layer = view.layer /\ P[j].size = view.size /\ view.offset = D[j]
      /\ view.size \in Nat /\ D[j] \in Nat /\ Len(P) \in Nat
  <2>1. D[j] \in Nat /\ P[j].size \in Nat
    BY PlannedPlaces DEF Places
  <2>2. Len(P) \in Nat
    BY InPlannedOrder DEF PlannedOrder
  <2> QED BY <2>1, <2>2 DEF Is
<1> HIDE DEF P, D, parts
<1>3. Covers(P, D, parts, view)
  <2>1. j + Len(parts) - 1 = j /\ j \in 1 .. Len(P) /\ \A i \in 1 .. 1 : i = 1 /\ j + i - 1 = j
    BY <1>1 DEF P
  <2>2. D[j] + view.size = D[j + Len(parts) - 1] + P[j + Len(parts) - 1].size
    BY <1>2, <2>1
  <2> QED BY <1>1, <1>2, <2>1, <2>2 DEF Covers
<1> QED BY <1>3 DEF P, D, parts

LEMMA Joint ==
    ASSUME NEW j \in 2 .. Len(PlannedTensors), NEW name, NEW layer, NEW size,
           IsNext(PlannedTensors[j], name, layer, size)
    PROVE  DstOffsets[j] = DstOffsets[j - 1] + PlannedTensors[j - 1].size
<1>1. ~ PlannedTensors[j].align
  BY DEF IsNext
<1> QED BY <1>1, Destinations

LEMMA TwoParts ==
    ASSUME NEW j \in 1 .. Len(PlannedTensors), j + 1 <= Len(PlannedTensors),
           NEW a, NEW b, NEW layer, NEW m \in Nat, NEW n \in Nat,
           Is(PlannedTensors[j], a, layer, m), IsNext(PlannedTensors[j + 1], b, layer, n),
           NEW view, view.offset = DstOffsets[j], view.layer = layer, view.size = m + n,
           PartsOf(view) = <<a, b>>
    PROVE  Covers(PlannedTensors, DstOffsets, PartsOf(view), view)
<1> DEFINE P == PlannedTensors
           D == DstOffsets
           parts == <<a, b>>
<1>1. Len(parts) = 2 /\ DOMAIN parts = 1 .. 2 /\ parts[1] = a /\ parts[2] = b
  OBVIOUS
<1>2. Len(P) \in Nat /\ j \in 1 .. Len(P) /\ j + 1 \in 1 .. Len(P) /\ j + 1 \in 2 .. Len(P)
      /\ (j + 1) - 1 = j
  BY InPlannedOrder DEF PlannedOrder
<1>3. D[j] \in Nat /\ D[j + 1] \in Nat
  BY <1>2, PlannedPlaces DEF Places
<1>4. D[j + 1] = D[j] + P[j].size
  BY <1>2, Joint
<1>5. /\ P[j].name = a /\ P[j].layer = view.layer /\ P[j].size = m
      /\ P[j + 1].name = b /\ P[j + 1].layer = view.layer /\ P[j + 1].size = n
      /\ view.offset = D[j] /\ view.size = m + n
  BY DEF Is, IsNext
<1> HIDE DEF P, D, parts
<1>6. Covers(P, D, parts, view)
  <2>1. j + Len(parts) - 1 = j + 1
    BY <1>1, <1>2
  <2>2. D[j] + view.size = D[j + Len(parts) - 1] + P[j + Len(parts) - 1].size
    <3> DEFINE x == D[j]
    <3>1. D[j + 1] = x + m /\ x \in Nat
      BY <1>3, <1>4, <1>5
    <3>2. x + (m + n) = (x + m) + n
      <4> HIDE DEF x
      <4> QED BY <3>1
    <3> QED BY <1>5, <2>1, <3>1, <3>2
  <2>3. ASSUME NEW i \in 1 .. 2
        PROVE  P[j + i - 1].name = parts[i] /\ P[j + i - 1].layer = view.layer
    <3>1. (i = 1 /\ j + i - 1 = j) \/ (i = 2 /\ j + i - 1 = j + 1)
      BY <1>2
    <3> QED BY <1>1, <1>5, <3>1
  <2>4. ASSUME NEW i \in 2 .. 2 PROVE D[j + i - 1] = D[j + i - 2] + P[j + i - 2].size
    <3>1. j + i - 1 = j + 1 /\ j + i - 2 = j
      BY <1>2
    <3> QED BY <1>4, <3>1
  <2>5. view.size \in Nat /\ Len(parts) \in Nat \ {0} /\ j + Len(parts) - 1 <= Len(P)
    BY <1>1, <1>2, <1>5, <2>1
  <2> QED BY <1>1, <1>2, <1>5, <2>2, <2>3, <2>4, <2>5 DEF Covers
<1> QED BY <1>6 DEF P, D, parts

LEMMA ThreeParts ==
    ASSUME NEW j \in 1 .. Len(PlannedTensors), j + 2 <= Len(PlannedTensors),
           NEW a, NEW b, NEW c, NEW layer, NEW m \in Nat, NEW n \in Nat, NEW o \in Nat,
           Is(PlannedTensors[j], a, layer, m), IsNext(PlannedTensors[j + 1], b, layer, n),
           IsNext(PlannedTensors[j + 2], c, layer, o),
           NEW view, view.offset = DstOffsets[j], view.layer = layer,
           view.size = m + n + o, PartsOf(view) = <<a, b, c>>
    PROVE  Covers(PlannedTensors, DstOffsets, PartsOf(view), view)
<1> DEFINE P == PlannedTensors
           D == DstOffsets
           parts == <<a, b, c>>
<1>1. Len(parts) = 3 /\ DOMAIN parts = 1 .. 3 /\ parts[1] = a /\ parts[2] = b /\ parts[3] = c
  OBVIOUS
<1>2. Len(P) \in Nat /\ j \in 1 .. Len(P) /\ j + 1 \in 1 .. Len(P) /\ j + 1 \in 2 .. Len(P)
      /\ (j + 1) - 1 = j /\ j + 2 \in 1 .. Len(P) /\ j + 2 \in 2 .. Len(P) /\ (j + 2) - 1 = j + 1
  BY InPlannedOrder DEF PlannedOrder
<1>3. D[j] \in Nat
  BY <1>2, PlannedPlaces DEF Places
<1>4. D[j + 1] = D[j] + P[j].size /\ D[j + 2] = D[j + 1] + P[j + 1].size
  BY <1>2, Joint
<1>5. /\ P[j].name = a /\ P[j].layer = view.layer /\ P[j].size = m
      /\ P[j + 1].name = b /\ P[j + 1].layer = view.layer /\ P[j + 1].size = n
      /\ P[j + 2].name = c /\ P[j + 2].layer = view.layer /\ P[j + 2].size = o
      /\ view.offset = D[j] /\ view.size = m + n + o
  BY DEF Is, IsNext
<1> HIDE DEF P, D, parts
<1>6. Covers(P, D, parts, view)
  <2>1. j + Len(parts) - 1 = j + 2
    BY <1>1, <1>2
  <2>2. D[j] + view.size = D[j + Len(parts) - 1] + P[j + Len(parts) - 1].size
    <3> DEFINE x == D[j]
    <3>1. D[j + 2] = (x + m) + n /\ x \in Nat
      BY <1>3, <1>4, <1>5
    <3>2. x + (m + n + o) = ((x + m) + n) + o
      <4> HIDE DEF x
      <4> QED BY <3>1
    <3> QED BY <1>5, <2>1, <3>1, <3>2
  <2>3. ASSUME NEW i \in 1 .. 3
        PROVE  P[j + i - 1].name = parts[i] /\ P[j + i - 1].layer = view.layer
    <3>1. (i = 1 /\ j + i - 1 = j) \/ (i = 2 /\ j + i - 1 = j + 1) \/ (i = 3 /\ j + i - 1 = j + 2)
      BY <1>2
    <3> QED BY <1>1, <1>5, <3>1
  <2>4. ASSUME NEW i \in 2 .. 3 PROVE D[j + i - 1] = D[j + i - 2] + P[j + i - 2].size
    <3>1. (j + i - 1 = j + 1 /\ j + i - 2 = j) \/ (j + i - 1 = j + 2 /\ j + i - 2 = j + 1)
      BY <1>2
    <3> QED BY <1>4, <3>1
  <2>5. view.size \in Nat /\ Len(parts) \in Nat \ {0} /\ j + Len(parts) - 1 <= Len(P)
    BY <1>1, <1>2, <1>5, <2>1
  <2> QED BY <1>1, <1>2, <1>5, <2>2, <2>3, <2>4, <2>5 DEF Covers
<1> QED BY <1>6 DEF P, D, parts

CoveredView(view) == Covers(PlannedTensors, DstOffsets, PartsOf(view), view)

LEMMA SimpleParts ==
    ASSUME NEW view
    PROVE  /\ view.name \in {"input_layernorm", "o_proj", "down_proj", "q_norm", "k_norm",
                             "embed_tokens", "norm"} => PartsOf(view) = <<view.name>>
           /\ view.name = "post_attn_layernorm" => PartsOf(view) = <<"post_attention_layernorm">>
           /\ view.name = "qkv_proj" => PartsOf(view) = <<"q_proj", "k_proj", "v_proj">>
           /\ view.name = "gate_up_proj" => PartsOf(view) = <<"gate_proj", "up_proj">>
           /\ view.name = "lm_head" =>
                 PartsOf(view) =
                    <<IF config.tieWordEmbeddings THEN "embed_tokens" ELSE "lm_head">>
BY DEF PartsOf

LEMMA PlannedInLayer ==
    ASSUME NEW layer \in Layers, NEW m \in 1 .. LayerLen
    PROVE  /\ Slot(layer, m) \in 1 .. Len(PlannedTensors)
           /\ PlannedTensors[Slot(layer, m)] = LayerTensors(layer)[m]
<1>1. Slot(layer, m) \in 2 .. InLayers + 1 /\ InLayers \in Nat
  BY SlotRange, LayerLength
<1>2. Len(PlannedTensors) = InLayers + (IF config.tieWordEmbeddings THEN 2 ELSE 3)
  BY InPlannedOrder DEF PlannedOrder
<1> QED BY <1>1, <1>2, InPlannedOrder DEF PlannedOrder

LEMMA OnePartOfLayer ==
    ASSUME NEW layer \in Layers, NEW m \in 1 .. LayerLen, NEW name, NEW tensor, NEW size,
           Is(LayerTensors(layer)[m], tensor, layer, size),
           \A view : view.name = name => PartsOf(view) = <<tensor>>
    PROVE  CoveredView(View(name, layer, tensor, size))
<1> DEFINE j == Slot(layer, m)
           view == View(name, layer, tensor, size)
<1>1. j \in 1 .. Len(PlannedTensors) /\ Is(PlannedTensors[j], tensor, layer, size)
  BY PlannedInLayer
<1>2. PlannedTensors[j].name = tensor /\ PlannedTensors[j].layer = layer
  BY <1>1 DEF Is
<1> HIDE DEF j
<1>3. view.offset = DstOffsets[j] /\ view.layer = layer /\ view.size = size /\ view.name = name
  BY <1>1, <1>2, ViewPlace
<1>4. PartsOf(view) = <<tensor>>
  BY <1>3
<1> HIDE DEF view
<1>5. CoveredView(view)
  BY <1>1, <1>3, <1>4, OnePart DEF CoveredView
<1> QED BY <1>5 DEF view

LEMMA QkvView ==
    ASSUME NEW layer \in Layers
    PROVE  CoveredView(View("qkv_proj", layer, "q_proj", (QSize + 2 * KVSize) * HiddenSize))
<1> DEFINE j == Slot(layer, 2)
           m == QSize * HiddenSize
           n == KVSize * HiddenSize
           size == (QSize + 2 * KVSize) * HiddenSize
           view == View("qkv_proj", layer, "q_proj", size)
           a == "q_proj"
           b == "k_proj"
           c == "v_proj"
           P == PlannedTensors
<1>1. 2 \in 1 .. LayerLen /\ 3 \in 1 .. LayerLen /\ 4 \in 1 .. LayerLen
  BY LayerLength
<1>2. Slot(layer, 3) = j + 1 /\ Slot(layer, 4) = j + 2 /\ j \in Int
  BY LayerLength DEF Slot, Layers
<1>3. /\ j \in 1 .. Len(P) /\ P[j] = LayerTensors(layer)[2]
      /\ j + 1 \in 1 .. Len(P) /\ P[j + 1] = LayerTensors(layer)[3]
      /\ j + 2 \in 1 .. Len(P) /\ P[j + 2] = LayerTensors(layer)[4]
  BY <1>1, <1>2, PlannedInLayer
<1>4. Is(P[j], a, layer, m) /\ IsNext(P[j + 1], b, layer, n) /\ IsNext(P[j + 2], c, layer, n)
  BY <1>3, LayerSlots DEF LayerOrder
<1>5. m \in Nat /\ n \in Nat /\ size = m + n + n
  <2>1. QSize \in Nat /\ KVSize \in Nat /\ HiddenSize \in Nat
    BY ModelSizes
  <2>2. m \in Nat /\ n \in Nat
    BY ModelSizes
  <2>3. size = m + n + n
    BY <2>1
  <2> QED BY <2>2, <2>3
<1>6. P[j].name = a /\ P[j].layer = layer
  BY <1>4 DEF Is
<1>7. j + 2 <= Len(P)
  BY <1>3, InPlannedOrder DEF PlannedOrder
<1> HIDE DEF j, m, n, size, a, b, c
<1>8. view.offset = DstOffsets[j] /\ view.layer = layer /\ view.size = size
      /\ view.name = "qkv_proj"
  <2>1. view = View("qkv_proj", layer, a, size)
    BY DEF a
  <2> HIDE DEF view
  <2> QED BY <1>3, <1>6, <2>1, ViewPlace
<1> HIDE DEF view
<1>9. PartsOf(view) = <<a, b, c>>
  BY <1>8, SimpleParts DEF a, b, c
<1>10. CoveredView(view)
  <2>1. view.size = m + n + n
    BY <1>5, <1>8
  <2> QED BY <1>3, <1>4, <1>5, <1>7, <1>8, <1>9, <2>1, ThreeParts DEF CoveredView
<1> QED BY <1>10 DEF view, size

LEMMA GateUpView ==
    ASSUME NEW layer \in Layers
    PROVE  CoveredView(View("gate_up_proj", layer, "gate_proj", 2 * IntermediateSize * HiddenSize))
<1> DEFINE j == Slot(layer, 7 + NumNorms)
           m == IntermediateSize * HiddenSize
           size == 2 * IntermediateSize * HiddenSize
           view == View("gate_up_proj", layer, "gate_proj", size)
           a == "gate_proj"
           b == "up_proj"
           P == PlannedTensors
<1>1. 7 + NumNorms \in 1 .. LayerLen /\ 8 + NumNorms \in 1 .. LayerLen
  BY LayerLength DEF LayerLen
<1>2. Slot(layer, 8 + NumNorms) = j + 1 /\ j \in Int
  BY LayerLength DEF Slot, Layers
<1>3. /\ j \in 1 .. Len(P) /\ P[j] = LayerTensors(layer)[7 + NumNorms]
      /\ j + 1 \in 1 .. Len(P) /\ P[j + 1] = LayerTensors(layer)[8 + NumNorms]
  BY <1>1, <1>2, PlannedInLayer
<1>4. Is(P[j], a, layer, m) /\ IsNext(P[j + 1], b, layer, m)
  BY <1>3, LayerSlots DEF LayerOrder
<1>5. m \in Nat /\ size = m + m
  <2>1. IntermediateSize \in Nat /\ HiddenSize \in Nat
    BY ModelSizes
  <2>2. m \in Nat
    BY ModelSizes
  <2>3. size = m + m
    BY <2>1
  <2> QED BY <2>2, <2>3
<1>6. P[j].name = a /\ P[j].layer = layer
  BY <1>4 DEF Is
<1>7. j + 1 <= Len(P)
  BY <1>3, InPlannedOrder DEF PlannedOrder
<1> HIDE DEF j, m, size, a, b
<1>8. view.offset = DstOffsets[j] /\ view.layer = layer /\ view.size = size
      /\ view.name = "gate_up_proj"
  <2>1. view = View("gate_up_proj", layer, a, size)
    BY DEF a
  <2> HIDE DEF view
  <2> QED BY <1>3, <1>6, <2>1, ViewPlace
<1> HIDE DEF view
<1>9. PartsOf(view) = <<a, b>>
  BY <1>8, SimpleParts DEF a, b
<1>10. CoveredView(view)
  <2>1. view.size = m + m
    BY <1>5, <1>8
  <2> QED BY <1>3, <1>4, <1>5, <1>7, <1>8, <1>9, <2>1, TwoParts DEF CoveredView
<1> QED BY <1>10 DEF view, size

LEMMA LayerViewsCovered ==
    ASSUME NEW layer \in Layers, NEW view \in LayerViews(layer)
    PROVE  CoveredView(view)
<1> DEFINE s == LayerTensors(layer)
<1>1. LayerOrder(s, layer) /\ NumNorms \in {0, 2} /\ (config.hasQkNorm => NumNorms = 2)
      /\ LayerLen = 9 + NumNorms
  BY LayerSlots, LayerLength DEF NumNorms, LayerLen
<1>2. /\ 1 \in 1 .. LayerLen /\ 5 + NumNorms \in 1 .. LayerLen /\ 6 + NumNorms \in 1 .. LayerLen
      /\ 9 + NumNorms \in 1 .. LayerLen
      /\ NumNorms = 2 => 5 \in 1 .. LayerLen /\ 6 \in 1 .. LayerLen
  BY <1>1
<1>3. CoveredView(View("input_layernorm", layer, "input_layernorm", HiddenSize))
  BY <1>1, <1>2, SimpleParts, OnePartOfLayer DEF LayerOrder
<1>4. CoveredView(View("o_proj", layer, "o_proj", HiddenSize * QSize))
  BY <1>1, <1>2, SimpleParts, OnePartOfLayer DEF LayerOrder
<1>5. CoveredView(View("post_attn_layernorm", layer, "post_attention_layernorm", HiddenSize))
  BY <1>1, <1>2, SimpleParts, OnePartOfLayer DEF LayerOrder
<1>6. CoveredView(View("down_proj", layer, "down_proj", HiddenSize * IntermediateSize))
  BY <1>1, <1>2, SimpleParts, OnePartOfLayer DEF LayerOrder
<1>7. ASSUME NumNorms = 2 PROVE CoveredView(View("q_norm", layer, "q_norm", HeadDim))
  BY <1>1, <1>2, <1>7, SimpleParts, OnePartOfLayer DEF LayerOrder
<1>8. ASSUME NumNorms = 2 PROVE CoveredView(View("k_norm", layer, "k_norm", HeadDim))
  BY <1>1, <1>2, <1>8, SimpleParts, OnePartOfLayer DEF LayerOrder
<1> HIDE DEF s
<1> QED BY <1>1, <1>3, <1>4, <1>5, <1>6, <1>7, <1>8, QkvView, GateUpView DEF LayerViews

LEMMA OuterView ==
    ASSUME NEW j \in 1 .. Len(PlannedTensors), NEW name, NEW tensor, NEW size,
           Is(PlannedTensors[j], tensor, 0, size),
           \A view : view.name = name => PartsOf(view) = <<tensor>>
    PROVE  CoveredView(View(name, 0, tensor, size))
<1> DEFINE view == View(name, 0, tensor, size)
<1>1. PlannedTensors[j].name = tensor /\ PlannedTensors[j].layer = 0
  BY DEF Is
<1>2. view.offset = DstOffsets[j] /\ view.layer = 0 /\ view.size = size /\ view.name = name
  BY <1>1, ViewPlace
<1>3. PartsOf(view) = <<tensor>>
  BY <1>2
<1> HIDE DEF view
<1>4. CoveredView(view)
  BY <1>2, <1>3, OnePart DEF CoveredView
<1> QED BY <1>4 DEF view

LEMMA ViewsCovered ==
    ASSUME NEW view \in AllViews
    PROVE  CoveredView(view)
<1> DEFINE P == PlannedTensors
           head == IF config.tieWordEmbeddings THEN "embed_tokens" ELSE "lm_head"
<1>1. /\ Is(P[1], "embed_tokens", 0, VocabSize * HiddenSize) /\ 1 \in 1 .. Len(P)
      /\ Is(P[InLayers + 2], "norm", 0, HiddenSize) /\ InLayers + 2 \in 1 .. Len(P)
      /\ ~ config.tieWordEmbeddings =>
            Is(P[InLayers + 3], "lm_head", 0, VocabSize * HiddenSize) /\ InLayers + 3 \in 1 .. Len(P)
  BY InPlannedOrder, LayerLength DEF PlannedOrder
<1>2. CoveredView(View("embed_tokens", 0, "embed_tokens", VocabSize * HiddenSize))
  BY <1>1, SimpleParts, OuterView
<1>3. CoveredView(View("norm", 0, "norm", HiddenSize))
  BY <1>1, SimpleParts, OuterView
<1>4. CoveredView(View("lm_head", 0, head, VocabSize * HiddenSize))
  <2>1. \E j \in 1 .. Len(P) : Is(P[j], head, 0, VocabSize * HiddenSize)
    BY <1>1
  <2>2. \A v : v.name = "lm_head" => PartsOf(v) = <<head>>
    BY SimpleParts
  <2> HIDE DEF head
  <2> QED BY <2>1, <2>2, OuterView
<1>5. \/ \E layer \in Layers : view \in LayerViews(layer)
      \/ view = View("embed_tokens", 0, "embed_tokens", VocabSize * HiddenSize)
      \/ view = View("norm", 0, "norm", HiddenSize)
      \/ view = View("lm_head", 0, head, VocabSize * HiddenSize)
  <2> DEFINE a == View("embed_tokens", 0, "embed_tokens", VocabSize * HiddenSize)
             b == View("norm", 0, "norm", HiddenSize)
             c == View("lm_head", 0, head, VocabSize * HiddenSize)
             inner == {LayerViews(layer) : layer \in Layers}
  <2>1. AllViews = (UNION inner) \union {a, b, c}
    BY Zenon DEF AllViews
  <2> HIDE DEF a, b, c
  <2>2. view \in (UNION inner) \/ view = a \/ view = b \/ view = c
    <3> HIDE DEF inner
    <3> QED BY <2>1
  <2>3. view \in (UNION inner) => \E layer \in Layers : view \in LayerViews(layer)
    OBVIOUS
  <2> QED BY <2>2, <2>3 DEF a, b, c
<1> HIDE DEF P, head
<1> QED BY <1>2, <1>3, <1>4, <1>5, LayerViewsCovered

-----------------------------------------------------------------------------
(* Loading. *)

\* What is true of the device buffer at every point of load_from_safetensors.
WeightsInv ==
    /\ loading = "header" => FileOK /\ copied = 0
    /\ loading = "upload" =>
          Uploaded(PlannedTensors, DstOffsets, FileElements, plan, NextPlan, copied, weights)
    /\ loading = "loaded" =>
          /\ AllInPlace(PlannedTensors, DstOffsets, weights)
          /\ \A view \in views : CoveredView(view)

LEMMA WeightsInvHolds == WeightsInv => WeightsWhole
  BY PlannedPlaces, CoveredWhole DEF WeightsInv, WeightsWhole, CoveredView

LEMMA WeightsStart == ModelInit => WeightsInv
  BY FilesDistinct DEF ModelInit, WeightsInv

LEMMA SameConfig ==
    ASSUME config' = config
    PROVE  /\ PlannedTensors' = PlannedTensors /\ DstOffsets' = DstOffsets
           /\ \A view : CoveredView(view) => CoveredView(view)'
<1>1. ASSUME NEW layer PROVE LayerTensors(layer)' = LayerTensors(layer)
  <2>1. QkNorms(layer)' = QkNorms(layer)
    BY DEF QkNorms, Tensor
  <2> QED BY <2>1 DEF LayerTensors, Tensor
<1>2. PlannedTensors' = PlannedTensors
  <2> DEFINE a == [layer \in Layers |-> LayerTensors(layer)']
             b == [layer \in Layers |-> LayerTensors(layer)]
  <2>1. a = b
    BY <1>1
  <2>2. PlannedTensors' =
           <<Tensor("embed_tokens", 0, VocabSize * HiddenSize, TRUE)>> \o FlattenSeq(a)
           \o <<Tensor("norm", 0, HiddenSize, TRUE)>>
           \o (IF config'.tieWordEmbeddings THEN <<>>
               ELSE <<Tensor("lm_head", 0, VocabSize * HiddenSize, TRUE)>>)
    BY Zenon DEF PlannedTensors, Tensor, Layers
  <2>3. PlannedTensors =
           <<Tensor("embed_tokens", 0, VocabSize * HiddenSize, TRUE)>> \o FlattenSeq(b)
           \o <<Tensor("norm", 0, HiddenSize, TRUE)>>
           \o (IF config.tieWordEmbeddings THEN <<>>
               ELSE <<Tensor("lm_head", 0, VocabSize * HiddenSize, TRUE)>>)
    BY Zenon DEF PlannedTensors
  <2> HIDE DEF a, b
  <2> QED BY <2>1, <2>2, <2>3
<1>3. DstOffsets' = DstOffsets
  <2> DEFINE Solves(P, f) ==
                f = [i \in 1 .. Len(P) |->
                        LET end == IF i = 1 THEN 0 ELSE f[i - 1] + P[i - 1].size
                        IN  IF P[i].align THEN AlignUp(WeightAlignment, end) ELSE end]
  <2>1. DstOffsets' = CHOOSE f : Solves(PlannedTensors', f)
    BY Zenon DEF DstOffsets
  <2>2. DstOffsets = CHOOSE f : Solves(PlannedTensors, f)
    BY Zenon DEF DstOffsets
  <2> HIDE DEF Solves
  <2> QED BY <1>2, <2>1, <2>2
<1>4. ASSUME NEW view PROVE PartsOf(view)' = PartsOf(view)
  BY DEF PartsOf
<1>5. ASSUME NEW view PROVE CoveredView(view)' = Covers(PlannedTensors', DstOffsets', PartsOf(view)', view)
  BY DEF CoveredView, Covers
<1> QED BY <1>2, <1>3, <1>4, <1>5 DEF CoveredView

\* The plan of the tensor placed i-th.
PlanOf(i) ==
    [src |-> SrcOffset(PlannedTensors[i]), dst |-> DstOffsets[i], size |-> PlannedTensors[i].size]

LEMMA PlansRight ==
    ASSUME FileOK, ToSet(PlannedTensors) \subseteq ToSet(file.tensors),
           NEW i \in 1 .. Len(PlannedTensors)
    PROVE  PlanFor(PlannedTensors, DstOffsets, FileElements, PlanOf(i), i)
<1> DEFINE t == PlannedTensors[i]
<1>1. PICK k \in 1 .. Len(file.tensors) : t = file.tensors[k]
  <2>1. t \in ToSet(PlannedTensors)
    BY InPlannedOrder DEF PlannedOrder, ToSet
  <2>2. t \in ToSet(file.tensors)
    BY <2>1
  <2>3. DOMAIN file.tensors = 1 .. Len(file.tensors)
    BY DEF FileOK
  <2> HIDE DEF t
  <2> QED BY <2>2, <2>3 DEF ToSet
<1>2. SrcOffset(t) \in Nat
  <2>1. SrcOffset(t) = SumOf(Sizes, 1 .. k - 1)
    BY <1>1, SourceOffset
  <2> DEFINE S == 1 .. Len(file.tensors)
             R == 1 .. k - 1
  <2>2. Len(file.tensors) \in Nat /\ \A j \in S : file.tensors[j] \in Tensors
    BY DEF FileOK
  <2>3. \A x \in Tensors : x.size \in Nat
    BY DEF Tensors
  <2>4. Sizes \in [S -> Nat]
    BY <2>2, <2>3 DEF Sizes
  <2>5. IsFiniteSet(R) /\ R \subseteq S
    <3>1. k - 1 \in Int
      OBVIOUS
    <3>2. IsFiniteSet(R)
      BY <3>1, FS_Interval
    <3>3. R \subseteq S
      BY <2>2
    <3> QED BY <3>2, <3>3
  <2> HIDE DEF S, R
  <2>6. SumOf(Sizes, R) \in Nat
    BY <2>4, <2>5, SumElement
  <2> QED BY <2>1, <2>6 DEF R
<1>3. \A j \in 1 .. t.size : FileElements[SrcOffset(t) + j] = <<t, j>>
  <2>1. \A j \in 1 .. file.tensors[k].size :
            FileElements[SrcOffset(file.tensors[k]) + j] = <<file.tensors[k], j>>
    BY Elements
  <2> HIDE DEF t
  <2> QED BY <1>1, <2>1
<1> DEFINE p == PlanOf(i)
<1>4. p.src = SrcOffset(t) /\ p.dst = DstOffsets[i] /\ p.size = t.size
  BY DEF PlanOf
<1> HIDE DEF p
<1>5. PlanFor(PlannedTensors, DstOffsets, FileElements, p, i)
  BY <1>2, <1>3, <1>4 DEF PlanFor
<1> QED BY <1>5 DEF p

LEMMA PlansAre == CopyPlans = {PlanOf(i) : i \in 1 .. Len(PlannedTensors)}
<1>1. DOMAIN PlannedTensors = 1 .. Len(PlannedTensors)
  BY InPlannedOrder DEF PlannedOrder
<1>2. CopyPlans = {PlanOf(i) : i \in DOMAIN PlannedTensors}
  BY DEF CopyPlans, PlanOf
<1> QED BY <1>1, <1>2

\* The buffer holds every tensor.
LEMMA BufferSize ==
    ASSUME NEW j \in 1 .. Len(PlannedTensors), NEW k \in 1 .. PlannedTensors[j].size
    PROVE  DstOffsets[j] + k - 1 \in 0 .. DstEnd(CopyPlans) - 1
<1> DEFINE P == PlannedTensors
           D == DstOffsets
           n == Len(P)
           ends == {p.dst + p.size : p \in CopyPlans}
           End(i) == D[i] + P[i].size
<1>1. /\ \A i \in 1 .. n : D[i] \in Nat /\ P[i].size \in Nat /\ End(i) \in Nat
      /\ \A i \in 1 .. n : i < n => End(i) <= D[n]
      /\ n \in 1 .. n
  <2>1. n \in Nat \ {0}
    BY InPlannedOrder, LayerLength DEF PlannedOrder
  <2> QED BY <2>1, PlannedPlaces DEF Places
<1>2. ASSUME NEW i \in 1 .. n PROVE End(i) \in ends /\ End(i) <= End(n)
  <2>1. End(i) \in ends
    <3>1. PlanOf(i) \in CopyPlans /\ PlanOf(i).dst = D[i] /\ PlanOf(i).size = P[i].size
      BY PlansAre DEF PlanOf
    <3> QED BY <3>1
  <2>2. End(i) <= End(n)
    <3> DEFINE a == End(i)
               d == D[n]
               s == P[n].size
    <3>1. i < n \/ i = n
      BY <1>1
    <3>2. a \in Nat /\ d \in Nat /\ s \in Nat /\ (a <= d \/ a = d + s)
      BY <1>1, <3>1
    <3>3. a <= d + s
      <4> HIDE DEF a, d, s
      <4> QED BY <3>2
    <3> QED BY <3>3
  <2> QED BY <2>1, <2>2
<1>3. \A x \in ends : x <= End(n) /\ x \in Nat
  <2>1. ASSUME NEW x \in ends PROVE \E i \in 1 .. n : x = End(i)
    <3>1. PICK p \in CopyPlans : x = p.dst + p.size
      OBVIOUS
    <3>2. PICK i \in 1 .. n : p = PlanOf(i)
      BY PlansAre
    <3> QED BY <3>1, <3>2 DEF PlanOf
  <2> HIDE DEF ends, End
  <2> QED BY <1>1, <1>2, <2>1
<1>4. DstEnd(CopyPlans) \in ends /\ \A x \in ends : DstEnd(CopyPlans) >= x
  <2>1. DstEnd(CopyPlans) = CHOOSE x \in ends : \A y \in ends : x >= y
    BY Zenon DEF DstEnd, Max
  <2>2. \E x \in ends : \A y \in ends : x >= y
    <3>1. End(n) \in ends /\ End(n) \in Nat
      BY <1>1, <1>2
    <3> HIDE DEF ends, End
    <3> QED BY <1>3, <3>1
  <2> HIDE DEF ends
  <2> QED BY <2>1, <2>2
<1>5. DstEnd(CopyPlans) \in Nat /\ DstEnd(CopyPlans) >= End(j)
  <2> HIDE DEF ends, End
  <2> QED BY <1>2, <1>3, <1>4
<1>6. D[j] \in Nat /\ P[j].size \in Nat /\ k \in 1 .. P[j].size
  BY <1>1
<1> DEFINE d == D[j]
           s == P[j].size
           e == DstEnd(CopyPlans)
<1>7. d \in Nat /\ s \in Nat /\ e \in Nat /\ e >= d + s /\ k \in 1 .. s
  BY <1>5, <1>6
<1>8. d + k - 1 \in 0 .. e - 1
  <2> HIDE DEF d, s, e
  <2> QED BY <1>7
<1> QED BY <1>8

LEMMA LeastSource ==
    ASSUME NEW plans, plans # {}, \A p \in plans : p.src \in Nat
    PROVE  \E p \in plans : \A other \in plans : p.src <= other.src
<1> DEFINE T == {p.src : p \in plans}
<1>1. T \in SUBSET Nat /\ T # {}
  OBVIOUS
<1>2. PICK x \in T : \A y \in T : x <= y
  <2> HIDE DEF T
  <2> QED BY <1>1, LeastNumber
<1> QED BY <1>2

LEMMA NextPlanIn ==
    ASSUME plan' # {}, \A p \in plan' : p.src \in Nat
    PROVE  NextPlan' \in plan'
  BY LeastSource DEF NextPlan

LEMMA PlanBuilt == WeightsInv /\ BuildPlan => WeightsInv'
<1> SUFFICES ASSUME WeightsInv, BuildPlan PROVE WeightsInv'
  OBVIOUS
<1>1. FileOK /\ copied = 0 /\ config' = config /\ file' = file /\ copied' = copied
  BY DEF WeightsInv, BuildPlan
<1>2. CASE loading' = "failed"
  BY <1>2 DEF WeightsInv
<1>3. CASE loading' # "failed"
  <2>1. /\ ToSet(PlannedTensors) \subseteq ToSet(file.tensors)
        /\ loading' = "upload" /\ plan' = CopyPlans
        /\ weights' = [offset \in 0 .. DstEnd(CopyPlans) - 1 |-> Unwritten]
    BY <1>3 DEF BuildPlan
  <2> DEFINE P == PlannedTensors
             D == DstOffsets
             E == FileElements
             n == Len(P)
             next == NextPlan'
  <2>2. \A i \in 1 .. n : PlanFor(P, D, E, PlanOf(i), i)
    BY <1>1, <2>1, PlansRight
  <2>3. plan' = {PlanOf(i) : i \in 1 .. n}
    BY <2>1, PlansAre
  <2>4. \A p \in plan' : \E i \in 1 .. n : PlanFor(P, D, E, p, i)
    BY <2>2, <2>3
  <2>5. \A i \in 1 .. n : P[i].size \in Nat
    BY PlannedPlaces DEF Places
  <2>6. \A p \in plan' : p.src \in Nat /\ 0 <= p.size
    <3>1. ASSUME NEW p \in plan' PROVE p.src \in Nat /\ 0 <= p.size
      <4>1. PICK i \in 1 .. n : PlanFor(P, D, E, p, i)
        BY <2>4
      <4>2. p.size = P[i].size /\ p.src \in Nat
        BY <4>1 DEF PlanFor
      <4> QED BY <2>5, <4>2
    <3> QED BY <3>1
  <2>7. plan' # {} => next \in plan'
    BY <2>6, NextPlanIn
  <2>8. ASSUME NEW j \in 1 .. n, NEW k \in 1 .. P[j].size
        PROVE  InPlace(P, D, E, plan', next, 0, weights', j, k)
    <3>1. D[j] + k - 1 \in DOMAIN weights'
      BY <2>1, BufferSize
    <3>2. PlanOf(j) \in plan' /\ PlanFor(P, D, E, PlanOf(j), j) /\ k > 0
      BY <2>2, <2>3
    <3> HIDE DEF P, D, E, next
    <3> QED BY <3>1, <3>2 DEF InPlace
  <2> HIDE DEF P, D, E, n, next
  <2>9. Uploaded(P, D, E, plan', next, 0, weights')
    BY <2>4, <2>6, <2>7, <2>8 DEF Uploaded, n
  <2>10. P' = P /\ D' = D /\ E' = E
    BY <1>1, SameConfig DEF P, D, E, FileElements
  <2>11. Uploaded(P, D, E, plan, NextPlan, copied, weights)'
    BY <1>1, <2>9, <2>10 DEF next
  <2> QED BY <2>1, <2>11 DEF WeightsInv, P, D, E
<1> QED BY <1>2, <1>3

LEMMA SmallerOf ==
    ASSUME NEW a \in Nat, NEW b \in Nat
    PROVE  Min({a, b}) \in Nat /\ Min({a, b}) <= a /\ Min({a, b}) <= b
<1>1. \E x \in {a, b} : \A y \in {a, b} : x <= y
  OBVIOUS
<1>2. Min({a, b}) \in {a, b} /\ \A y \in {a, b} : Min({a, b}) <= y
  BY <1>1 DEF Min
<1> QED BY <1>2

LEMMA ChunkStep == WeightsInv /\ UploadChunk => WeightsInv'
<1> SUFFICES ASSUME WeightsInv, UploadChunk PROVE WeightsInv'
  OBVIOUS
<1> DEFINE P == PlannedTensors
           D == DstOffsets
           E == FileElements
           p == NextPlan
           chunk == Min({UploadChunkSize, p.size - copied})
           next == NextPlan'
<1>1. /\ loading = "upload" /\ plan # {} /\ loading' = loading
      /\ config' = config /\ file' = file
  BY DEF UploadChunk
<1>2. Uploaded(P, D, E, plan, p, copied, weights)
  BY <1>1 DEF WeightsInv
<1>3. /\ Places(P, D) /\ Len(P) \in Nat
      /\ \A j \in 1 .. Len(P) : P[j].size \in Nat
  <2>1. Places(P, D)
    BY PlannedPlaces
  <2>2. Len(P) \in Nat
    BY InPlannedOrder DEF PlannedOrder
  <2>3. \A j \in 1 .. Len(P) : P[j].size \in Nat
    BY <2>1 DEF Places
  <2> QED BY <2>1, <2>2, <2>3
<1>4. p \in plan /\ copied <= p.size /\ copied \in Nat
      /\ \A q \in plan : \E j \in 1 .. Len(P) : PlanFor(P, D, E, q, j)
  BY <1>1, <1>2 DEF Uploaded
<1>5. \A q \in plan : q.size \in Nat /\ q.src \in Nat
  BY <1>3, <1>4 DEF PlanFor
<1>6. chunk \in Nat /\ copied + chunk <= p.size
  <2> DEFINE s == p.size
             a == s - copied
  <2>1. s \in Nat /\ copied <= s
    BY <1>4, <1>5
  <2>2. a \in Nat /\ a + copied = s
    <3> HIDE DEF s
    <3> QED BY <1>4, <2>1
  <2>3. UploadChunkSize \in Nat
    BY ModelWeightsAssumption
  <2> HIDE DEF a
  <2>4. Min({UploadChunkSize, a}) \in Nat /\ Min({UploadChunkSize, a}) <= a
    BY <2>2, <2>3, SmallerOf
  <2> DEFINE c == Min({UploadChunkSize, a})
  <2>5. c \in Nat /\ copied + c <= s
    <3>1. c \in Nat /\ c <= a
      BY <2>4
    <3> HIDE DEF c, s
    <3> QED BY <1>4, <2>1, <2>2, <3>1
  <2> QED BY <2>5 DEF a
<1>7. weights' = CopyOf(E, p, copied, chunk, weights)
  BY Zenon DEF UploadChunk, CopyOf
<1>8. IF copied + chunk = p.size THEN plan' = plan \ {p} /\ copied' = 0
      ELSE copied' = copied + chunk /\ plan' = plan
  BY Zenon DEF UploadChunk
<1>9. P' = P /\ D' = D /\ E' = E
  BY <1>1, SameConfig DEF FileElements
<1> HIDE DEF P, D, E, chunk
<1>10. Uploaded(P, D, E, plan, p, copied + chunk, weights')
  <2> HIDE DEF p
  <2> QED BY <1>2, <1>3, <1>4, <1>6, <1>7, ChunkUploaded
<1>11. Uploaded(P, D, E, plan', next, copied', weights')
  <2>1. CASE copied + chunk = p.size
    <3>1. plan' = plan \ {p} /\ copied' = 0
      BY <1>8, <2>1
    <3>2. plan' # {} => next \in plan' /\ next.size \in Nat
      <4>1. \A q \in plan' : q.src \in Nat /\ q.size \in Nat
        BY <1>5, <3>1
      <4> QED BY <4>1, NextPlanIn
    <3>3. Uploaded(P, D, E, plan, p, p.size, weights')
      BY <1>10, <2>1
    <3> HIDE DEF p, next
    <3>4. Uploaded(P, D, E, plan', next, 0, weights')
      BY <1>3, <3>1, <3>2, <3>3, PlanUploaded
    <3> QED BY <3>1, <3>4
  <2>2. CASE copied + chunk # p.size
    <3>1. plan' = plan /\ copied' = copied + chunk
      BY <1>8, <2>2
    <3>2. next = p
      BY <3>1 DEF NextPlan
    <3> HIDE DEF p, next
    <3> QED BY <1>10, <3>1, <3>2
  <2> QED BY <2>1, <2>2
<1>12. Uploaded(P, D, E, plan, NextPlan, copied, weights)'
  BY <1>9, <1>11
<1> QED BY <1>1, <1>12 DEF WeightsInv, P, D, E

LEMMA ViewStep == WeightsInv /\ BuildView => WeightsInv'
<1> SUFFICES ASSUME WeightsInv, BuildView PROVE WeightsInv'
  OBVIOUS
<1>1. /\ loading = "upload" /\ plan = {} /\ loading' = "loaded"
      /\ config' = config /\ weights' = weights
  BY DEF BuildView
<1>2. views' = AllViews
  BY Zenon DEF BuildView, AllViews
<1>3. Uploaded(PlannedTensors, DstOffsets, FileElements, plan, NextPlan, copied, weights)
  BY <1>1 DEF WeightsInv
<1>4. AllInPlace(PlannedTensors, DstOffsets, weights)
  BY <1>1, <1>3 DEF Uploaded, InPlace, AllInPlace
<1>5. AllInPlace(PlannedTensors, DstOffsets, weights)'
  BY <1>1, <1>4, SameConfig DEF AllInPlace
<1>6. \A view \in views' : CoveredView(view)'
  BY <1>1, <1>2, ViewsCovered, SameConfig
<1> QED BY <1>1, <1>5, <1>6 DEF WeightsInv

LEMMA WeightsKept ==
    ASSUME WeightsInv, UNCHANGED <<config, weightVars>>
    PROVE  WeightsInv'
<1>1. config' = config /\ loading' = loading /\ file' = file /\ plan' = plan
      /\ copied' = copied /\ weights' = weights /\ views' = views
  BY DEF weightVars
<1>2. /\ PlannedTensors' = PlannedTensors /\ DstOffsets' = DstOffsets
      /\ \A view : CoveredView(view) => CoveredView(view)'
  BY <1>1, SameConfig
<1>3. FileOK => FileOK'
  BY <1>1 DEF FileOK
<1>4. FileElements' = FileElements /\ NextPlan' = NextPlan
  BY <1>1 DEF FileElements, NextPlan
<1> QED BY <1>1, <1>2, <1>3, <1>4 DEF WeightsInv

LEMMA WeightsStep == WeightsInv /\ [ModelNext]_modelVars => WeightsInv'
<1> SUFFICES ASSUME WeightsInv, [ModelNext]_modelVars PROVE WeightsInv'
  OBVIOUS
<1>1. CASE LoadModel
  BY <1>1, PlanBuilt, ChunkStep, ViewStep DEF LoadModel, LoadNext
<1>2. CASE StartPass
  BY <1>2, WeightsKept DEF StartPass
<1>3. ASSUME NEW r, RunRow(r) PROVE WeightsInv'
  BY <1>3, WeightsKept DEF RunRow
<1>4. CASE UNCHANGED modelVars
  BY <1>4, WeightsKept DEF modelVars
<1> QED BY <1>1, <1>2, <1>3, <1>4 DEF ModelNext

(* A model that has been loaded has under every view its tensors' elements,  *)
(* whole and in order.  ModelSpec starts with any well-formed file: whatever *)
(* the order of its tensors, whatever others it has, and wherever it ends    *)
(* (model_weights.cpp: build_plan, upload, build_view).                      *)
THEOREM WeightsAreWhole == ModelSpec => []WeightsWhole
<1>1. ModelInit => WeightsInv
  BY WeightsStart
<1>2. WeightsInv /\ [ModelNext]_modelVars => WeightsInv'
  BY WeightsStep
<1>3. WeightsInv => WeightsWhole
  BY WeightsInvHolds
<1> QED BY <1>1, <1>2, <1>3, PTL DEF ModelSpec
=============================================================================
