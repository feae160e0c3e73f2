--------------------------- MODULE SequenceLemmas ---------------------------
(***************************************************************************)
(* Facts about the sequence operations the block pool and the queues of    *)
(* requests and messages are made of: cutting a tail off, appending a      *)
(* sequence, erasing one node.  Each says what the operation does to the   *)
(* elements, to their uniqueness, or to how many there are of a kind.      *)
(* After them, induction and recursion up to a number, for the functions   *)
(* that add up or collect what a batch has, and sums over finite sets.     *)
(***************************************************************************)
EXTENDS Integers, SequencesExt, FiniteSetTheorems, WellFoundedInduction, TLAPS

\* What the two library operators say of a sequence, by index.
LEMMA SequenceElements ==
    ASSUME NEW S, NEW s \in Seq(S)
    PROVE  /\ \A x : x \in ToSet(s) <=> \E i \in 1 .. Len(s) : s[i] = x
           /\ IsInjective(s) <=>
                 \A i, j \in 1 .. Len(s) : s[i] = s[j] => i = j
<1>1. DOMAIN s = 1 .. Len(s)
  OBVIOUS
<1>2. \A x : x \in ToSet(s) <=> \E i \in 1 .. Len(s) : s[i] = x
  BY <1>1, Zenon DEF ToSet
<1>3. IsInjective(s) <=>
         \A i, j \in 1 .. Len(s) : s[i] = s[j] => i = j
  BY <1>1, Zenon DEF IsInjective
<1> QED BY <1>2, <1>3

\* A sequence cut after position n, as allocate_slots cuts the free list:
\* the two parts share out the elements.
LEMMA CutSequence ==
    ASSUME NEW S, NEW s \in Seq(S), NEW n \in 0 .. Len(s)
    PROVE  LET a == SubSeq(s, 1, n)
               b == SubSeq(s, n + 1, Len(s))
           IN
           /\ a \in Seq(S) /\ Len(a) = n
           /\ b \in Seq(S) /\ Len(b) = Len(s) - n
           /\ ToSet(a) \cup ToSet(b) = ToSet(s)
           /\ IsInjective(s) =>
                 /\ IsInjective(a)
                 /\ IsInjective(b)
                 /\ ToSet(a) \cap ToSet(b) = {}
<1> DEFINE m == Len(s)
           a == SubSeq(s, 1, n)
           b == SubSeq(s, n + 1, m)
<1>1. /\ a \in Seq(S) /\ Len(a) = n
      /\ \A i \in 1 .. n : a[i] = s[i]
  OBVIOUS
<1>2. /\ b \in Seq(S) /\ Len(b) = m - n
      /\ \A i \in 1 .. (m - n) : b[i] = s[n + i]
  OBVIOUS
<1>3. m \in Nat /\ n \in 0 .. m
  OBVIOUS
<1> HIDE DEF m, a, b
<1>4. \A x : x \in ToSet(s) <=> \E i \in 1 .. m : s[i] = x
  BY SequenceElements, Zenon DEF m
<1>5. \A x : x \in ToSet(a) <=> \E i \in 1 .. n : a[i] = x
  BY SequenceElements, <1>1
<1>6. \A x : x \in ToSet(b) <=> \E i \in 1 .. (m - n) : b[i] = x
  BY SequenceElements, <1>2
<1>7. /\ IsInjective(s) <=> \A i, j \in 1 .. m : s[i] = s[j] => i = j
      /\ IsInjective(a) <=> \A i, j \in 1 .. n : a[i] = a[j] => i = j
      /\ IsInjective(b) <=> \A i, j \in 1 .. (m - n) : b[i] = b[j] => i = j
  <2>1. IsInjective(s) <=> \A i, j \in 1 .. m : s[i] = s[j] => i = j
    BY SequenceElements DEF m
  <2>2. IsInjective(a) <=> \A i, j \in 1 .. n : a[i] = a[j] => i = j
    BY SequenceElements, <1>1
  <2>3. IsInjective(b) <=> \A i, j \in 1 .. (m - n) : b[i] = b[j] => i = j
    BY SequenceElements, <1>2
  <2> QED BY <2>1, <2>2, <2>3
<1>8. ASSUME NEW x PROVE x \in ToSet(s) <=> x \in ToSet(a) \cup ToSet(b)
  <2>1. ASSUME NEW i \in 1 .. m, s[i] = x, i <= n
        PROVE  x \in ToSet(a)
    BY <2>1, <1>1, <1>3, <1>5
  <2>2. ASSUME NEW i \in 1 .. m, s[i] = x, i > n
        PROVE  x \in ToSet(b)
    <3>1. i - n \in 1 .. (m - n) /\ b[i - n] = s[n + (i - n)] /\ n + (i - n) = i
      BY <2>2, <1>2, <1>3
    <3> QED BY <3>1, <2>2, <1>6
  <2>3. ASSUME NEW i \in 1 .. n, a[i] = x
        PROVE  x \in ToSet(s)
    BY <2>3, <1>1, <1>3, <1>4
  <2>4. ASSUME NEW i \in 1 .. (m - n), b[i] = x
        PROVE  x \in ToSet(s)
    <3>1. n + i \in 1 .. m /\ s[n + i] = x
      BY <2>4, <1>2, <1>3
    <3> QED BY <3>1, <1>4
  <2> QED BY <2>1, <2>2, <2>3, <2>4, <1>3, <1>4, <1>5, <1>6
<1>9. ASSUME IsInjective(s)
      PROVE  /\ IsInjective(a)
             /\ IsInjective(b)
             /\ ToSet(a) \cap ToSet(b) = {}
  <2>1. \A i, j \in 1 .. m : s[i] = s[j] => i = j
    BY <1>7, <1>9
  <2>2. IsInjective(a)
    BY <2>1, <1>1, <1>3, <1>7
  <2>3. ASSUME NEW i \in 1 .. (m - n), NEW j \in 1 .. (m - n), b[i] = b[j]
        PROVE  i = j
    <3>1. n + i \in 1 .. m /\ n + j \in 1 .. m /\ s[n + i] = s[n + j]
      BY <2>3, <1>2, <1>3
    <3>2. n + i = n + j
      BY <2>1, <3>1
    <3> QED BY <3>2, <1>3
  <2>4. ASSUME NEW i \in 1 .. n, NEW j \in 1 .. (m - n), a[i] = b[j]
        PROVE  FALSE
    <3>1. i \in 1 .. m /\ n + j \in 1 .. m /\ s[i] = s[n + j]
      BY <2>4, <1>1, <1>2, <1>3
    <3>2. i = n + j
      BY <2>1, <3>1
    <3> QED BY <3>2, <1>3
  <2> QED BY <2>2, <2>3, <2>4, <1>5, <1>6, <1>7
<1> QED BY <1>1, <1>2, <1>8, <1>9 DEF m, a, b

\* One sequence appended to another, as release_blocks returns a table.
LEMMA JoinSequences ==
    ASSUME NEW S, NEW s \in Seq(S), NEW t \in Seq(S)
    PROVE  /\ s \o t \in Seq(S)
           /\ Len(s \o t) = Len(s) + Len(t)
           /\ ToSet(s \o t) = ToSet(s) \cup ToSet(t)
           /\ (/\ IsInjective(s)
               /\ IsInjective(t)
               /\ ToSet(s) \cap ToSet(t) = {}) => IsInjective(s \o t)
<1> DEFINE u == s \o t
           m == Len(s)
           n == Len(t)
<1>1. /\ u \in Seq(S) /\ Len(u) = m + n
      /\ \A i \in 1 .. m : u[i] = s[i]
      /\ \A i \in (m + 1) .. (m + n) : i - m \in 1 .. n /\ u[i] = t[i - m]
  OBVIOUS
<1>2. m \in Nat /\ n \in Nat
  OBVIOUS
<1> HIDE DEF u, m, n
<1>3. /\ \A x : x \in ToSet(s) <=> \E i \in 1 .. m : s[i] = x
      /\ \A x : x \in ToSet(t) <=> \E i \in 1 .. n : t[i] = x
  BY SequenceElements, Zenon DEF m, n
<1>4. \A x : x \in ToSet(u) <=> \E i \in 1 .. (m + n) : u[i] = x
  BY SequenceElements, <1>1
<1>5. /\ IsInjective(s) <=> \A i, j \in 1 .. m : s[i] = s[j] => i = j
      /\ IsInjective(t) <=> \A i, j \in 1 .. n : t[i] = t[j] => i = j
  BY SequenceElements, Zenon DEF m, n
<1>6. IsInjective(u) <=> \A i, j \in 1 .. (m + n) : u[i] = u[j] => i = j
  BY SequenceElements, <1>1
<1>7. ASSUME NEW x PROVE x \in ToSet(u) <=> x \in ToSet(s) \cup ToSet(t)
  <2>1. ASSUME NEW i \in 1 .. (m + n), u[i] = x
        PROVE  x \in ToSet(s) \cup ToSet(t)
    <3>1. CASE i <= m
      BY <3>1, <2>1, <1>1, <1>2, <1>3
    <3>2. CASE i > m
      <4>1. i \in (m + 1) .. (m + n)
        BY <3>2, <1>2
      <4> QED BY <4>1, <2>1, <1>1, <1>3
    <3> QED BY <3>1, <3>2, <1>2
  <2>2. ASSUME NEW i \in 1 .. m, s[i] = x
        PROVE  x \in ToSet(u)
    BY <2>2, <1>1, <1>2, <1>4
  <2>3. ASSUME NEW i \in 1 .. n, t[i] = x
        PROVE  x \in ToSet(u)
    <3>1. m + i \in (m + 1) .. (m + n) /\ (m + i) - m = i
      BY <1>2
    <3>2. m + i \in 1 .. (m + n) /\ u[m + i] = x
      BY <3>1, <2>3, <1>1, <1>2
    <3> QED BY <3>2, <1>4
  <2> QED BY <2>1, <2>2, <2>3, <1>3, <1>4
<1>8. ASSUME IsInjective(s), IsInjective(t), ToSet(s) \cap ToSet(t) = {}
      PROVE  IsInjective(u)
  <2>1. ASSUME NEW i \in 1 .. (m + n), NEW j \in 1 .. (m + n),
               u[i] = u[j], i <= m, j > m
        PROVE  FALSE
    <3>1. i \in 1 .. m /\ j \in (m + 1) .. (m + n)
      BY <2>1, <1>2
    <3>2. s[i] = t[j - m] /\ j - m \in 1 .. n
      BY <3>1, <2>1, <1>1
    <3>3. s[i] \in ToSet(s) /\ s[i] \in ToSet(t)
      BY <3>1, <3>2, <1>3
    <3> QED BY <3>3, <1>8
  <2>2. ASSUME NEW i \in 1 .. (m + n), NEW j \in 1 .. (m + n),
               u[i] = u[j], i <= m, j <= m
        PROVE  i = j
    BY <2>2, <1>1, <1>2, <1>5, <1>8
  <2>3. ASSUME NEW i \in 1 .. (m + n), NEW j \in 1 .. (m + n),
               u[i] = u[j], i > m, j > m
        PROVE  i = j
    <3>1. i \in (m + 1) .. (m + n) /\ j \in (m + 1) .. (m + n)
      BY <2>3, <1>2
    <3>2. t[i - m] = t[j - m] /\ i - m \in 1 .. n /\ j - m \in 1 .. n
      BY <3>1, <2>3, <1>1
    <3>3. i - m = j - m
      BY <3>2, <1>5, <1>8
    <3> QED BY <3>3, <1>2
  <2> QED BY <2>1, <2>2, <2>3, <1>2, <1>6
<1>9. ToSet(u) = ToSet(s) \cup ToSet(t)
  BY <1>7
<1> QED BY <1>1, <1>8, <1>9 DEF u, m, n
\* One node erased from a sequence, as std::list::erase and splice do.
LEMMA EraseNode ==
    ASSUME NEW S, NEW s \in Seq(S), NEW k \in 1 .. Len(s)
    PROVE  LET r == RemoveAt(s, k)
           IN
           /\ r \in Seq(S)
           /\ Len(r) = Len(s) - 1
           /\ \A i \in 1 .. (Len(s) - 1) :
                 r[i] = IF i < k THEN s[i] ELSE s[i + 1]
           /\ IsInjective(s) =>
                 /\ IsInjective(r)
                 /\ ToSet(r) = ToSet(s) \ {s[k]}
<1> DEFINE r == RemoveAt(s, k)
           m == Len(s)
<1>1. /\ r \in Seq(S)
      /\ Len(r) = m - 1
      /\ \A i \in 1 .. (m - 1) : r[i] = IF i < k THEN s[i] ELSE s[i + 1]
  <2> DEFINE p == SubSeq(s, 1, k - 1)
             q == SubSeq(s, k + 1, m)
  <2>1. /\ p \in Seq(S) /\ Len(p) = k - 1
        /\ \A i \in 1 .. (k - 1) : p[i] = s[i]
    OBVIOUS
  <2>2. /\ q \in Seq(S) /\ Len(q) = m - k
        /\ \A i \in 1 .. (m - k) : q[i] = s[k + i]
    OBVIOUS
  <2>3. r = p \o q
    BY DEF RemoveAt
  <2>4. m \in Nat /\ k \in 1 .. m
    OBVIOUS
  <2> HIDE DEF p, q, r, m
  <2>5. r \in Seq(S) /\ Len(r) = m - 1
    <3>1. r \in Seq(S) /\ Len(r) = Len(p) + Len(q)
      BY <2>1, <2>2, <2>3, JoinSequences
    <3> QED BY <3>1, <2>1, <2>2, <2>4
  <2>6. ASSUME NEW i \in 1 .. (m - 1)
        PROVE  r[i] = IF i < k THEN s[i] ELSE s[i + 1]
    <3>1. CASE i < k
      BY <3>1, <2>1, <2>2, <2>3, <2>4
    <3>2. CASE i >= k
      <4>1. i - (k - 1) \in 1 .. (m - k) /\ k + (i - (k - 1)) = i + 1
        BY <3>2, <2>4
      <4>2. r[i] = q[i - (k - 1)]
        BY <3>2, <2>1, <2>2, <2>3, <2>4
      <4> QED BY <4>1, <4>2, <3>2, <2>2, <2>4
    <3> QED BY <3>1, <3>2, <2>4
  <2> QED BY <2>5, <2>6
<1>2. m \in Nat /\ k \in 1 .. m
  OBVIOUS
<1> HIDE DEF r, m
<1>3. /\ \A x : x \in ToSet(s) <=> \E i \in 1 .. m : s[i] = x
      /\ IsInjective(s) <=> \A i, j \in 1 .. m : s[i] = s[j] => i = j
  BY SequenceElements DEF m
<1>4. /\ \A x : x \in ToSet(r) <=> \E i \in 1 .. (m - 1) : r[i] = x
      /\ IsInjective(r) <=> \A i, j \in 1 .. (m - 1) : r[i] = r[j] => i = j
  <2>1. r \in Seq(S) /\ Len(r) = m - 1
    BY <1>1
  <2> QED BY <2>1, SequenceElements
<1>5. ASSUME IsInjective(s)
      PROVE  IsInjective(r) /\ ToSet(r) = ToSet(s) \ {s[k]}
  <2>1. \A i, j \in 1 .. m : s[i] = s[j] => i = j
    BY <1>3, <1>5
  <2>2. IsInjective(r)
    BY <2>1, <1>1, <1>2, <1>4
  <2>3. ASSUME NEW i \in 1 .. (m - 1)
        PROVE  r[i] \in ToSet(s) \ {s[k]}
    <3>1. CASE i < k
      <4>1. i \in 1 .. m /\ i # k /\ r[i] = s[i]
        BY <3>1, <1>1, <1>2
      <4> QED BY <4>1, <2>1, <1>2, <1>3
    <3>2. CASE i >= k
      <4>1. i + 1 \in 1 .. m /\ i + 1 # k /\ r[i] = s[i + 1]
        BY <3>2, <1>1, <1>2
      <4> QED BY <4>1, <2>1, <1>2, <1>3
    <3> QED BY <3>1, <3>2, <1>2
  <2>4. ASSUME NEW i \in 1 .. m, i # k
        PROVE  s[i] \in ToSet(r)
    <3>1. CASE i < k
      <4>1. i \in 1 .. (m - 1) /\ r[i] = s[i]
        BY <3>1, <1>1, <1>2
      <4> QED BY <4>1, <1>4
    <3>2. CASE i > k
      <4>1. i - 1 \in 1 .. (m - 1) /\ r[i - 1] = s[(i - 1) + 1] /\ (i - 1) + 1 = i
        BY <3>2, <1>1, <1>2
      <4> QED BY <4>1, <1>4
    <3> QED BY <3>1, <3>2, <2>4, <1>2
  <2>5. ASSUME NEW x PROVE x \in ToSet(r) <=> x \in ToSet(s) \ {s[k]}
    <3>1. ASSUME x \in ToSet(r) PROVE x \in ToSet(s) \ {s[k]}
      BY <3>1, <2>3, <1>4
    <3>2. ASSUME x \in ToSet(s) \ {s[k]} PROVE x \in ToSet(r)
      BY <3>2, <2>4, <1>3
    <3> QED BY <3>1, <3>2
  <2> QED BY <2>2, <2>5
<1> QED BY <1>1, <1>5 DEF r, m

\* One element put at the end, as push_back and splice to end() do.
LEMMA AppendNode ==
    ASSUME NEW S, NEW s \in Seq(S), NEW x \in S
    PROVE  LET r == Append(s, x)
           IN
           /\ r \in Seq(S)
           /\ Len(r) = Len(s) + 1
           /\ r[Len(s) + 1] = x
           /\ \A i \in 1 .. Len(s) : r[i] = s[i]
           /\ ToSet(r) = ToSet(s) \cup {x}
           /\ IsInjective(s) /\ x \notin ToSet(s) => IsInjective(r)
<1> DEFINE r == Append(s, x)
           n == Len(s)
<1>1. /\ r \in Seq(S) /\ Len(r) = n + 1 /\ n \in Nat
      /\ r[n + 1] = x
      /\ \A i \in 1 .. n : r[i] = s[i]
  OBVIOUS
<1> HIDE DEF r, n
<1>2. /\ \A y : y \in ToSet(s) <=> \E i \in 1 .. n : s[i] = y
      /\ IsInjective(s) <=> \A i, j \in 1 .. n : s[i] = s[j] => i = j
  BY SequenceElements DEF n
<1>3. /\ \A y : y \in ToSet(r) <=> \E i \in 1 .. (n + 1) : r[i] = y
      /\ IsInjective(r) <=> \A i, j \in 1 .. (n + 1) : r[i] = r[j] => i = j
  <2>1. r \in Seq(S) /\ Len(r) = n + 1
    BY <1>1
  <2> QED BY <2>1, SequenceElements
<1>4. ASSUME NEW y PROVE y \in ToSet(r) <=> y \in ToSet(s) \cup {x}
  <2>1. ASSUME NEW i \in 1 .. (n + 1), r[i] = y
        PROVE  y \in ToSet(s) \cup {x}
    BY <2>1, <1>1, <1>2
  <2>2. ASSUME NEW i \in 1 .. n, s[i] = y
        PROVE  y \in ToSet(r)
    <3>1. i \in 1 .. (n + 1) /\ r[i] = y
      BY <2>2, <1>1
    <3> QED BY <3>1, <1>3
  <2>3. n + 1 \in 1 .. (n + 1) /\ r[n + 1] = x
    BY <1>1
  <2> QED BY <2>1, <2>2, <2>3, <1>2, <1>3
<1>5. IsInjective(s) /\ x \notin ToSet(s) => IsInjective(r)
  BY <1>1, <1>2, <1>3
<1> QED BY <1>1, <1>4, <1>5 DEF r, n

\* One element put in front, as a preempted request is.
LEMMA PrependNode ==
    ASSUME NEW S, NEW s \in Seq(S), NEW x \in S
    PROVE  LET r == <<x>> \o s
           IN
           /\ r \in Seq(S)
           /\ Len(r) = Len(s) + 1
           /\ ToSet(r) = ToSet(s) \cup {x}
           /\ IsInjective(s) /\ x \notin ToSet(s) => IsInjective(r)
<1>1. /\ <<x>> \in Seq(S) /\ Len(<<x>>) = 1
      /\ ToSet(<<x>>) = {x} /\ IsInjective(<<x>>)
  BY DEF ToSet, IsInjective
<1> HIDE DEF ToSet, IsInjective
<1>2. /\ <<x>> \o s \in Seq(S)
      /\ Len(<<x>> \o s) = Len(<<x>>) + Len(s)
      /\ ToSet(<<x>> \o s) = ToSet(<<x>>) \cup ToSet(s)
      /\ (/\ IsInjective(<<x>>)
          /\ IsInjective(s)
          /\ ToSet(<<x>>) \cap ToSet(s) = {}) => IsInjective(<<x>> \o s)
  BY <1>1, JoinSequences
<1>3. ToSet(<<x>> \o s) = ToSet(s) \cup {x}
  BY <1>1, <1>2
<1>4. IsInjective(s) /\ x \notin ToSet(s) => IsInjective(<<x>> \o s)
  BY <1>1, <1>2
<1>5. Len(s) \in Nat
  OBVIOUS
<1>6. Len(<<x>> \o s) = Len(s) + 1
  BY <1>1, <1>2, <1>5
<1> QED BY <1>2, <1>3, <1>4, <1>6

\* The last element taken away, as from running_ by a preemption.
LEMMA DropLast ==
    ASSUME NEW S, NEW s \in Seq(S), s # <<>>
    PROVE  /\ Front(s) \in Seq(S)
           /\ Len(Front(s)) = Len(s) - 1
           /\ \A i \in 1 .. (Len(s) - 1) : Front(s)[i] = s[i]
           /\ Last(s) \in ToSet(s) /\ Last(s) = s[Len(s)]
           /\ IsInjective(s) =>
                 IsInjective(Front(s)) /\ ToSet(Front(s)) = ToSet(s) \ {Last(s)}
<1> DEFINE n == Len(s)
           r == RemoveAt(s, n)
<1>1. n \in 1 .. n /\ n \in Nat
  OBVIOUS
<1>2. /\ Front(s) \in Seq(S) /\ Len(Front(s)) = n - 1
      /\ \A i \in 1 .. (n - 1) : Front(s)[i] = s[i]
  <2> DEFINE f == SubSeq(s, 1, n - 1)
  <2>1. \A m \in 0 .. n : SubSeq(s, 1, m) \in Seq(S) /\ Len(SubSeq(s, 1, m)) = m
    BY CutSequence
  <2>2. f \in Seq(S) /\ Len(f) = n - 1
    <3> DEFINE k == n - 1
    <3>1. k \in 0 .. n
      BY <1>1
    <3> HIDE DEF k
    <3>2. SubSeq(s, 1, k) \in Seq(S) /\ Len(SubSeq(s, 1, k)) = k
      BY <2>1, <3>1
    <3> QED BY <3>2 DEF k
  <2>3. \A i \in 1 .. (n - 1) : f[i] = s[i]
    OBVIOUS
  <2> QED BY <2>2, <2>3 DEF Front
<1>3. Last(s) = s[n]
  BY DEF Last
<1>4. Last(s) \in ToSet(s)
  BY <1>1, <1>3, SequenceElements
<1>5. /\ r \in Seq(S)
      /\ Len(r) = n - 1
      /\ \A i \in 1 .. (n - 1) : r[i] = IF i < n THEN s[i] ELSE s[i + 1]
      /\ IsInjective(s) => IsInjective(r) /\ ToSet(r) = ToSet(s) \ {s[n]}
  BY <1>1, EraseNode
<1> HIDE DEF r, n
<1>6. Front(s) = r
  BY <1>1, <1>2, <1>5
<1> QED BY <1>2, <1>3, <1>4, <1>5, <1>6 DEF n

\* The first element taken away, as from the queue of the admitted request.
LEMMA DropFirst ==
    ASSUME NEW S, NEW s \in Seq(S), s # <<>>
    PROVE  /\ Tail(s) \in Seq(S)
           /\ Len(Tail(s)) = Len(s) - 1
           /\ Head(s) \in S /\ Head(s) \in ToSet(s)
           /\ IsInjective(s) =>
                 IsInjective(Tail(s)) /\ ToSet(Tail(s)) = ToSet(s) \ {Head(s)}
<1> DEFINE n == Len(s)
           r == RemoveAt(s, 1)
<1>1. 1 \in 1 .. n /\ n \in Nat
  OBVIOUS
<1>2. /\ Tail(s) \in Seq(S) /\ Len(Tail(s)) = n - 1
      /\ \A i \in 1 .. (n - 1) : Tail(s)[i] = s[i + 1]
      /\ Head(s) = s[1]
  OBVIOUS
<1>3. s[1] \in S /\ s[1] \in ToSet(s)
  BY <1>1, SequenceElements
<1>4. /\ r \in Seq(S)
      /\ Len(r) = n - 1
      /\ \A i \in 1 .. (n - 1) : r[i] = IF i < 1 THEN s[i] ELSE s[i + 1]
      /\ IsInjective(s) => IsInjective(r) /\ ToSet(r) = ToSet(s) \ {s[1]}
  BY <1>1, EraseNode
<1> HIDE DEF r, n
<1>5. Tail(s) = r
  BY <1>1, <1>2, <1>4
<1> QED BY <1>2, <1>3, <1>4, <1>5 DEF n

\* A set of natural numbers that is not empty has a least element: the induction
\* that the proofs about sequences need, stated for a set.
LEMMA LeastNumber ==
    ASSUME NEW T \in SUBSET Nat, T # {}
    PROVE  \E x \in T : \A y \in T : x <= y
<1>1. IsWellFoundedOn(OpToRel(<, Nat), Nat)
  BY NatLessThanWellFounded
<1>2. PICK x \in T : \A y \in T : ~(<<y, x>> \in OpToRel(<, Nat))
  BY <1>1, WFMin
<1>3. \A y \in T : y \in Nat /\ x \in Nat /\ ~(y < x)
  BY <1>2 DEF OpToRel
<1> QED
  BY <1>3

\* What RemoveFirst takes away, if there is something to take.
LEMMA RemoveFirstNode ==
    ASSUME NEW S, NEW s \in Seq(S), NEW x
    PROVE  /\ Contains(s, x) => \E k \in 1 .. Len(s) :
                /\ s[k] = x
                /\ RemoveFirst(s, x) = RemoveAt(s, k)
           /\ ~ Contains(s, x) => RemoveFirst(s, x) = s
<1>1. CASE ~ Contains(s, x)
  BY <1>1, Zenon DEF Contains, RemoveFirst
<1>2. CASE Contains(s, x)
  <2> DEFINE I == {i \in 1 .. Len(s) : s[i] = x}
             k == CHOOSE i \in I : \A j \in I : i <= j
  <2>1. I # {} /\ I \in SUBSET Nat
    BY <1>2 DEF Contains
  <2>2. \E i \in I : \A j \in I : i <= j
    <3> HIDE DEF I
    <3> QED BY <2>1, LeastNumber
  <2>3. k \in I
    <3> HIDE DEF I
    <3> QED BY <2>2
  <2>4. SelectInSeq(s, LAMBDA v : v = x) = k
    BY <2>1, Zenon DEF SelectInSeq, Min
  <2>5. RemoveFirst(s, x) = RemoveAt(s, SelectInSeq(s, LAMBDA v : v = x))
    BY <1>2, Zenon DEF RemoveFirst, Contains
  <2>6. k \in 1 .. Len(s) /\ s[k] = x
    BY <2>3
  <2> HIDE DEF k, I
  <2>7. RemoveFirst(s, x) = RemoveAt(s, k)
    BY <2>4, <2>5
  <2> QED
    BY <1>2, <2>6, <2>7
<1> QED
  BY <1>1, <1>2

\* How many elements of a sequence are in a set.
CountIn(s, S) == Cardinality({i \in DOMAIN s : s[i] \in S})

LEMMA CountInType ==
    ASSUME NEW E, NEW s \in Seq(E), NEW S
    PROVE  /\ IsFiniteSet({i \in DOMAIN s : s[i] \in S})
           /\ CountIn(s, S) \in Nat
           /\ CountIn(s, S) = 0 <=> \A i \in 1 .. Len(s) : s[i] \notin S
<1> DEFINE I == {i \in DOMAIN s : s[i] \in S}
<1>1. Len(s) \in Nat /\ DOMAIN s = 1 .. Len(s)
  OBVIOUS
<1>2. IsFiniteSet(1 .. Len(s))
  BY <1>1, FS_Interval
<1>3. I \in SUBSET (1 .. Len(s))
  BY <1>1
<1>4. (I = {}) <=> \A i \in 1 .. Len(s) : s[i] \notin S
  BY <1>1
<1>5. CountIn(s, S) = Cardinality(I)
  BY Zenon DEF CountIn
<1> HIDE DEF I
<1>6. IsFiniteSet(I)
  BY <1>2, <1>3, FS_Subset
<1>7. Cardinality(I) \in Nat /\ (Cardinality(I) = 0 <=> I = {})
  BY <1>6, FS_CardinalityType, FS_EmptySet
<1> QED
  BY <1>4, <1>5, <1>6, <1>7 DEF I

LEMMA CountInAppend ==
    ASSUME NEW E, NEW s \in Seq(E), NEW x \in E, NEW S
    PROVE  CountIn(Append(s, x), S) = CountIn(s, S) + IF x \in S THEN 1 ELSE 0
<1> DEFINE n == Len(s)
           t == Append(s, x)
           I == {i \in DOMAIN s : s[i] \in S}
           J == {i \in DOMAIN t : t[i] \in S}
<1>1. /\ n \in Nat /\ DOMAIN s = 1 .. n /\ DOMAIN t = 1 .. (n + 1)
      /\ t[n + 1] = x /\ \A i \in 1 .. n : t[i] = s[i]
  OBVIOUS
<1>2. n + 1 \notin I
  BY <1>1
<1>3. x \in S => J = I \cup {n + 1}
  BY <1>1
<1>4. x \notin S => J = I
  BY <1>1
<1>5. IsFiniteSet(I) /\ CountIn(s, S) \in Nat
  BY CountInType
<1>6. CountIn(s, S) = Cardinality(I) /\ CountIn(t, S) = Cardinality(J)
  BY Zenon DEF CountIn
<1> HIDE DEF I, J, n, t
<1>7. Cardinality(I \cup {n + 1}) = Cardinality(I) + 1
  BY <1>2, <1>5, FS_AddElement
<1>8. CASE x \in S
  <2>1. CountIn(t, S) = CountIn(s, S) + 1
    BY <1>3, <1>6, <1>7, <1>8, Zenon
  <2> QED
    BY <1>8, <2>1 DEF t
<1>9. CASE x \notin S
  <2>1. CountIn(t, S) = CountIn(s, S)
    BY <1>4, <1>6, <1>9, Zenon
  <2> QED
    BY <1>5, <1>9, <2>1 DEF t
<1> QED
  BY <1>8, <1>9

LEMMA CountInTail ==
    ASSUME NEW E, NEW s \in Seq(E), s # <<>>, NEW S
    PROVE  CountIn(s, S) = CountIn(Tail(s), S) + IF Head(s) \in S THEN 1 ELSE 0
<1> DEFINE n == Len(s)
           t == Tail(s)
           I == {i \in DOMAIN s : s[i] \in S}
           R == I \ {1}
           J == {i \in DOMAIN t : t[i] \in S}
           f == [i \in J |-> i + 1]
<1>1. /\ n \in Nat \ {0} /\ DOMAIN s = 1 .. n /\ DOMAIN t = 1 .. (n - 1)
      /\ s[1] = Head(s) /\ \A i \in 1 .. (n - 1) : t[i] = s[i + 1]
      /\ t \in Seq(E)
  OBVIOUS
<1>2. IsFiniteSet(I) /\ CountIn(s, S) \in Nat
  BY CountInType
<1>3. IsFiniteSet(J) /\ CountIn(t, S) \in Nat
  <2> HIDE DEF t
  <2> QED BY <1>1, CountInType
<1>4. CountIn(s, S) = Cardinality(I) /\ CountIn(t, S) = Cardinality(J)
  BY Zenon DEF CountIn
<1>5. f \in Bijection(J, R)
  <2>1. f \in [J -> R]
    BY <1>1
  <2>2. \A i, j \in J : f[i] = f[j] => i = j
    BY <1>1
  <2>3. ASSUME NEW r \in R PROVE \E i \in J : f[i] = r
    <3>1. r - 1 \in J
      BY <1>1
    <3>2. f[r - 1] = r
      BY <3>1, <1>1
    <3> QED BY <3>1, <3>2
  <2> HIDE DEF f, J, R
  <2> QED
    BY <2>1, <2>2, <2>3 DEF Bijection, Injection, Surjection, IsInjective
<1>6. 1 \in I <=> Head(s) \in S
  BY <1>1
<1> HIDE DEF I, J, n, t, f
<1>7. Cardinality(R) = Cardinality(J)
  <2> HIDE DEF R
  <2>1. ExistsBijection(J, R)
    BY <1>5 DEF ExistsBijection
  <2> QED BY <2>1, <1>3, FS_Bijection
<1>8. Cardinality(R) = IF 1 \in I THEN Cardinality(I) - 1 ELSE Cardinality(I)
  BY <1>2, FS_RemoveElement
<1>9. CountIn(s, S) = CountIn(t, S) + IF Head(s) \in S THEN 1 ELSE 0
  BY <1>2, <1>3, <1>4, <1>6, <1>7, <1>8
<1> QED
  BY <1>9 DEF t

\* What is cut off does not count if nothing counts in it.
LEMMA CountInPrefix ==
    ASSUME NEW E, NEW s \in Seq(E), NEW n \in 0 .. Len(s), NEW S,
           \A i \in 1 .. Len(s) : s[i] \in S => i <= n
    PROVE  CountIn(SubSeq(s, 1, n), S) = CountIn(s, S)
<1> DEFINE t == SubSeq(s, 1, n)
<1>1. /\ DOMAIN s = 1 .. Len(s) /\ DOMAIN t = 1 .. n /\ n \in Nat /\ n <= Len(s) /\ Len(s) \in Nat
      /\ \A i \in 1 .. n : t[i] = s[i]
  OBVIOUS
<1> HIDE DEF t
<1>2. {i \in DOMAIN t : t[i] \in S} = {i \in DOMAIN s : s[i] \in S}
  BY <1>1
<1>3. CountIn(t, S) = CountIn(s, S)
  BY <1>2, Zenon DEF CountIn
<1> QED
  BY <1>3 DEF t

\* A prefix counts no more than the whole.
LEMMA CountInCut ==
    ASSUME NEW E, NEW s \in Seq(E), NEW n \in 0 .. Len(s), NEW S
    PROVE  CountIn(SubSeq(s, 1, n), S) <= CountIn(s, S)
<1> DEFINE t == SubSeq(s, 1, n)
           I == {i \in DOMAIN s : s[i] \in S}
           J == {i \in DOMAIN t : t[i] \in S}
<1>1. /\ DOMAIN s = 1 .. Len(s) /\ DOMAIN t = 1 .. n /\ n \in Nat /\ n <= Len(s) /\ Len(s) \in Nat
      /\ \A i \in 1 .. n : t[i] = s[i]
  OBVIOUS
<1> HIDE DEF t
<1>2. J \subseteq I
  BY <1>1
<1>3. IsFiniteSet(I)
  <2>1. IsFiniteSet(1 .. Len(s)) /\ I \subseteq 1 .. Len(s)
    BY <1>1, FS_Interval
  <2> QED BY <2>1, FS_Subset
<1>4. Cardinality(J) <= Cardinality(I)
  BY <1>2, <1>3, FS_Subset
<1>5. CountIn(s, S) = Cardinality(I) /\ CountIn(t, S) = Cardinality(J)
  BY Zenon DEF CountIn
<1> QED
  BY <1>4, <1>5 DEF t

\* What a prefix says of the elements.
LEMMA PrefixElements ==
    ASSUME NEW S, NEW s \in Seq(S), NEW t \in Seq(S), IsPrefix(s, t)
    PROVE  \A i \in 1 .. Len(s) : i \in 1 .. Len(t) /\ t[i] = s[i]
<1>1. Len(s) \in Nat /\ Len(t) \in Nat /\ Len(s) <= Len(t)
  BY DEF IsPrefix
<1>2. \A i \in 1 .. Len(s) : SubSeq(s, 1, Len(s))[i] = s[i] /\ SubSeq(t, 1, Len(s))[i] = t[i]
  BY <1>1
<1>3. SubSeq(s, 1, Len(s)) = SubSeq(t, 1, Len(s))
  BY DEF IsPrefix
<1> QED BY <1>1, <1>2, <1>3

-----------------------------------------------------------------------------
(* Induction and recursion on the numbers up to n, in the form of sets and  *)
(* functions.                                                               *)

\* What holds of 0 and is inherited by the next number holds up to n.
LEMMA InductionUpTo ==
    ASSUME NEW n \in Nat, NEW T, 0 \in T, \A i \in 0 .. (n - 1) : i \in T => i + 1 \in T
    PROVE  \A i \in 0 .. n : i \in T
<1> DEFINE Bad == {i \in Nat : i <= n /\ i \notin T}
<1>1. Bad \in SUBSET Nat
  OBVIOUS
<1>2. ASSUME Bad # {} PROVE FALSE
  <2>1. PICK k \in Bad : \A y \in Bad : k <= y
    <3> HIDE DEF Bad
    <3> QED BY <1>1, <1>2, LeastNumber
  <2>2. k \in Nat /\ k <= n /\ k \notin T /\ k # 0
    BY <2>1
  <2>3. k - 1 \in Nat /\ k - 1 \notin Bad
    <3> HIDE DEF Bad
    <3> QED BY <2>1, <2>2
  <2>4. k - 1 \in T
    BY <2>2, <2>3
  <2>5. k - 1 \in 0 .. (n - 1) /\ (k - 1) + 1 = k
    BY <2>2
  <2> QED BY <2>2, <2>4, <2>5
<1> QED BY <1>2

\* A recursion on these numbers has a solution; h[i] makes the value for i out of
\* the one before.
Recursion(g, n, base, h) ==
    \A i \in 0 .. n : g[i] = IF i = 0 THEN base ELSE h[i][g[i - 1]]

LEMMA RecursionUpTo ==
    ASSUME NEW V, NEW base \in V, NEW n \in Nat, NEW h \in [1 .. n -> [V -> V]]
    PROVE  \E g \in [0 .. n -> V] : Recursion(g, n, base, h)
<1> DEFINE Solves(g, k) == \A i \in 0 .. k : g[i] = IF i = 0 THEN base ELSE h[i][g[i - 1]]
           T == {k \in 0 .. n : \E g \in [0 .. n -> V] : Solves(g, k)}
<1>1. 0 \in T
  <2> DEFINE g == [i \in 0 .. n |-> base]
  <2>1. g \in [0 .. n -> V] /\ g[0] = base
    OBVIOUS
  <2>2. Solves(g, 0)
    BY <2>1
  <2> HIDE DEF g, Solves
  <2>3. \E f \in [0 .. n -> V] : Solves(f, 0)
    BY <2>1, <2>2
  <2> QED BY <2>3
<1>2. ASSUME NEW k \in 0 .. (n - 1), k \in T PROVE k + 1 \in T
  <2>1. PICK g \in [0 .. n -> V] : Solves(g, k)
    BY <1>2
  <2> DEFINE f == [i \in 0 .. n |-> IF i = k + 1 THEN h[k + 1][g[k]] ELSE g[i]]
  <2>2. k + 1 \in 1 .. n /\ k \in 0 .. n /\ g[k] \in V /\ h[k + 1][g[k]] \in V
    BY <2>1
  <2>3. f \in [0 .. n -> V]
    BY <2>2
  <2>4. Solves(f, k + 1)
    <3> SUFFICES ASSUME NEW i \in 0 .. (k + 1)
                 PROVE  f[i] = IF i = 0 THEN base ELSE h[i][f[i - 1]]
      OBVIOUS
    <3>1. CASE i = k + 1
      <4>1. i - 1 = k /\ i # 0 /\ i \in 0 .. n /\ k # k + 1
        BY <1>2, <3>1
      <4>2. f[i] = h[i][g[k]] /\ f[k] = g[k]
        BY <2>2, <3>1, <4>1
      <4> HIDE DEF f
      <4> QED BY <4>1, <4>2
    <3>2. CASE i # k + 1
      <4>1. i \in 0 .. k /\ i \in 0 .. n
        BY <1>2, <3>2
      <4>2. f[i] = g[i] /\ (i # 0 => f[i - 1] = g[i - 1])
        BY <1>2, <4>1
      <4>3. g[i] = IF i = 0 THEN base ELSE h[i][g[i - 1]]
        BY <2>1, <4>1
      <4> HIDE DEF f
      <4> QED BY <4>2, <4>3
    <3> QED BY <3>1, <3>2
  <2> HIDE DEF f, Solves
  <2> QED BY <2>2, <2>3, <2>4
<1>3. n \in T
  <2> HIDE DEF T
  <2>1. \A i \in 0 .. n : i \in T
    BY <1>1, <1>2, InductionUpTo
  <2> QED BY <2>1
<1> QED BY <1>3 DEF Recursion

\* The largest of some numbers up to n.
LEMMA LargestUpTo ==
    ASSUME NEW n \in Nat, NEW T \in SUBSET (0 .. n), T # {}
    PROVE  \E x \in T : \A y \in T : x >= y
<1> DEFINE R == {n - y : y \in T}
<1>1. R \in SUBSET Nat /\ R # {}
  <2>1. \A y \in T : n - y \in Nat
    OBVIOUS
  <2>2. PICK y \in T : TRUE
    OBVIOUS
  <2>3. n - y \in R
    OBVIOUS
  <2> QED BY <2>1, <2>3
<1>2. PICK m \in R : \A z \in R : m <= z
  <2> HIDE DEF R
  <2> QED BY <1>1, LeastNumber
<1>3. PICK x \in T : m = n - x
  BY <1>2
<1>4. ASSUME NEW y \in T PROVE x >= y
  <2>1. n - y \in R /\ y \in Nat /\ x \in Nat
    OBVIOUS
  <2>2. n - x <= n - y
    <3> HIDE DEF R
    <3> QED BY <1>2, <1>3, <2>1
  <2> QED BY <2>1, <2>2
<1> QED BY <1>4

-----------------------------------------------------------------------------
(* Numbers.                                                                 *)

LEMMA Product ==
    ASSUME NEW r \in Nat, NEW n \in Nat, r < n, NEW s \in Nat
    PROVE  r * s \in Nat /\ n * s \in Nat /\ r * s + s <= n * s
<1>1. PICK k \in Nat : n = r + 1 + k
  <2>1. n - r - 1 \in Nat /\ n = r + 1 + (n - r - 1)
    OBVIOUS
  <2> QED BY <2>1
<1>2. n * s = r * s + s + k * s /\ k * s \in Nat /\ r * s \in Nat
  BY <1>1
<1> QED
  BY <1>2

\* Quotient and remainder are unique.
LEMMA SlotParts ==
    ASSUME NEW s \in Nat \ {0}, NEW b1 \in Nat, NEW b2 \in Nat,
           NEW r1 \in 0 .. s - 1, NEW r2 \in 0 .. s - 1,
           b1 * s + r1 = b2 * s + r2
    PROVE  b1 = b2 /\ r1 = r2
<1>1. ASSUME NEW x \in Nat, NEW y \in Nat, x < y PROVE x * s + s <= y * s
  <2>1. x + 1 <= y
    BY <1>1
  <2>2. (x + 1) * s <= y * s
    BY <2>1
  <2> QED BY <2>2
<1>2. ~(b1 < b2)
  BY <1>1
<1>3. ~(b2 < b1)
  BY <1>1
<1>4. b1 = b2
  BY <1>2, <1>3
<1> QED BY <1>4

LEMMA QuotientAndRest ==
    ASSUME NEW s \in Nat \ {0}, NEW q \in Nat, NEW r \in 0 .. s - 1
    PROVE  (q * s + r) \div s = q /\ (q * s + r) % s = r
<1> DEFINE k == q * s + r
           x == k \div s
           y == k % s
<1>1. k \in Nat
  OBVIOUS
<1>2. x \in Nat /\ y \in 0 .. s - 1 /\ x * s + y = k
  <2> HIDE DEF k
  <2> QED BY <1>1
<1> HIDE DEF x, y
<1>3. x = q /\ y = r
  BY <1>2, SlotParts
<1> QED BY <1>3 DEF x, y

\* What the division of the code gives.
LEMMA Quotient ==
    ASSUME NEW s \in Nat \ {0}, NEW a \in Nat
    PROVE  /\ a \div s \in Nat /\ a % s \in 0 .. s - 1
           /\ a = (a \div s) * s + (a % s)
           /\ (a \div s) * s \in Nat
           /\ (a \div s) * s <= a /\ a < (a \div s) * s + s
<1>1. /\ a \div s \in Nat /\ a % s \in 0 .. s - 1
      /\ a = (a \div s) * s + (a % s)
  OBVIOUS
<1>2. (a \div s) * s \in Nat
  BY <1>1
<1> QED BY <1>1, <1>2

\* The quotient is the number of whole steps.
LEMMA QuotientGrows ==
    ASSUME NEW s \in Nat \ {0}, NEW a \in Nat, NEW b \in Nat, a <= b
    PROVE  a \div s <= b \div s
<1> DEFINE x == a \div s
           y == b \div s
<1>1. x \in Nat /\ y \in Nat /\ x * s <= a /\ b < y * s + s /\ x * s \in Nat /\ y * s \in Nat
  BY Quotient
<1> HIDE DEF x, y
<1>2. ASSUME y < x PROVE FALSE
  <2>1. y * s + s <= x * s
    BY <1>1, <1>2, Product
  <2> QED BY <1>1, <2>1
<1> QED BY <1>1, <1>2 DEF x, y

LEMMA QuotientBelow ==
    ASSUME NEW s \in Nat \ {0}, NEW a \in Nat, NEW n \in Nat, a < n * s
    PROVE  a \div s < n
<1> DEFINE x == a \div s
<1>1. x \in Nat /\ x * s <= a /\ x * s \in Nat
  BY Quotient
<1> HIDE DEF x
<1>2. ASSUME n < x PROVE FALSE
  <2>1. n * s + s <= x * s /\ n * s \in Nat
    BY <1>1, <1>2, Product
  <2> QED BY <1>1, <2>1
<1>3. x # n
  BY <1>1
<1> QED BY <1>1, <1>2, <1>3 DEF x

LEMMA QuotientOfSum ==
    ASSUME NEW s \in Nat \ {0}, NEW a \in Nat, NEW b \in Nat
    PROVE  (a \div s) + (b \div s) <= (a + b) \div s
<1> DEFINE x == a \div s
           y == b \div s
<1>1. x \in Nat /\ y \in Nat /\ x * s <= a /\ y * s <= b /\ x * s \in Nat /\ y * s \in Nat
  BY Quotient
<1> HIDE DEF x, y
<1>2. (x + y) * s = x * s + y * s
  BY <1>1
<1>3. (x + y) * s \in Nat /\ (x + y) * s <= a + b
  BY <1>1, <1>2
<1>4. ((x + y) * s) \div s <= (a + b) \div s
  BY <1>3, QuotientGrows
<1>5. ((x + y) * s + 0) \div s = x + y
  BY <1>1, QuotientAndRest
<1>6. ((x + y) * s + 0) = (x + y) * s
  BY <1>3
<1> QED BY <1>4, <1>5, <1>6 DEF x, y

\* What grows with every step grows.
LEMMA Growing ==
    ASSUME NEW n \in Nat, NEW f, \A i \in 0 .. n : f[i] \in Nat,
           \A i \in 0 .. n - 1 : f[i] < f[i + 1]
    PROVE  \A i, j \in 0 .. n : i < j => f[i] < f[j]
<1> DEFINE T == {k \in 0 .. n : \A i \in 0 .. n : i < k => f[i] < f[k]}
<1>1. 0 \in T
  OBVIOUS
<1>2. ASSUME NEW k \in 0 .. (n - 1), k \in T PROVE k + 1 \in T
  <2>1. k + 1 \in 0 .. n /\ k \in 0 .. n /\ f[k] < f[k + 1] /\ f[k] \in Nat /\ f[k + 1] \in Nat
    OBVIOUS
  <2>2. ASSUME NEW i \in 0 .. n, i < k + 1 PROVE f[i] < f[k + 1]
    <3>1. f[i] \in Nat /\ (i = k \/ i < k)
      BY <1>2, <2>2
    <3>2. i < k => f[i] < f[k]
      BY <1>2
    <3> HIDE DEF T
    <3> QED BY <2>1, <3>1, <3>2
  <2> QED BY <2>1, <2>2
<1> HIDE DEF T
<1>3. \A j \in 0 .. n : j \in T
  BY <1>1, <1>2, InductionUpTo
<1> QED BY <1>3 DEF T

-----------------------------------------------------------------------------
(* Sums over finite sets, as the library's fold defines them, element by    *)
(* element.                                                                 *)

Pick(s) == CHOOSE x \in s : TRUE

\* The fold's equation, for the sums of f over the subsets of S.
FoldEquation(g, f, S) ==
    g = [s \in SUBSET S |-> IF s = {} THEN 0 ELSE f[Pick(s)] + g[s \ {Pick(s)}]]

FoldOf(f, S) == CHOOSE g : FoldEquation(g, f, S)

\* What is left of a finite set without one element.
LEMMA OneLess ==
  ASSUME NEW S, IsFiniteSet(S), NEW s \in SUBSET S
  PROVE  /\ IsFiniteSet(s) /\ Cardinality(s) \in Nat
         /\ s # {} => Pick(s) \in s /\ Cardinality(s) # 0
         /\ \A x \in s : s \ {x} \in SUBSET S /\ Cardinality(s \ {x}) = Cardinality(s) - 1
<1>1. IsFiniteSet(s)
  BY FS_Subset
<1>2. Cardinality(s) \in Nat /\ (Cardinality(s) = 0 <=> s = {})
  BY <1>1, FS_CardinalityType, FS_EmptySet
<1>3. s # {} => Pick(s) \in s
  BY Zenon DEF Pick
<1>4. \A x \in s : Cardinality(s \ {x}) = Cardinality(s) - 1
  BY <1>1, FS_RemoveElement
<1> QED
  BY <1>1, <1>2, <1>3, <1>4

\* The fold's equation has a solution over a finite set: one for the subsets of
\* at most n elements, for every n.
LEMMA FoldExists ==
  ASSUME NEW f, NEW S, IsFiniteSet(S)
  PROVE  FoldEquation(FoldOf(f, S), f, S)
<1> DEFINE Step(g, s) == IF s = {} THEN 0 ELSE f[Pick(s)] + g[s \ {Pick(s)}]
           Level(n) == {s \in SUBSET S : Cardinality(s) <= n}
           Solves(g, n) == /\ g = [s \in SUBSET S |-> g[s]]
                           /\ \A s \in Level(n) : g[s] = Step(g, s)
           Bad == {n \in Nat : ~ \E g : Solves(g, n)}
<1>1. Bad = {}
  <2>1. SUFFICES ASSUME Bad # {} PROVE FALSE
    OBVIOUS
  <2>2. PICK n \in Bad : \A m \in Bad : n <= m
    <3>1. Bad \in SUBSET Nat
      OBVIOUS
    <3> HIDE DEF Bad
    <3> QED
      BY <2>1, <3>1, LeastNumber
  <2>3. CASE n = 0
    <3> DEFINE zero == [s \in SUBSET S |-> 0]
    <3>1. \A s \in Level(0) : s = {}
      BY OneLess
    <3>2. {} \in SUBSET S /\ zero = [s \in SUBSET S |-> zero[s]]
      OBVIOUS
    <3>3. \A s \in Level(0) : zero[s] = Step(zero, s)
      BY <3>1
    <3>4. Solves(zero, 0)
      BY <3>2, <3>3
    <3> QED
      BY <2>2, <2>3, <3>4
  <2>4. CASE n # 0
    <3>1. n \in Nat /\ n - 1 \in Nat /\ n - 1 \notin Bad
      <4>1. n \in Nat
        BY <2>2
      <4> HIDE DEF Bad
      <4> QED
        BY <2>2, <2>4, <4>1
    <3>2. PICK g : Solves(g, n - 1)
      BY <3>1
    <3> DEFINE h == [s \in SUBSET S |-> IF Cardinality(s) <= n - 1 THEN g[s] ELSE Step(g, s)]
    <3>3. ASSUME NEW s \in Level(n) PROVE h[s] = Step(h, s)
      <4>1. CASE s = {}
        <5>1. h[s] = IF Cardinality(s) <= n - 1 THEN g[s] ELSE Step(g, s)
          OBVIOUS
        <5>2. Step(g, s) = 0 /\ Step(h, s) = 0
          BY <4>1
        <5>3. Cardinality(s) <= n - 1 => g[s] = Step(g, s)
          BY <3>2
        <5> QED
          BY <5>1, <5>2, <5>3
      <4>2. CASE s # {}
        <5> DEFINE r == s \ {Pick(s)}
        <5>1. /\ s \in SUBSET S /\ r \in SUBSET S /\ Cardinality(s) \in Nat
              /\ Cardinality(s) <= n /\ Cardinality(r) = Cardinality(s) - 1
          BY <4>2, OneLess
        <5>2. Cardinality(r) <= n - 1
          BY <3>1, <5>1
        <5>3. h[r] = g[r]
          BY <5>1, <5>2
        <5>4. Step(g, s) = f[Pick(s)] + g[r] /\ Step(h, s) = f[Pick(s)] + h[r]
          BY <4>2
        <5>5. h[s] = IF Cardinality(s) <= n - 1 THEN g[s] ELSE Step(g, s)
          BY <5>1
        <5>6. Cardinality(s) <= n - 1 => g[s] = Step(g, s)
          BY <3>2, <5>1
        <5> HIDE DEF h, r, Step
        <5> QED
          BY <5>3, <5>4, <5>5, <5>6
      <4> QED
        BY <4>1, <4>2
    <3>4. h = [s \in SUBSET S |-> h[s]]
      OBVIOUS
    <3>5. Solves(h, n)
      BY <3>3, <3>4
    <3> QED
      BY <2>2, <3>5
  <2> QED
    BY <2>3, <2>4
<1>2. PICK g : Solves(g, Cardinality(S))
  <2>1. Cardinality(S) \in Nat
    BY FS_CardinalityType
  <2> QED
    BY <1>1, <2>1
<1>3. ASSUME NEW s \in SUBSET S PROVE s \in Level(Cardinality(S))
  BY FS_Subset
<1>4. FoldEquation(g, f, S)
  <2>1. \A s \in SUBSET S : g[s] = Step(g, s)
    BY <1>2, <1>3
  <2>2. g = [s \in SUBSET S |-> g[s]]
    BY <1>2
  <2>3. g = [s \in SUBSET S |-> Step(g, s)]
    <3> HIDE DEF Step
    <3> QED
      BY <2>1, <2>2
  <2> QED
    BY <2>3, Zenon DEF FoldEquation
<1> QED
  BY <1>4, Zenon DEF FoldOf

\* Two folds over sets of which one contains the other agree on what they share.
LEMMA FoldsAgree ==
  ASSUME NEW f, NEW g, NEW S, NEW T, S \subseteq T, IsFiniteSet(T),
         \A x \in S : f[x] = g[x]
  PROVE  FoldOf(f, S)[S] = FoldOf(g, T)[S]
<1> DEFINE F == FoldOf(f, S)
           G == FoldOf(g, T)
           Bad == {s \in SUBSET S : F[s] # G[s]}
           Sizes == {Cardinality(s) : s \in Bad}
<1>1. IsFiniteSet(S)
  BY FS_Subset
<1>2. FoldEquation(F, f, S) /\ FoldEquation(G, g, T)
  BY <1>1, FoldExists
<1> HIDE DEF F, G
<1>3. Bad = {}
  <2>1. SUFFICES ASSUME Bad # {} PROVE FALSE
    OBVIOUS
  <2>2. Sizes \in SUBSET Nat /\ Sizes # {}
    BY <1>1, <2>1, OneLess
  <2>3. PICK s \in Bad : \A r \in Bad : Cardinality(s) <= Cardinality(r)
    <3>1. PICK n \in Sizes : \A m \in Sizes : n <= m
      <4> HIDE DEF Sizes
      <4> QED
        BY <2>2, LeastNumber
    <3> QED
      BY <3>1
  <2>4. s \in SUBSET S /\ s \in SUBSET T
    BY <2>3
  <2>5. F[s] = (IF s = {} THEN 0 ELSE f[Pick(s)] + F[s \ {Pick(s)}])
    BY <1>2, <2>4 DEF FoldEquation
  <2>6. G[s] = (IF s = {} THEN 0 ELSE g[Pick(s)] + G[s \ {Pick(s)}])
    BY <1>2, <2>4 DEF FoldEquation
  <2>7. s # {}
    BY <2>3, <2>5, <2>6
  <2>8. /\ Pick(s) \in s /\ s \ {Pick(s)} \in SUBSET S /\ Cardinality(s) \in Nat
        /\ Cardinality(s \ {Pick(s)}) = Cardinality(s) - 1
    BY <1>1, <2>4, <2>7, OneLess
  <2>9. s \ {Pick(s)} \notin Bad
    <3> HIDE DEF Bad
    <3> QED
      BY <2>3, <2>8
  <2>10. F[s \ {Pick(s)}] = G[s \ {Pick(s)}]
    BY <2>8, <2>9
  <2>11. f[Pick(s)] = g[Pick(s)]
    BY <2>4, <2>8
  <2>12. F[s] = G[s]
    BY <2>5, <2>6, <2>7, <2>10, <2>11
  <2> QED
    BY <2>3, <2>12
<1> QED
  BY <1>3 DEF F, G

LEMMA FoldType ==
  ASSUME NEW f, NEW S, IsFiniteSet(S), \A x \in S : f[x] \in Nat
  PROVE  \A s \in SUBSET S : FoldOf(f, S)[s] \in Nat
<1> DEFINE F == FoldOf(f, S)
           Bad == {s \in SUBSET S : F[s] \notin Nat}
           Sizes == {Cardinality(s) : s \in Bad}
<1>1. FoldEquation(F, f, S)
  BY FoldExists
<1> HIDE DEF F
<1>2. Bad = {}
  <2>1. SUFFICES ASSUME Bad # {} PROVE FALSE
    OBVIOUS
  <2>2. Sizes \in SUBSET Nat /\ Sizes # {}
    BY <2>1, OneLess
  <2>3. PICK s \in Bad : \A r \in Bad : Cardinality(s) <= Cardinality(r)
    <3>1. PICK n \in Sizes : \A m \in Sizes : n <= m
      <4> HIDE DEF Sizes
      <4> QED
        BY <2>2, LeastNumber
    <3> QED
      BY <3>1
  <2>4. s \in SUBSET S
    BY <2>3
  <2>5. F[s] = (IF s = {} THEN 0 ELSE f[Pick(s)] + F[s \ {Pick(s)}])
    BY <1>1, <2>4 DEF FoldEquation
  <2>6. s # {}
    BY <2>3, <2>5
  <2>7. /\ Pick(s) \in s /\ s \ {Pick(s)} \in SUBSET S /\ Cardinality(s) \in Nat
        /\ Cardinality(s \ {Pick(s)}) = Cardinality(s) - 1
    BY <2>4, <2>6, OneLess
  <2>8. s \ {Pick(s)} \notin Bad
    <3> HIDE DEF Bad
    <3> QED
      BY <2>3, <2>7
  <2>9. F[s \ {Pick(s)}] \in Nat /\ f[Pick(s)] \in Nat
    BY <2>4, <2>7, <2>8
  <2> QED
    BY <2>3, <2>5, <2>6, <2>9
<1> QED
  BY <1>2 DEF F

\* Whichever element the fold takes first, any element may be taken first.
LEMMA FoldElement ==
  ASSUME NEW f, NEW S, IsFiniteSet(S), \A x \in S : f[x] \in Nat
  PROVE  \A s \in SUBSET S : \A y \in s :
            FoldOf(f, S)[s] = f[y] + FoldOf(f, S)[s \ {y}]
<1> DEFINE F == FoldOf(f, S)
           Bad == {s \in SUBSET S : \E y \in s : F[s] # f[y] + F[s \ {y}]}
           Sizes == {Cardinality(s) : s \in Bad}
<1>1. FoldEquation(F, f, S) /\ \A s \in SUBSET S : F[s] \in Nat
  BY FoldExists, FoldType
<1> HIDE DEF F
<1>2. Bad = {}
  <2>1. SUFFICES ASSUME Bad # {} PROVE FALSE
    OBVIOUS
  <2>2. Sizes \in SUBSET Nat /\ Sizes # {}
    BY <2>1, OneLess
  <2>3. PICK s \in Bad : \A r \in Bad : Cardinality(s) <= Cardinality(r)
    <3>1. PICK n \in Sizes : \A m \in Sizes : n <= m
      <4> HIDE DEF Sizes
      <4> QED
        BY <2>2, LeastNumber
    <3> QED
      BY <3>1
  <2>4. PICK y \in s : F[s] # f[y] + F[s \ {y}]
    BY <2>3
  <2> DEFINE p == Pick(s)
  <2>5. s \in SUBSET S /\ s # {} /\ p \in s /\ Cardinality(s) \in Nat
    BY <2>3, <2>4, OneLess
  <2>6. F[s] = f[p] + F[s \ {p}]
    BY <1>1, <2>5 DEF FoldEquation
  <2>7. /\ s \ {p} \in SUBSET S /\ Cardinality(s \ {p}) = Cardinality(s) - 1
        /\ s \ {y} \in SUBSET S /\ Cardinality(s \ {y}) = Cardinality(s) - 1
    BY <2>4, <2>5, OneLess
  <2>8. s \ {p} \notin Bad /\ s \ {y} \notin Bad
    <3> HIDE DEF Bad, p
    <3> QED
      BY <2>3, <2>5, <2>7
  <2>9. p # y
    BY <2>4, <2>6
  <2> DEFINE r == s \ {p, y}
  <2>10. (s \ {p}) \ {y} = r /\ (s \ {y}) \ {p} = r /\ y \in s \ {p} /\ p \in s \ {y}
    BY <2>4, <2>5, <2>9
  <2>11. F[s \ {p}] = f[y] + F[r]
    <3> HIDE DEF p, r, Bad
    <3>1. F[s \ {p}] = f[y] + F[(s \ {p}) \ {y}]
      BY <2>7, <2>8, <2>10 DEF Bad
    <3> QED
      BY <2>10, <3>1
  <2>12. F[s \ {y}] = f[p] + F[r]
    <3> HIDE DEF p, r, Bad
    <3>1. F[s \ {y}] = f[p] + F[(s \ {y}) \ {p}]
      BY <2>7, <2>8, <2>10 DEF Bad
    <3> QED
      BY <2>10, <3>1
  <2>13. f[p] \in Nat /\ f[y] \in Nat /\ F[r] \in Nat
    BY <1>1, <2>4, <2>5
  <2> HIDE DEF p, r
  <2> QED
    BY <2>4, <2>6, <2>11, <2>12, <2>13
<1> QED
  BY <1>2 DEF F

-----------------------------------------------------------------------------
(* Sums over finite sets, whose weights are a function, and what is shared  *)
(* out in an order.                                                         *)

SumOf(f, S) == FoldOf(f, S)[S]

\* The sum over a set is one element's value and the sum over the rest.
LEMMA SumElement ==
    ASSUME NEW f, NEW S, IsFiniteSet(S), \A x \in S : f[x] \in Nat
    PROVE  /\ SumOf(f, S) \in Nat
           /\ S = {} => SumOf(f, S) = 0
           /\ \A y \in S : SumOf(f, S) = f[y] + SumOf(f, S \ {y})
<1>1. S \in SUBSET S
  OBVIOUS
<1>2. SumOf(f, S) \in Nat
  BY <1>1, FoldType DEF SumOf
<1>3. ASSUME S = {} PROVE SumOf(f, S) = 0
  <2> DEFINE F == FoldOf(f, S)
  <2>1. FoldEquation(F, f, S)
    BY FoldExists
  <2> HIDE DEF F
  <2>2. F[S] = 0
    BY <1>1, <1>3, <2>1 DEF FoldEquation
  <2> QED BY <2>2 DEF SumOf, F
<1>4. ASSUME NEW y \in S PROVE SumOf(f, S) = f[y] + SumOf(f, S \ {y})
  <2>1. FoldOf(f, S)[S] = f[y] + FoldOf(f, S)[S \ {y}]
    <3>1. ASSUME NEW s \in SUBSET S, NEW x \in s
          PROVE  FoldOf(f, S)[s] = f[x] + FoldOf(f, S)[s \ {x}]
      BY FoldElement
    <3> QED BY <1>1, <3>1, Zenon
  <2>2. FoldOf(f, S)[S \ {y}] = FoldOf(f, S \ {y})[S \ {y}]
    <3>1. S \ {y} \subseteq S
      OBVIOUS
    <3> DEFINE R == S \ {y}
    <3> HIDE DEF R
    <3>2. FoldOf(f, R)[R] = FoldOf(f, S)[R]
      <4>1. R \subseteq S
        BY <3>1 DEF R
      <4> QED BY <4>1, FoldsAgree
    <3> QED BY <3>2 DEF R
  <2> QED BY <2>1, <2>2 DEF SumOf
<1> QED BY <1>2, <1>3, <1>4

\* Only the values on the set matter.
LEMMA SumAgrees ==
    ASSUME NEW f, NEW g, NEW S, IsFiniteSet(S), \A x \in S : f[x] = g[x]
    PROVE  SumOf(f, S) = SumOf(g, S)
<1>1. S \subseteq S
  OBVIOUS
<1> QED BY <1>1, FoldsAgree DEF SumOf

\* What holds of the empty set and of a set when it holds of all that have one
\* element less holds of every finite set; T are the sets of which it holds.
LEMMA InductionOnSets ==
    ASSUME NEW S, IsFiniteSet(S), NEW T, {} \in T,
           \A s \in SUBSET S : s # {} /\ (\A x \in s : s \ {x} \in T) => s \in T
    PROVE  S \in T
<1> DEFINE Bad == {s \in SUBSET S : s \notin T}
           Sizes == {Cardinality(s) : s \in Bad}
<1>1. SUFFICES ASSUME Bad # {} PROVE FALSE
  OBVIOUS
<1>2. Sizes \in SUBSET Nat /\ Sizes # {}
  BY <1>1, OneLess
<1>3. PICK s \in Bad : \A r \in Bad : Cardinality(s) <= Cardinality(r)
  <2>1. PICK n \in Sizes : \A m \in Sizes : n <= m
    <3> HIDE DEF Sizes
    <3> QED BY <1>2, LeastNumber
  <2> QED BY <2>1
<1>4. s \in SUBSET S /\ s # {} /\ s \notin T
  BY <1>3
<1>5. PICK x \in s : s \ {x} \notin T
  BY <1>4
<1>6. s \ {x} \in SUBSET S /\ Cardinality(s) \in Nat /\ Cardinality(s \ {x}) = Cardinality(s) - 1
  BY <1>4, <1>5, OneLess
<1>7. s \ {x} \notin Bad
  <2> HIDE DEF Bad
  <2> QED BY <1>3, <1>6
<1> QED BY <1>5, <1>6, <1>7

\* The sum over two sets that have nothing in common.
LEMMA SumUnion ==
    ASSUME NEW f, NEW S, NEW R, IsFiniteSet(S), IsFiniteSet(R), S \cap R = {},
           \A x \in S \cup R : f[x] \in Nat
    PROVE  SumOf(f, S \cup R) = SumOf(f, S) + SumOf(f, R)
<1> DEFINE T == {s \in SUBSET S : SumOf(f, s \cup R) = SumOf(f, s) + SumOf(f, R)}
<1>0. \A s \in SUBSET S : IsFiniteSet(s) /\ IsFiniteSet(s \cup R)
  BY FS_Subset, FS_Union
<1>1. \A s \in SUBSET S : SumOf(f, s) \in Nat
  BY <1>0, SumElement
<1>2. SumOf(f, R) \in Nat
  BY SumElement
<1>3. {} \in T
  <2>1. SumOf(f, {}) = 0
    <3>1. {} \in SUBSET S /\ \A x \in {} : f[x] \in Nat
      OBVIOUS
    <3> QED BY <1>0, <3>1, SumElement
  <2>2. {} \cup R = R
    OBVIOUS
  <2>3. SumOf(f, {} \cup R) = SumOf(f, {}) + SumOf(f, R)
    BY <1>2, <2>1, <2>2
  <2> QED BY <2>3
<1>4. ASSUME NEW s \in SUBSET S, NEW x \in s, s \ {x} \in T PROVE s \in T
  <2>1. SumOf(f, (s \ {x}) \cup R) = SumOf(f, s \ {x}) + SumOf(f, R)
    BY <1>4
  <2>2. (s \ {x}) \cup R = (s \cup R) \ {x} /\ x \in s \cup R
    OBVIOUS
  <2>3. SumOf(f, s) = f[x] + SumOf(f, s \ {x})
    BY <1>0, SumElement
  <2>4. SumOf(f, s \cup R) = f[x] + SumOf(f, (s \cup R) \ {x})
    <3> DEFINE U == s \cup R
    <3>1. IsFiniteSet(U) /\ x \in U /\ \A y \in U : f[y] \in Nat
      BY <1>0
    <3> HIDE DEF U
    <3>2. SumOf(f, U) = f[x] + SumOf(f, U \ {x})
      BY <3>1, SumElement
    <3> QED BY <3>2 DEF U
  <2>5. f[x] \in Nat /\ SumOf(f, s \ {x}) \in Nat
    BY <1>1
  <2>6. SumOf(f, s \cup R) = SumOf(f, s) + SumOf(f, R)
    <3>1. SumOf(f, (s \cup R) \ {x}) = SumOf(f, s \ {x}) + SumOf(f, R)
      BY <2>1, <2>2, Zenon
    <3> DEFINE a == SumOf(f, s \cup R)
               b == SumOf(f, (s \cup R) \ {x})
               c == SumOf(f, s \ {x})
    <3>2. a = f[x] + b /\ b = c + SumOf(f, R) /\ SumOf(f, s) = f[x] + c /\ c \in Nat /\ f[x] \in Nat
      BY <2>3, <2>4, <2>5, <3>1
    <3> HIDE DEF a, b, c
    <3>3. a = SumOf(f, s) + SumOf(f, R)
      BY <1>2, <3>2
    <3> QED BY <3>3 DEF a
  <2> QED BY <2>6
<1>5. S \in T
  <2> HIDE DEF T
  <2>1. \A s \in SUBSET S : s # {} /\ (\A x \in s : s \ {x} \in T) => s \in T
    BY <1>4
  <2> QED BY <1>3, <2>1, InductionOnSets
<1> QED BY <1>5

\* A part has at most the sum of the whole, and less if something is missing.
LEMMA SumOfPart ==
    ASSUME NEW f, NEW S, NEW R, IsFiniteSet(R), S \subseteq R, \A x \in R : f[x] \in Nat
    PROVE  /\ SumOf(f, S) \in Nat /\ SumOf(f, R) \in Nat
           /\ SumOf(f, S) <= SumOf(f, R)
           /\ \A x \in R \ S : f[x] > 0 => SumOf(f, S) < SumOf(f, R)
<1> DEFINE Q == R \ S
<1>1. /\ IsFiniteSet(S) /\ IsFiniteSet(Q) /\ S \cap Q = {} /\ S \cup Q = R
      /\ \A x \in S \cup Q : f[x] \in Nat
  BY FS_Subset
<1> HIDE DEF Q
<1>2. SumOf(f, R) = SumOf(f, S) + SumOf(f, Q)
  BY <1>1, SumUnion
<1>3. SumOf(f, S) \in Nat /\ SumOf(f, Q) \in Nat
  BY <1>1, SumElement
<1>4. ASSUME NEW x \in Q, f[x] > 0 PROVE SumOf(f, Q) > 0
  <2>1. SumOf(f, Q) = f[x] + SumOf(f, Q \ {x})
    BY <1>1, SumElement
  <2>2. SumOf(f, Q \ {x}) \in Nat
    <3>1. IsFiniteSet(Q \ {x}) /\ \A y \in Q \ {x} : f[y] \in Nat
      BY <1>1, FS_Subset
    <3> QED BY <3>1, SumElement
  <2> QED BY <1>1, <1>4, <2>1, <2>2
<1> QED BY <1>2, <1>3, <1>4 DEF Q

\* The sum of the sums over parts that have nothing in common.
LEMMA SumOfSums ==
    ASSUME NEW f, NEW I, IsFiniteSet(I), NEW P, \A i \in I : IsFiniteSet(P[i]),
           \A i, j \in I : i # j => P[i] \cap P[j] = {},
           \A i \in I : \A x \in P[i] : f[x] \in Nat,
           NEW g, \A i \in I : g[i] = SumOf(f, P[i]),
           NEW W, \A i \in I : P[i] \subseteq W, \A x \in W : \E i \in I : x \in P[i]
    PROVE  IsFiniteSet(W) /\ SumOf(g, I) = SumOf(f, W)
<1> DEFINE U(s) == UNION {P[i] : i \in s}
           T == {s \in SUBSET I : IsFiniteSet(U(s)) /\ SumOf(g, s) = SumOf(f, U(s))}
<1>1. \A i \in I : g[i] \in Nat
  BY SumElement
<1>2. {} \in T
  <2>1. U({}) = {} /\ IsFiniteSet({})
    BY FS_EmptySet
  <2>2. SumOf(f, {}) = 0 /\ SumOf(g, {}) = 0
    BY <2>1, SumElement
  <2> HIDE DEF U
  <2> QED BY <2>1, <2>2
<1>3. ASSUME NEW s \in SUBSET I, NEW i \in s, s \ {i} \in T PROVE s \in T
  <2> DEFINE r == s \ {i}
  <2>1. IsFiniteSet(U(r)) /\ SumOf(g, r) = SumOf(f, U(r))
    BY <1>3
  <2>2. U(s) = U(r) \cup P[i]
    OBVIOUS
  <2>3. U(r) \cap P[i] = {}
    OBVIOUS
  <2>4. \A x \in U(r) \cup P[i] : f[x] \in Nat
    OBVIOUS
  <2>5. IsFiniteSet(P[i]) /\ g[i] = SumOf(f, P[i]) /\ i \in I
    OBVIOUS
  <2>6. IsFiniteSet(s) /\ \A x \in s : g[x] \in Nat
    BY <1>1, FS_Subset
  <2> HIDE DEF U
  <2> DEFINE u == U(r)
             p == P[i]
  <2>7. SumOf(f, u \cup p) = SumOf(f, u) + SumOf(f, p)
    <3>1. /\ IsFiniteSet(u) /\ IsFiniteSet(p) /\ u \cap p = {}
          /\ \A x \in u \cup p : f[x] \in Nat
      BY <2>1, <2>3, <2>4, <2>5
    <3> HIDE DEF u, p
    <3> QED BY <3>1, SumUnion
  <2>8. SumOf(g, s) = g[i] + SumOf(g, r)
    BY <2>6, SumElement
  <2>9. IsFiniteSet(U(s))
    <3>1. IsFiniteSet(u) /\ IsFiniteSet(p)
      BY <2>1, <2>5
    <3> HIDE DEF u, p
    <3>2. IsFiniteSet(u \cup p)
      BY <3>1, FS_Union
    <3> QED BY <2>2, <3>2 DEF u, p
  <2>10. SumOf(f, u) \in Nat /\ SumOf(f, p) \in Nat
    <3>1. /\ IsFiniteSet(u) /\ IsFiniteSet(p)
          /\ (\A x \in u : f[x] \in Nat) /\ \A x \in p : f[x] \in Nat
      BY <2>1, <2>4, <2>5
    <3> HIDE DEF u, p
    <3> QED BY <3>1, SumElement
  <2>11. SumOf(g, s) = SumOf(f, U(s))
    <3>1. SumOf(f, U(s)) = SumOf(f, u) + SumOf(f, p)
      BY <2>2, <2>7
    <3>2. SumOf(g, s) = SumOf(f, p) + SumOf(f, u)
      BY <2>1, <2>5, <2>8
    <3> QED BY <2>10, <3>1, <3>2
  <2> QED BY <2>9, <2>11
<1>4. I \in T
  <2> HIDE DEF T
  <2> QED BY <1>2, <1>3, InductionOnSets
<1>5. U(I) = W
  OBVIOUS
<1> QED BY <1>4, <1>5

\* A recursion on the subsets of a finite set has a solution; h[x] makes the value
\* for a set out of the one for the set without its x.
SetRecursion(g, S, base, h) ==
    \A s \in SUBSET S : g[s] = IF s = {} THEN base ELSE h[Pick(s)][g[s \ {Pick(s)}]]

LEMMA RecursionOnSets ==
    ASSUME NEW V, NEW base \in V, NEW S, IsFiniteSet(S), NEW h \in [S -> [V -> V]]
    PROVE  \E g \in [SUBSET S -> V] : SetRecursion(g, S, base, h)
<1> DEFINE Step(g, s) == IF s = {} THEN base ELSE h[Pick(s)][g[s \ {Pick(s)}]]
           Level(n) == {s \in SUBSET S : Cardinality(s) <= n}
           Solves(g, n) == \A s \in Level(n) : g[s] = Step(g, s)
           T == {n \in 0 .. Cardinality(S) : \E g \in [SUBSET S -> V] : Solves(g, n)}
<1>1. Cardinality(S) \in Nat
  BY FS_CardinalityType
<1>2. ASSUME NEW g \in [SUBSET S -> V], NEW s \in SUBSET S PROVE Step(g, s) \in V
  <2>1. CASE s = {}
    BY <2>1
  <2>2. CASE s # {}
    <3>1. Pick(s) \in s /\ s \ {Pick(s)} \in SUBSET S
      BY <2>2, OneLess
    <3>2. Pick(s) \in S /\ g[s \ {Pick(s)}] \in V
      BY <3>1
    <3>3. h[Pick(s)][g[s \ {Pick(s)}]] \in V
      BY <3>2
    <3> QED BY <2>2, <3>3
  <2> QED BY <2>1, <2>2
<1>3. 0 \in T
  <2> DEFINE g == [s \in SUBSET S |-> base]
  <2>1. g \in [SUBSET S -> V] /\ \A s \in Level(0) : s = {}
    BY OneLess
  <2>2. Solves(g, 0)
    BY <2>1
  <2> HIDE DEF g, Solves
  <2> QED BY <1>1, <2>1, <2>2
<1>4. ASSUME NEW n \in 0 .. (Cardinality(S) - 1), n \in T PROVE n + 1 \in T
  <2>1. PICK g \in [SUBSET S -> V] : Solves(g, n)
    BY <1>4
  <2> DEFINE f == [s \in SUBSET S |-> IF Cardinality(s) <= n THEN g[s] ELSE Step(g, s)]
  <2>2. f \in [SUBSET S -> V]
    <3> HIDE DEF Step
    <3> QED BY <1>2
  <2>3. ASSUME NEW s \in Level(n + 1) PROVE f[s] = Step(f, s)
    <3>1. f[s] = IF Cardinality(s) <= n THEN g[s] ELSE Step(g, s)
      BY Zenon
    <3>2. Cardinality(s) <= n => g[s] = Step(g, s)
      BY <2>1
    <3>3. Step(f, s) = Step(g, s)
      <4>1. CASE s = {}
        BY <4>1
      <4>2. CASE s # {}
        <5> DEFINE r == s \ {Pick(s)}
        <5>1. /\ s \in SUBSET S /\ r \in SUBSET S /\ Cardinality(s) \in Nat
              /\ Cardinality(s) <= n + 1 /\ Cardinality(r) = Cardinality(s) - 1
          BY <4>2, OneLess
        <5>2. Cardinality(r) <= n
          BY <1>1, <5>1
        <5>3. f[r] = g[r]
          BY <5>1, <5>2
        <5>4. Step(g, s) = h[Pick(s)][g[r]] /\ Step(f, s) = h[Pick(s)][f[r]]
          BY <4>2, Zenon
        <5> HIDE DEF f, r, Step
        <5> QED BY <5>3, <5>4
      <4> QED BY <4>1, <4>2
    <3> HIDE DEF f, Step
    <3> QED BY <3>1, <3>2, <3>3
  <2>4. Solves(f, n + 1)
    <3> HIDE DEF f, Step
    <3> QED BY <2>3
  <2>5. n + 1 \in 0 .. Cardinality(S)
    BY <1>1
  <2> HIDE DEF f, Solves
  <2> QED BY <2>2, <2>4, <2>5
<1>5. Cardinality(S) \in T
  <2> HIDE DEF T
  <2>1. \A i \in 0 .. Cardinality(S) : i \in T
    BY <1>1, <1>3, <1>4, InductionUpTo
  <2> QED BY <1>1, <2>1
<1>6. PICK g \in [SUBSET S -> V] : Solves(g, Cardinality(S))
  BY <1>5
<1>7. ASSUME NEW s \in SUBSET S PROVE s \in Level(Cardinality(S))
  BY FS_Subset
<1>8. \A s \in SUBSET S : g[s] = Step(g, s)
  <2> HIDE DEF Level, Step
  <2> QED BY <1>6, <1>7
<1> QED BY <1>8 DEF SetRecursion

LEMMA FiniteImage ==
    ASSUME NEW S, IsFiniteSet(S), NEW f
    PROVE  IsFiniteSet({f[x] : x \in S})
<1> DEFINE T == {f[x] : x \in S}
           g == [x \in S |-> f[x]]
<1>1. g \in Surjection(S, T)
  BY DEF Surjection
<1> HIDE DEF g, T
<1>2. IsFiniteSet(T)
  BY <1>1, FS_Surjection
<1> QED BY <1>2 DEF T

\* The numbers of two equal sums, counted along a bijection.
LEMMA SumAlong ==
    ASSUME NEW S, IsFiniteSet(S), NEW f, NEW g, NEW R, NEW b,
           \A x \in S : b[x] \in R /\ g[b[x]] \in Nat /\ f[x] = g[b[x]],
           \A x, y \in S : x # y => b[x] # b[y],
           \A z \in R : \E x \in S : z = b[x]
    PROVE  SumOf(f, S) = SumOf(g, R)
<1> DEFINE P == [x \in S |-> {b[x]}]
<1>1. \A x \in S : IsFiniteSet(P[x])
  BY FS_Singleton
<1>2. \A x, y \in S : x # y => P[x] \cap P[y] = {}
  OBVIOUS
<1>3. \A x \in S : \A z \in P[x] : g[z] \in Nat
  OBVIOUS
<1>4. \A x \in S : f[x] = SumOf(g, P[x])
  <2> SUFFICES ASSUME NEW x \in S PROVE f[x] = SumOf(g, {b[x]})
    OBVIOUS
  <2>1. IsFiniteSet({b[x]}) /\ \A z \in {b[x]} : g[z] \in Nat
    BY FS_Singleton
  <2>2. SumOf(g, {b[x]}) = g[b[x]] + SumOf(g, {b[x]} \ {b[x]})
    BY <2>1, SumElement
  <2>3. SumOf(g, {b[x]} \ {b[x]}) = 0
    <3>1. {b[x]} \ {b[x]} = {}
      OBVIOUS
    <3>2. SumOf(g, {}) = 0
      BY FS_EmptySet, SumElement
    <3> QED BY <3>1, <3>2, Zenon
  <2>4. g[b[x]] \in Nat /\ f[x] = g[b[x]]
    OBVIOUS
  <2> QED BY <2>2, <2>3, <2>4
<1>5. (\A x \in S : P[x] \subseteq R) /\ \A z \in R : \E x \in S : z \in P[x]
  OBVIOUS
<1> HIDE DEF P
<1>6. (\A x \in S : P[x] \subseteq R) /\ (\A z \in R : \E x \in S : z \in P[x])
  BY <1>5
<1>7. IsFiniteSet(R) /\ SumOf(f, S) = SumOf(g, R)
  BY <1>1, <1>2, <1>3, <1>4, <1>6, SumOfSums
<1> QED BY <1>7

\* B[i] are the elements before i in a total order of S.
InOrder(B, S) ==
    /\ \A i \in S : B[i] \subseteq S \ {i}
    /\ \A i \in S : \A j \in B[i] : B[j] \subseteq B[i]
    /\ \A i, j \in S : i = j \/ i \in B[j] \/ j \in B[i]

LEMMA LastInOrder ==
    ASSUME NEW S, IsFiniteSet(S), NEW B, InOrder(B, S), NEW s \in SUBSET S, s # {},
           \A j \in s : B[j] \subseteq s
    PROVE  \E j \in s : s = B[j] \cup {j}
<1> DEFINE Sizes == {Cardinality(B[j]) : j \in s}
<1>1. \A j \in S : B[j] \in SUBSET S
  BY DEF InOrder
<1>2. Cardinality(S) \in Nat /\ \A j \in S : /\ IsFiniteSet(B[j]) /\ Cardinality(B[j]) \in Nat
                                             /\ Cardinality(B[j]) <= Cardinality(S)
  BY <1>1, FS_Subset, FS_CardinalityType
<1>3. PICK j \in s : \A k \in s : Cardinality(B[j]) >= Cardinality(B[k])
  <2>1. Sizes \in SUBSET (0 .. Cardinality(S)) /\ Sizes # {}
    BY <1>2
  <2>2. PICK n \in Sizes : \A m \in Sizes : n >= m
    <3> HIDE DEF Sizes
    <3> QED BY <1>2, <2>1, LargestUpTo
  <2> QED BY <2>2
<1>4. ASSUME NEW k \in s, k # j PROVE k \in B[j]
  <2> SUFFICES ASSUME k \notin B[j] PROVE FALSE
    OBVIOUS
  <2>1. j \in B[k] /\ B[j] \subseteq B[k] /\ j \notin B[j]
    BY <1>4 DEF InOrder
  <2>2. B[j] # B[k] /\ B[j] \in SUBSET B[k]
    BY <2>1
  <2>3. Cardinality(B[j]) <= Cardinality(B[k]) /\ Cardinality(B[j]) # Cardinality(B[k])
    BY <1>2, <2>2, FS_Subset
  <2> QED BY <1>2, <1>3, <2>3
<1> QED BY <1>4

\* A total is shared out in this order, each element getting its value: every unit
\* of it is exactly one element's.
LEMMA Shares ==
    ASSUME NEW S, IsFiniteSet(S), NEW B, InOrder(B, S), NEW f, \A x \in S : f[x] \in Nat
    PROVE  /\ \A i \in S : SumOf(f, B[i]) \in Nat /\ SumOf(f, B[i]) + f[i] <= SumOf(f, S)
           /\ \A i, j \in S : i # j => \/ SumOf(f, B[i]) + f[i] <= SumOf(f, B[j])
                                       \/ SumOf(f, B[j]) + f[j] <= SumOf(f, B[i])
           /\ \A u \in 0 .. SumOf(f, S) - 1 :
                 \E i \in S : SumOf(f, B[i]) <= u /\ u < SumOf(f, B[i]) + f[i]
<1> DEFINE Start(i) == SumOf(f, B[i])
<1>1. \A i \in S : /\ B[i] \in SUBSET S /\ i \notin B[i] /\ IsFiniteSet(B[i])
                   /\ Cardinality(B[i]) \in Nat
  BY FS_Subset, FS_CardinalityType DEF InOrder
<1>2. \A i \in S : Start(i) \in Nat /\ SumOf(f, B[i] \cup {i}) = Start(i) + f[i]
                   /\ IsFiniteSet(B[i] \cup {i}) /\ B[i] \cup {i} \subseteq S
  <2> SUFFICES ASSUME NEW i \in S
               PROVE  Start(i) \in Nat /\ SumOf(f, B[i] \cup {i}) = Start(i) + f[i]
                      /\ IsFiniteSet(B[i] \cup {i}) /\ B[i] \cup {i} \subseteq S
    OBVIOUS
  <2> DEFINE U == B[i] \cup {i}
  <2>1. IsFiniteSet(U) /\ i \in U /\ U \ {i} = B[i] /\ U \subseteq S /\ \A x \in U : f[x] \in Nat
    BY <1>1, FS_AddElement
  <2>2. Start(i) \in Nat
    BY <1>1, SumElement
  <2> HIDE DEF U
  <2>3. SumOf(f, U) = f[i] + SumOf(f, U \ {i})
    BY <2>1, SumElement
  <2>4. SumOf(f, U) = f[i] + Start(i) /\ f[i] \in Nat
    BY <2>1, <2>3
  <2>5. SumOf(f, U) = Start(i) + f[i]
    <3> HIDE DEF Start
    <3> QED BY <2>2, <2>4
  <2> QED BY <2>1, <2>2, <2>5 DEF U
<1>3. SumOf(f, S) \in Nat
  BY SumElement
<1>4. ASSUME NEW i \in S PROVE Start(i) + f[i] <= SumOf(f, S)
  <2> DEFINE U == B[i] \cup {i}
  <2>1. U \subseteq S
    BY <1>2
  <2> HIDE DEF U
  <2>2. SumOf(f, U) <= SumOf(f, S)
    BY <2>1, SumOfPart
  <2> QED BY <1>2, <2>2 DEF U
<1>5. ASSUME NEW i \in S, NEW j \in S, i \in B[j] PROVE Start(i) + f[i] <= Start(j)
  <2> DEFINE U == B[i] \cup {i}
             R == B[j]
  <2>1. U \subseteq R /\ IsFiniteSet(R) /\ \A x \in R : f[x] \in Nat
    BY <1>1, <1>5 DEF InOrder
  <2> HIDE DEF U, R
  <2>2. SumOf(f, U) <= SumOf(f, R)
    BY <2>1, SumOfPart
  <2> QED BY <1>2, <2>2 DEF U, R
<1>6. \A i, j \in S : i # j => Start(i) + f[i] <= Start(j) \/ Start(j) + f[j] <= Start(i)
  BY <1>5 DEF InOrder
<1>7. ASSUME NEW u \in 0 .. SumOf(f, S) - 1
      PROVE  \E i \in S : Start(i) <= u /\ u < Start(i) + f[i]
  <2> DEFINE D == {i \in S : u < Start(i) + f[i]}
             Sizes == {Cardinality(B[i]) : i \in D}
  <2>1. D # {}
    <3>1. S # {}
      <4> SUFFICES ASSUME S = {} PROVE FALSE
        OBVIOUS
      <4>1. SumOf(f, S) = 0
        BY SumElement
      <4> QED BY <4>1
    <3>2. PICK j \in S : S = B[j] \cup {j}
      <4>1. S \in SUBSET S /\ \A j \in S : B[j] \subseteq S
        BY <1>1
      <4> QED BY <3>1, <4>1, LastInOrder
    <3>3. SumOf(f, S) = Start(j) + f[j]
      BY <1>2, <3>2
    <3> HIDE DEF Start
    <3>4. u < Start(j) + f[j]
      BY <1>3, <3>3
    <3> QED BY <3>4
  <2>2. PICK i \in D : \A k \in D : Cardinality(B[i]) <= Cardinality(B[k])
    <3>1. Sizes \in SUBSET Nat /\ Sizes # {}
      BY <1>1, <2>1
    <3>2. PICK n \in Sizes : \A m \in Sizes : n <= m
      <4> HIDE DEF Sizes
      <4> QED BY <3>1, LeastNumber
    <3> QED BY <3>2
  <2>3. i \in S /\ u < Start(i) + f[i]
    BY <2>2
  <2>4. Start(i) <= u
    <3>1. CASE B[i] = {}
      <4>1. SumOf(f, {}) = 0
        BY FS_EmptySet, SumElement
      <4>2. Start(i) = 0
        BY <3>1, <4>1
      <4> HIDE DEF Start
      <4> QED BY <4>2
    <3>2. CASE B[i] # {}
      <4>1. PICK j \in B[i] : B[i] = B[j] \cup {j}
        <5>1. B[i] \in SUBSET S /\ \A j \in B[i] : B[j] \subseteq B[i]
          BY <2>3 DEF InOrder
        <5> QED BY <3>2, <5>1, LastInOrder
      <4>2. j \in S /\ j \notin B[j]
        BY <1>1, <2>3
      <4>3. Start(i) = Start(j) + f[j] /\ Start(j) \in Nat /\ f[j] \in Nat
        BY <1>2, <4>1, <4>2
      <4>4. Cardinality(B[i]) = Cardinality(B[j]) + 1
        BY <1>1, <4>1, <4>2, FS_AddElement
      <4>5. j \notin D
        <5> HIDE DEF D
        <5>1. Cardinality(B[j]) \in Nat
          BY <1>1, <4>2
        <5> QED BY <2>2, <4>4, <5>1
      <4>6. ~(u < Start(j) + f[j])
        BY <4>2, <4>5
      <4> HIDE DEF Start
      <4> QED BY <4>3, <4>6
    <3> QED BY <3>1, <3>2
  <2> QED BY <2>3, <2>4
<1> QED BY <1>2, <1>4, <1>6, <1>7

\* Nothing but zeros.
LEMMA SumZero ==
    ASSUME NEW f, NEW S, IsFiniteSet(S), \A x \in S : f[x] = 0
    PROVE  SumOf(f, S) = 0
<1> DEFINE T == {s \in SUBSET S : SumOf(f, s) = 0}
<1>1. {} \in T
  BY FS_EmptySet, SumElement
<1>2. ASSUME NEW s \in SUBSET S, NEW x \in s, s \ {x} \in T PROVE s \in T
  <2>1. IsFiniteSet(s) /\ \A y \in s : f[y] \in Nat
    BY FS_Subset
  <2>2. SumOf(f, s) = f[x] + SumOf(f, s \ {x})
    BY <2>1, SumElement
  <2>3. f[x] = 0 /\ SumOf(f, s \ {x}) = 0
    BY <1>2
  <2>4. SumOf(f, s) = 0
    BY <2>2, <2>3
  <2> QED BY <2>4
<1>3. S \in T
  <2> HIDE DEF T
  <2> QED BY <1>1, <1>2, InductionOnSets
<1> QED BY <1>3

\* How many elements, as a sum of ones.
LEMMA CardinalityIsSum ==
    ASSUME NEW f, NEW S, IsFiniteSet(S), \A x \in S : f[x] = 1
    PROVE  SumOf(f, S) = Cardinality(S)
<1> DEFINE T == {s \in SUBSET S : SumOf(f, s) = Cardinality(s)}
<1>1. {} \in T
  BY FS_EmptySet, SumElement
<1>2. ASSUME NEW s \in SUBSET S, NEW x \in s, s \ {x} \in T PROVE s \in T
  <2>1. IsFiniteSet(s) /\ \A y \in s : f[y] \in Nat
    BY FS_Subset
  <2>2. SumOf(f, s) = f[x] + SumOf(f, s \ {x})
    BY <2>1, SumElement
  <2>3. SumOf(f, s \ {x}) = Cardinality(s \ {x}) /\ f[x] = 1
    BY <1>2
  <2>4. Cardinality(s \ {x}) = Cardinality(s) - 1 /\ Cardinality(s) \in Nat
    BY <2>1, FS_RemoveElement, FS_CardinalityType
  <2>5. SumOf(f, s) = Cardinality(s)
    BY <2>2, <2>3, <2>4
  <2> QED BY <2>5
<1>3. S \in T
  <2> HIDE DEF T
  <2> QED BY <1>1, <1>2, InductionOnSets
<1> QED BY <1>3

\* The numbers of parts that have nothing in common, added up.
LEMMA CountParts ==
    ASSUME NEW I, IsFiniteSet(I), NEW W, IsFiniteSet(W), NEW P, NEW g,
           \A i \in I : P[i] \subseteq W, \A i \in I : g[i] = Cardinality(P[i]),
           \A i, j \in I : i # j => P[i] \cap P[j] = {},
           \A x \in W : \E i \in I : x \in P[i]
    PROVE  SumOf(g, I) = Cardinality(W)
<1> DEFINE f == [x \in W |-> 1]
<1>1. \A i \in I : IsFiniteSet(P[i])
  BY FS_Subset
<1>2. \A i \in I : \A x \in P[i] : f[x] \in Nat /\ f[x] = 1
  OBVIOUS
<1>3. \A x \in W : f[x] = 1
  OBVIOUS
<1> HIDE DEF f
<1>4. \A i \in I : g[i] = SumOf(f, P[i])
  BY <1>1, <1>2, CardinalityIsSum
<1>5. SumOf(g, I) = SumOf(f, W)
  <2>1. \A i \in I : \A x \in P[i] : f[x] \in Nat
    BY <1>2
  <2>2. \A i \in I : P[i] \subseteq W
    OBVIOUS
  <2>3. \A i, j \in I : i # j => P[i] \cap P[j] = {}
    OBVIOUS
  <2>4. \A x \in W : \E i \in I : x \in P[i]
    OBVIOUS
  <2>5. IsFiniteSet(W) /\ SumOf(g, I) = SumOf(f, W)
    BY <1>1, <1>4, <2>1, <2>2, <2>3, <2>4, SumOfSums
  <2> QED BY <2>5
<1>6. SumOf(f, W) = Cardinality(W)
  BY <1>3, CardinalityIsSum
<1> QED BY <1>5, <1>6

\* The elements that F sends to d, and those that it sends into D.
Fibre(T, F, d) == {i \in T : F[i] = d}
Inside(T, F, D) == {i \in T : F[i] \in D}

LEMMA CountFibres ==
    ASSUME NEW D, IsFiniteSet(D), NEW T, IsFiniteSet(T), NEW g, NEW F,
           \A d \in D : g[d] = Cardinality(Fibre(T, F, d))
    PROVE  SumOf(g, D) = Cardinality(Inside(T, F, D))
<1> DEFINE W == Inside(T, F, D)
           P == [d \in D |-> Fibre(T, F, d)]
<1>1. IsFiniteSet(W)
  BY FS_Subset DEF Inside
<1>2. \A d \in D : P[d] \subseteq W
  BY DEF Inside, Fibre
<1>3. \A d \in D : g[d] = Cardinality(P[d])
  OBVIOUS
<1>4. \A d, e \in D : d # e => P[d] \cap P[e] = {}
  BY DEF Fibre
<1>5. \A x \in W : \E d \in D : x \in P[d]
  BY DEF Inside, Fibre
<1> HIDE DEF W, P
<1>6. SumOf(g, D) = Cardinality(W)
  BY <1>1, <1>2, <1>3, <1>4, <1>5, CountParts
<1> QED BY <1>6 DEF W

\* Numbers of two digits are in the order of their digits.
LEMMA TwoDigits ==
    ASSUME NEW R \in Nat \ {0}, NEW a \in Nat, NEW b \in 0 .. R - 1, NEW c \in Nat, NEW d \in 0 .. R - 1
    PROVE  /\ ((a * R + b > c * R + d) <=> (a > c \/ (a = c /\ b > d)))
           /\ ((a * R + b = c * R + d) <=> (a = c /\ b = d))
<1>1. \A x, y \in Nat : x > y => x * R >= y * R + R /\ x * R \in Nat /\ y * R \in Nat
  <2> SUFFICES ASSUME NEW x \in Nat, NEW y \in Nat, x > y
               PROVE  x * R >= y * R + R /\ x * R \in Nat /\ y * R \in Nat
    OBVIOUS
  <2>1. PICK e \in Nat : x = y + 1 + e
    <3>1. x - y - 1 \in Nat /\ x = y + 1 + (x - y - 1)
      OBVIOUS
    <3> QED BY <3>1
  <2>2. x * R = y * R + R + e * R
    BY <2>1
  <2>3. e * R \in Nat /\ y * R \in Nat
    BY Product
  <2> QED BY <2>2, <2>3
<1> DEFINE p == a * R
           q == c * R
<1>2. p \in Nat /\ q \in Nat /\ (a > c => p >= q + R) /\ (c > a => q >= p + R) /\ (a = c => p = q)
  BY <1>1, Product
<1> HIDE DEF p, q
<1>3. /\ ((p + b > q + d) <=> (a > c \/ (a = c /\ b > d)))
      /\ ((p + b = q + d) <=> (a = c /\ b = d))
  BY <1>2
<1> QED BY <1>3 DEF p, q
=============================================================================
