------------------------ MODULE ResponseReader_proofs ------------------------
(***************************************************************************)
(* What the response reader returns, for every response, cut and truncated *)
(* in every way, and for all limits: the right response or an error for a  *)
(* reason, and no more of the stream than the response.  Its memory is     *)
(* bounded.                                                                *)
(*                                                                         *)
(* The argument: what has been decoded, what is unread and where the       *)
(* reader is fit one another.  The unread symbols are a beginning of what  *)
(* is left of the encoding of the message, which is the next piece of it   *)
(* followed by the rest; a step reads a piece that is complete, or ends.   *)
(***************************************************************************)
EXTENDS ResponseReader, SequenceTheorems, WellFoundedInduction, FiniteSetTheorems, TLAPS

-----------------------------------------------------------------------------
(* Sequences: the recursive function in FlattenSeq, by the least counterexample. *)

\* A set of natural numbers has a least element.
LEMMA LeastOfNaturals ==
    ASSUME NEW S \in SUBSET Nat, S # {}
    PROVE  Min(S) \in S /\ \A x \in S : Min(S) <= x
<1> DEFINE less == {pair \in Nat \X Nat : pair[1] < pair[2]}
<1>1. \E n \in S : \A m \in S : ~(<<m, n>> \in less)
  <2>1. IsWellFoundedOn(less, Nat)
    BY NatLessThanWellFounded DEF OpToRel
  <2> HIDE DEF less
  <2> QED BY <2>1, WFMin
<1>2. PICK n \in S : \A m \in S : ~(<<m, n>> \in less)
  BY <1>1
<1>3. \A m \in S : n <= m
  <2> SUFFICES ASSUME NEW m \in S, m < n PROVE FALSE
    OBVIOUS
  <2>1. <<m, n>> \in Nat \X Nat /\ <<m, n>>[1] = m /\ <<m, n>>[2] = n
    OBVIOUS
  <2>2. <<m, n>> \in less
    BY <2>1
  <2> QED BY <1>2, <2>2
<1> QED BY <1>3 DEF Min

\* Concatenation is associative, for all sequences at once.
LEMMA Associative ==
    ASSUME NEW V
    PROVE  \A a, b, c \in Seq(V) : (a \o b) \o c = a \o (b \o c)
<1> SUFFICES ASSUME NEW a \in Seq(V), NEW b \in Seq(V), NEW c \in Seq(V)
             PROVE  (a \o b) \o c = a \o (b \o c)
  OBVIOUS
<1> QED BY ConcatAssociative

IsFlattening(f, s) ==
    f = [i \in 1 .. Len(s) |-> IF i = 1 THEN s[i] ELSE f[i - 1] \o s[i]]

\* The recursive function in FlattenSeq exists.
LEMMA FlatteningExists ==
    ASSUME NEW s, Len(s) \in Nat
    PROVE  \E f : IsFlattening(f, s)
<1> DEFINE IsUpTo(f, n) == f = [i \in 1 .. n |-> IF i = 1 THEN s[i] ELSE f[i - 1] \o s[i]]
           Bad == {n \in Nat : ~ \E f : IsUpTo(f, n)}
<1>1. Bad = {}
  <2> SUFFICES ASSUME Bad # {} PROVE FALSE
    OBVIOUS
  <2>1. Min(Bad) \in Bad /\ \A n \in Bad : Min(Bad) <= n
    BY LeastOfNaturals
  <2>2. PICK n \in Nat : n \in Bad /\ \A k \in Bad : n <= k
    BY <2>1
  <2>3. CASE n = 0
    <3>1. IsUpTo([i \in 1 .. 0 |-> s[i]], 0)
      OBVIOUS
    <3> QED BY <2>2, <2>3, <3>1
  <2>4. CASE n # 0
    <3>1. n - 1 \in Nat /\ n - 1 \notin Bad
      <4> HIDE DEF Bad
      <4> QED BY <2>2, <2>4
    <3>2. PICK f : IsUpTo(f, n - 1)
      BY <3>1
    <3>5. \A i \in 1 .. n - 1 : f[i] = IF i = 1 THEN s[i] ELSE f[i - 1] \o s[i]
      <4> SUFFICES ASSUME NEW i \in 1 .. n - 1
                   PROVE  f[i] = IF i = 1 THEN s[i] ELSE f[i - 1] \o s[i]
        OBVIOUS
      <4> DEFINE h == [j \in 1 .. n - 1 |-> IF j = 1 THEN s[j] ELSE f[j - 1] \o s[j]]
      <4>1. f = h
        BY <3>2
      <4>2. h[i] = IF i = 1 THEN s[i] ELSE f[i - 1] \o s[i]
        OBVIOUS
      <4> HIDE DEF h
      <4> QED BY <4>1, <4>2
    <3> DEFINE g == [i \in 1 .. n |-> IF i < n THEN f[i] ELSE IF i = 1 THEN s[i] ELSE f[i - 1] \o s[i]]
    <3>3. \A i \in 1 .. n : g[i] = IF i = 1 THEN s[i] ELSE g[i - 1] \o s[i]
      <4> SUFFICES ASSUME NEW i \in 1 .. n PROVE g[i] = IF i = 1 THEN s[i] ELSE g[i - 1] \o s[i]
        OBVIOUS
      <4>1. i # 1 => /\ i - 1 \in 1 .. n /\ i - 1 < n
                     /\ g[i - 1] = f[i - 1]
        BY <2>2
      <4>2. i < n => /\ i \in 1 .. n - 1 /\ g[i] = f[i]
                     /\ f[i] = IF i = 1 THEN s[i] ELSE f[i - 1] \o s[i]
        BY <3>5, <2>2
      <4>3. CASE i < n
        BY <4>1, <4>2, <4>3
      <4>4. CASE ~(i < n)
        BY <4>1, <4>4
      <4> QED BY <4>3, <4>4
    <3>4. IsUpTo(g, n)
      BY <3>3
    <3> QED BY <2>2, <3>4
  <2> QED BY <2>3, <2>4
<1>2. \E f : IsUpTo(f, Len(s))
  BY <1>1
<1> QED BY <1>2 DEF IsFlattening

\* What the recursive function is at each place.
LEMMA FlattenUp ==
    ASSUME NEW s, Len(s) \in Nat
    PROVE  \E f : /\ IsFlattening(f, s)
                  /\ FlattenSeq(s) = IF Len(s) = 0 THEN s ELSE f[Len(s)]
<1> DEFINE f == CHOOSE g : IsFlattening(g, s)
<1>1. IsFlattening(f, s)
  BY FlatteningExists
<1>2. FlattenSeq(s) = IF Len(s) = 0 THEN s ELSE f[Len(s)]
  BY DEF FlattenSeq, IsFlattening
<1> QED BY <1>1, <1>2

\* FlattenSeq is the last value of that function.
LEMMA FlatteningValue ==
    ASSUME NEW s, NEW f, IsFlattening(f, s), NEW i \in 1 .. Len(s)
    PROVE  f[i] = IF i = 1 THEN s[i] ELSE f[i - 1] \o s[i]
<1> DEFINE h == [j \in 1 .. Len(s) |-> IF j = 1 THEN s[j] ELSE f[j - 1] \o s[j]]
<1>1. f = h
  BY DEF IsFlattening
<1>2. h[i] = IF i = 1 THEN s[i] ELSE f[i - 1] \o s[i]
  OBVIOUS
<1> HIDE DEF h
<1> QED BY <1>1, <1>2

\* Its values are sequences over the same set.
LEMMA FlatteningTyped ==
    ASSUME NEW V, NEW s \in Seq(Seq(V)), NEW f, IsFlattening(f, s), NEW i \in 1 .. Len(s)
    PROVE  f[i] \in Seq(V)
<1> DEFINE Bad == {k \in 1 .. Len(s) : f[k] \notin Seq(V)}
<1>1. Len(s) \in Nat /\ \A k \in 1 .. Len(s) : s[k] \in Seq(V)
  BY LenProperties, ElementOfSeq
<1>2. Bad \in SUBSET Nat
  BY <1>1
<1>3. ASSUME Bad # {} PROVE FALSE
  <2>1. PICK k \in Bad : \A j \in Bad : k <= j
    BY <1>2, <1>3, LeastOfNaturals
  <2>2. k \in 1 .. Len(s) /\ f[k] = IF k = 1 THEN s[k] ELSE f[k - 1] \o s[k]
    BY <2>1, FlatteningValue
  <2>3. k # 1 => f[k - 1] \in Seq(V)
    <3>1. k # 1 => k - 1 \in 1 .. Len(s) /\ ~(k <= k - 1)
      BY <1>1, <2>2
    <3>2. k # 1 => k - 1 \notin Bad
      <4> HIDE DEF Bad
      <4> QED BY <2>1, <3>1
    <3> QED BY <3>1, <3>2
  <2>4. f[k] \in Seq(V)
    BY <1>1, <2>2, <2>3, ConcatProperties
  <2> QED BY <2>1, <2>4
<1> QED BY <1>3

\* The elements of what is left of a sequence.
LEMMA AfterElements ==
    ASSUME NEW V, NEW s \in Seq(V), NEW n \in 0 .. Len(s)
    PROVE  /\ After(s, n) \in Seq(V)
           /\ Len(After(s, n)) = Len(s) - n
           /\ \A i \in 1 .. Len(s) - n : After(s, n)[i] = s[n + i]
<1>1. Len(s) \in Nat /\ \A i \in n + 1 .. Len(s) : s[i] \in V
  BY LenProperties, ElementOfSeq
<1>2. /\ SubSeq(s, n + 1, Len(s)) \in Seq(V)
      /\ Len(SubSeq(s, n + 1, Len(s))) = IF n + 1 <= Len(s) THEN Len(s) - (n + 1) + 1 ELSE 0
      /\ \A i \in 1 .. Len(s) - (n + 1) + 1 : SubSeq(s, n + 1, Len(s))[i] = s[n + 1 + i - 1]
  BY <1>1, SubSeqProperties
<1> QED BY <1>1, <1>2 DEF After

\* FlattenSeq concatenates sequences to a sequence over the same set.
LEMMA FlattenTyped ==
    ASSUME NEW V, NEW s \in Seq(Seq(V))
    PROVE  /\ FlattenSeq(s) \in Seq(V)
           /\ Len(s) = 0 => FlattenSeq(s) = <<>>
<1>1. Len(s) \in Nat
  BY LenProperties
<1>2. PICK f : IsFlattening(f, s) /\ FlattenSeq(s) = IF Len(s) = 0 THEN s ELSE f[Len(s)]
  BY <1>1, FlattenUp
<1>3. CASE Len(s) = 0
  <2>1. s = <<>>
    BY <1>3, EmptySeq
  <2> QED BY <1>2, <1>3, <2>1, EmptySeq
<1>4. CASE Len(s) # 0
  <2>1. Len(s) \in 1 .. Len(s)
    BY <1>1, <1>4
  <2> QED BY <1>2, <1>4, <2>1, FlatteningTyped
<1> QED BY <1>3, <1>4

\* FlattenSeq can be taken apart at the front.
LEMMA FlattenCons ==
    ASSUME NEW V, NEW s \in Seq(Seq(V)), Len(s) > 0
    PROVE  FlattenSeq(s) = s[1] \o FlattenSeq(After(s, 1))
<1> DEFINE t == After(s, 1)
           n == Len(s)
<1>1. /\ n \in Nat /\ n >= 1 /\ t \in Seq(Seq(V)) /\ Len(t) = n - 1 /\ Len(t) \in Nat
      /\ \A i \in 1 .. n - 1 : t[i] = s[1 + i]
      /\ \A k \in 1 .. n : s[k] \in Seq(V)
  <2>1. n \in Nat /\ 1 \in 0 .. n /\ \A k \in 1 .. n : s[k] \in Seq(V)
    BY LenProperties, ElementOfSeq
  <2> QED BY <2>1, AfterElements, SMTT(30)
<1>2. PICK f : IsFlattening(f, s) /\ FlattenSeq(s) = IF Len(s) = 0 THEN s ELSE f[Len(s)]
  BY <1>1, FlattenUp
<1> HIDE DEF t
<1>3. PICK g : IsFlattening(g, t) /\ FlattenSeq(t) = IF Len(t) = 0 THEN t ELSE g[Len(t)]
  BY <1>1, FlattenUp
<1>4. /\ \A k \in 1 .. n : f[k] = IF k = 1 THEN s[k] ELSE f[k - 1] \o s[k]
      /\ \A k \in 1 .. n - 1 : g[k] = IF k = 1 THEN t[k] ELSE g[k - 1] \o t[k]
      /\ \A k \in 1 .. n - 1 : g[k] \in Seq(V)
  <2>1. \A k \in 1 .. n : f[k] = IF k = 1 THEN s[k] ELSE f[k - 1] \o s[k]
    BY <1>2, FlatteningValue
  <2>4. 1 .. n - 1 = 1 .. Len(t)
    BY <1>1
  <2>2. \A k \in 1 .. n - 1 : g[k] = IF k = 1 THEN t[k] ELSE g[k - 1] \o t[k]
    <3> SUFFICES ASSUME NEW k \in 1 .. Len(t)
                 PROVE  g[k] = IF k = 1 THEN t[k] ELSE g[k - 1] \o t[k]
      BY <2>4
    <3> QED BY <1>3, FlatteningValue
  <2>3. \A k \in 1 .. n - 1 : g[k] \in Seq(V)
    BY <1>1, <1>3, <2>4, FlatteningTyped
  <2> QED BY <2>1, <2>2, <2>3
<1> HIDE DEF n
<1> DEFINE Bad == {k \in 2 .. n : f[k] # s[1] \o g[k - 1]}
<1>9. n \in Nat /\ n >= 1
  BY <1>1
<1>5. Bad \in SUBSET Nat
  <2>1. Bad \subseteq 2 .. n
    BY Zenon
  <2>2. 2 .. n \subseteq Nat
    BY <1>9
  <2> HIDE DEF Bad
  <2> QED BY <2>1, <2>2
<1>6. ASSUME Bad # {} PROVE FALSE
  <2>1. PICK k \in Bad : \A j \in Bad : k <= j
    BY <1>5, <1>6, LeastOfNaturals
  <2>2. k \in 2 .. n /\ f[k] # s[1] \o g[k - 1]
    BY <2>1
  <2>3. f[k] = f[k - 1] \o s[k] /\ t[k - 1] = s[k] /\ k - 1 \in 1 .. n - 1
    <3>1. k \in 1 .. n /\ k # 1 /\ k - 1 \in 1 .. n - 1 /\ 1 + (k - 1) = k
      BY <1>1, <2>2
    <3> QED BY <1>1, <1>4, <3>1
  <2>4. CASE k = 2
    <3>1. f[1] = s[1] /\ g[1] = t[1] /\ k - 1 = 1
      BY <1>1, <1>4, <2>2, <2>3, <2>4
    <3> QED BY <2>2, <2>3, <3>1
  <2>5. CASE k # 2
    <3>1. k - 1 \in 2 .. n /\ ~(k <= k - 1) /\ k - 2 \in 1 .. n - 1 /\ (k - 1) - 1 = k - 2
          /\ k - 1 # 1
      BY <1>1, <2>2, <2>5
    <3>2. k - 1 \notin Bad
      <4> HIDE DEF Bad
      <4> QED BY <2>1, <3>1
    <3>3. f[k - 1] = s[1] \o g[k - 2]
      BY <3>1, <3>2
    <3>4. g[k - 1] = g[k - 2] \o s[k]
      BY <1>4, <2>3, <3>1
    <3>5. (s[1] \o g[k - 2]) \o s[k] = s[1] \o (g[k - 2] \o s[k])
      <4>1. s[1] \in Seq(V) /\ g[k - 2] \in Seq(V) /\ s[k] \in Seq(V)
        <5>1. 1 \in 1 .. n /\ k \in 1 .. n
          BY <1>9, <2>2
        <5>2. s[1] \in Seq(V) /\ s[k] \in Seq(V)
          BY <1>1, <5>1
        <5>3. g[k - 2] \in Seq(V)
          BY <1>4, <3>1
        <5> QED BY <5>2, <5>3
      <4> HIDE DEF Bad
      <4>2. \A a, b, c \in Seq(V) : (a \o b) \o c = a \o (b \o c)
        BY Associative, SMTT(30)
      <4> QED BY <4>1, <4>2, Zenon
    <3> QED BY <2>2, <2>3, <3>3, <3>4, <3>5
  <2> QED BY <2>4, <2>5
<1>7. CASE n = 1
  <2>1. FlattenSeq(s) = s[1] /\ FlattenSeq(t) = t
    BY <1>1, <1>2, <1>3, <1>4, <1>7 DEF n
  <2>2. t = <<>>
    BY <1>1, <1>7, EmptySeq
  <2>3. s[1] \o <<>> = s[1]
    <3>1. s[1] \in Seq(V)
      BY <1>1
    <3> QED BY <3>1, ConcatEmptySeq
  <2>4. FlattenSeq(s) = s[1] \o FlattenSeq(t)
    BY <2>1, <2>2, <2>3
  <2> QED BY <2>4 DEF t
<1>8. CASE n # 1
  <2>1. n \in 2 .. n
    BY <1>9, <1>8
  <2>3. n \notin Bad
    <3> HIDE DEF Bad
    <3> QED BY <1>6
  <2>2. FlattenSeq(s) = f[n] /\ FlattenSeq(t) = g[n - 1]
    BY <1>1, <1>2, <1>3, <1>8 DEF n
  <2> QED BY <2>1, <2>2, <2>3 DEF t
<1> QED BY <1>7, <1>8

\* Dropping one more element drops the first of what is left.
LEMMA AfterAfter ==
    ASSUME NEW W, NEW s \in Seq(W), NEW i \in 0 .. Len(s), NEW k \in 0 .. Len(s) - i
    PROVE  After(After(s, i), k) = After(s, i + k)
<1>1. Len(s) \in Nat /\ i + k \in 0 .. Len(s)
  BY LenProperties
<1>2. /\ After(s, i) \in Seq(W) /\ Len(After(s, i)) = Len(s) - i
      /\ \A j \in 1 .. Len(s) - i : After(s, i)[j] = s[i + j]
  BY AfterElements
<1>3. PICK t \in Seq(W) : t = After(s, i)
  BY <1>2
<1>4. k \in 0 .. Len(t)
  BY <1>2, <1>3
<1>5. /\ After(t, k) \in Seq(W) /\ Len(After(t, k)) = Len(t) - k
      /\ \A j \in 1 .. Len(t) - k : After(t, k)[j] = t[k + j]
  BY <1>4, AfterElements
<1>6. /\ After(s, i + k) \in Seq(W) /\ Len(After(s, i + k)) = Len(s) - (i + k)
      /\ \A j \in 1 .. Len(s) - (i + k) : After(s, i + k)[j] = s[(i + k) + j]
  BY <1>1, AfterElements
<1>7. Len(After(t, k)) = Len(After(s, i + k))
  <2>1. Len(After(t, k)) = (Len(s) - i) - k
    BY <1>2, <1>3, <1>5
  <2>2. (Len(s) - i) - k = Len(s) - (i + k)
    BY <1>1
  <2> QED BY <1>6, <2>1, <2>2
<1>8. ASSUME NEW j \in 1 .. Len(After(t, k)) PROVE After(t, k)[j] = After(s, i + k)[j]
  <2>1. /\ j \in 1 .. Len(t) - k /\ k + j \in 1 .. Len(s) - i /\ j \in 1 .. Len(s) - (i + k)
        /\ (i + k) + j = i + (k + j)
    BY <1>1, <1>2, <1>3, <1>5
  <2> QED BY <1>2, <1>3, <1>5, <1>6, <2>1
<1>9. After(t, k) = After(s, i + k)
  BY <1>5, <1>6, <1>7, <1>8, SeqEqual
<1> QED BY <1>3, <1>9

\* What is left of the pieces begins with the next piece.
LEMMA FlattenAfter ==
    ASSUME NEW V, NEW s \in Seq(Seq(V)), NEW i \in 0 .. Len(s) - 1
    PROVE  FlattenSeq(After(s, i)) = s[i + 1] \o FlattenSeq(After(s, i + 1))
<1>1. Len(s) \in Nat /\ i \in 0 .. Len(s) /\ 1 \in 0 .. Len(s) - i
  BY LenProperties
<1>2. /\ After(s, i) \in Seq(Seq(V)) /\ Len(After(s, i)) = Len(s) - i
      /\ \A j \in 1 .. Len(s) - i : After(s, i)[j] = s[i + j]
  BY <1>1, AfterElements
<1>3. PICK t \in Seq(Seq(V)) : t = After(s, i)
  BY <1>2
<1>4. After(t, 1) = After(s, i + 1)
  BY <1>1, <1>3, AfterAfter
<1>5. Len(t) > 0 /\ t[1] = s[i + 1]
  BY <1>1, <1>2, <1>3
<1>6. FlattenSeq(t) = t[1] \o FlattenSeq(After(t, 1))
  BY <1>5, FlattenCons
<1> QED BY <1>3, <1>4, <1>5, <1>6

\* n copies are n long, and one less is left behind the first.
LEMMA TimesProperties ==
    ASSUME NEW V, NEW e \in V, NEW n \in Nat
    PROVE  /\ Times(n, e) \in Seq(V) /\ Len(Times(n, e)) = n
           /\ \A i \in 1 .. n : Times(n, e)[i] = e
<1>1. Times(n, e) \in [1 .. n -> V] /\ DOMAIN Times(n, e) = 1 .. n
  BY DEF Times
<1>2. Times(n, e) \in Seq(V)
  BY <1>1, SeqDef
<1>3. Len(Times(n, e)) = n
  BY <1>1, <1>2, LenProperties
<1> QED BY <1>2, <1>3 DEF Times

\* n copies are one copy and n - 1 copies.
LEMMA FlattenTimes ==
    ASSUME NEW V, NEW e \in Seq(V), NEW n \in Nat
    PROVE  /\ FlattenSeq(Times(n, e)) \in Seq(V)
           /\ FlattenSeq(Times(0, e)) = <<>>
           /\ FlattenSeq(Times(n + 1, e)) = e \o FlattenSeq(Times(n, e))
<1>1. /\ Times(n, e) \in Seq(Seq(V)) /\ Len(Times(n, e)) = n
      /\ \A i \in 1 .. n : Times(n, e)[i] = e
  BY TimesProperties
<1>2. Times(0, e) \in Seq(Seq(V)) /\ Len(Times(0, e)) = 0
  BY TimesProperties
<1>3. n + 1 \in Nat /\ n + 1 > 0
  OBVIOUS
<1>4. /\ Times(n + 1, e) \in Seq(Seq(V)) /\ Len(Times(n + 1, e)) = n + 1
      /\ \A i \in 1 .. n + 1 : Times(n + 1, e)[i] = e
  BY <1>3, TimesProperties
<1>5. /\ After(Times(n + 1, e), 1) \in Seq(Seq(V)) /\ Len(After(Times(n + 1, e), 1)) = n
      /\ \A i \in 1 .. n : After(Times(n + 1, e), 1)[i] = e
  <2>1. 1 \in 0 .. Len(Times(n + 1, e))
    BY <1>4
  <2>2. /\ After(Times(n + 1, e), 1) \in Seq(Seq(V))
        /\ Len(After(Times(n + 1, e), 1)) = Len(Times(n + 1, e)) - 1
        /\ \A i \in 1 .. Len(Times(n + 1, e)) - 1 : After(Times(n + 1, e), 1)[i] = Times(n + 1, e)[1 + i]
    BY <1>4, <2>1, AfterElements
  <2>3. \A i \in 1 .. n : 1 + i \in 1 .. n + 1
    OBVIOUS
  <2>4. ASSUME NEW i \in 1 .. n PROVE After(Times(n + 1, e), 1)[i] = e
    <3>1. i \in 1 .. Len(Times(n + 1, e)) - 1
      BY <1>4
    <3> QED BY <1>4, <2>2, <2>3, <3>1
  <2>5. Len(Times(n + 1, e)) - 1 = n
    BY <1>4
  <2> QED BY <2>2, <2>4, <2>5
<1>6. After(Times(n + 1, e), 1) = Times(n, e)
  BY <1>1, <1>5, SeqEqual
<1>7. Times(n + 1, e)[1] = e
  BY <1>4
<1>8. FlattenSeq(Times(n + 1, e)) = Times(n + 1, e)[1] \o FlattenSeq(After(Times(n + 1, e), 1))
  BY <1>3, <1>4, FlattenCons
<1> QED BY <1>1, <1>2, <1>6, <1>7, <1>8, FlattenTyped

-----------------------------------------------------------------------------
(* The pieces of what the server sends. *)

\* The pieces a response is put together from.
Info == HeaderBlock("info", 0, 0, 0)
ResponseHead(m) == HeaderBlock(HeadType(m), Len(Content(m)), m.fields, m.padding)
Field == <<Symbol("field", 0), Crlf>>
Datas(m) == [i \in DOMAIN m.chunks |-> Data(m.chunks[i])]
CrlfOf(m) == IF m.fault = "nocrlf" THEN <<>> ELSE <<Crlf>>
ChunkCode(m, i) == (SizeLine(m, Len(m.chunks[i])) \o Data(m.chunks[i])) \o CrlfOf(m)
Codes(m) == [i \in DOMAIN m.chunks |-> ChunkCode(m, i)]
TrailerLine(m) == <<Symbol(IF m.fault = "badtrailer" THEN "badtrailer" ELSE "trailer", 0), Crlf>>
Ending(m, k) == FlattenSeq(Times(k, TrailerLine(m))) \o <<Crlf>>
Chunks(m, i) == FlattenSeq(After(Codes(m), i)) \o (SizeLine(m, 0) \o Ending(m, m.trailers))
Rest(m) ==
    CASE m.framing = "chunked"  -> Chunks(m, 0)
      [] m.framing = "bodyless" -> <<>>
      [] OTHER                  -> Content(m)
Infos(k) == FlattenSeq(Times(k, Info))

\* What symbols are made of, with sizes from N.
Alphabet(N) == [type : SymbolTypes, value : N]

\* A symbol of a type is in the alphabet.
LEMMA SymbolIsOne ==
    ASSUME NEW N, NEW type \in SymbolTypes, NEW n \in N
    PROVE  Symbol(type, n) \in Alphabet(N)
BY DEF Symbol, Alphabet

\* Sequences of one and of two elements.
LEMMA Singleton ==
    ASSUME NEW V, NEW x \in V
    PROVE  <<x>> \in Seq(V) /\ Len(<<x>>) = 1 /\ <<x>>[1] = x
OBVIOUS

LEMMA Pair ==
    ASSUME NEW V, NEW x \in V, NEW y \in V
    PROVE  <<x, y>> \in Seq(V) /\ Len(<<x, y>>) = 2 /\ <<x, y>>[1] = x /\ <<x, y>>[2] = y
OBVIOUS

\* A header block, put together from the right.
LEMMA BlockTyped ==
    ASSUME NEW N, Nat \subseteq N, NEW type \in SymbolTypes, NEW length \in N,
           NEW fields \in Nat, NEW padding \in Nat
    PROVE  HeaderBlock(type, length, fields, padding) \in Seq(Alphabet(N))
<1> DEFINE V == Alphabet(N)
<1>1. /\ Symbol(type, length) \in V /\ Symbol("padding", 0) \in V /\ Crlf \in V
      /\ Symbol("field", 0) \in V
  BY SymbolIsOne DEF Crlf, SymbolTypes
<1> HIDE DEF V
<1>2. <<Symbol(type, length)>> \in Seq(V) /\ <<Crlf>> \in Seq(V) /\ <<Symbol("field", 0), Crlf>> \in Seq(V)
  BY <1>1
<1>3. Times(padding, Symbol("padding", 0)) \in Seq(V)
  BY <1>1, TimesProperties
<1>4. FlattenSeq(Times(fields, <<Symbol("field", 0), Crlf>>)) \in Seq(V)
  BY <1>2, FlattenTimes
<1>5. \A a, b \in Seq(V) : a \o b \in Seq(V)
  BY ConcatProperties
<1> QED BY <1>2, <1>3, <1>4, <1>5, Zenon DEF HeaderBlock, V

\* What a message is made of, field by field.
LEMMA MessageFields ==
    ASSUME NEW m, Message(m)
    PROVE  /\ m.infos \in Nat /\ m.fields \in Nat /\ m.padding \in Nat /\ m.extension \in Nat
           /\ m.trailers \in Nat /\ m.extra \in Nat /\ m.fault \in Faults
           /\ m.framing \in {"chunked", "length", "close", "bodyless"}
           /\ m.chunks \in Seq(Seq(Nat \ {0}))
           /\ Len(m.chunks) \in Nat /\ DOMAIN m.chunks = 1 .. Len(m.chunks)
           /\ \A i \in 1 .. Len(m.chunks) :
                /\ m.chunks[i] \in Seq(Nat \ {0})
                /\ Len(m.chunks[i]) \in Nat /\ Len(m.chunks[i]) > 0
<1> DEFINE W == Seq(Nat \ {0}) \ {<<>>}
           c == m.chunks
<1>1. c \in Seq(W)
  BY DEF Message
<1> HIDE DEF c
<1>2. \A i \in 1 .. Len(c) : c[i] \in W
  BY <1>1, ElementOfSeq
<1>3. \A i \in 1 .. Len(c) : c[i] \in Seq(Nat \ {0}) /\ Len(c[i]) \in Nat /\ Len(c[i]) > 0
  <2> SUFFICES ASSUME NEW i \in 1 .. Len(c)
               PROVE  c[i] \in Seq(Nat \ {0}) /\ Len(c[i]) \in Nat /\ Len(c[i]) > 0
    OBVIOUS
  <2>1. c[i] \in Seq(Nat \ {0}) /\ c[i] # <<>>
    BY <1>2
  <2>2. Len(c[i]) \in Nat \ {0}
    BY <2>1, EmptySeq
  <2> QED BY <2>1, <2>2
<1>4. c \in Seq(Seq(Nat \ {0}))
  BY <1>1, SeqMonotonic
<1>5. Len(c) \in Nat /\ DOMAIN c = 1 .. Len(c)
  BY <1>1, LenProperties
<1> QED BY <1>3, <1>4, <1>5 DEF c, Message

\* A chunk is as long on the wire as it is.
LEMMA DataTyped ==
    ASSUME NEW N, Nat \subseteq N, NEW c \in Seq(Nat \ {0})
    PROVE  /\ Data(c) \in Seq(Alphabet(N)) /\ Len(Data(c)) = Len(c)
<1> DEFINE V == Alphabet(N)
<1>1. /\ Len(c) \in Nat /\ DOMAIN c = 1 .. Len(c)
      /\ \A i \in 1 .. Len(c) : c[i] \in Nat
  BY LenProperties, ElementOfSeq
<1>2. \A i \in 1 .. Len(c) : Symbol("data", c[i]) \in V /\ Crlf \in V
  BY <1>1, SymbolIsOne DEF Crlf, SymbolTypes
<1> HIDE DEF V
<1>3. /\ Data(c) \in [1 .. Len(c) -> V]
      /\ DOMAIN Data(c) = 1 .. Len(c)
  BY <1>1, <1>2 DEF Data
<1>4. Data(c) \in Seq(V)
  BY <1>1, <1>3, SeqDef
<1>5. Len(Data(c)) = Len(c)
  BY <1>1, <1>3, <1>4, LenProperties
<1> QED BY <1>4, <1>5 DEF V

\* A function on 1 .. n is a sequence.
LEMMA FunctionIsSeq ==
    ASSUME NEW V, NEW n \in Nat, NEW f \in [1 .. n -> V]
    PROVE  f \in Seq(V) /\ Len(f) = n
<1>1. f \in Seq(V)
  BY SeqDef
<1> QED BY <1>1, LenProperties

\* The alphabet has a sign only if a size has one.
LEMMA SizeLineTyped ==
    ASSUME NEW N, Nat \subseteq N, NEW m, Message(m), NEW n \in Nat,
           m.fault = "negative" => N = Int
    PROVE  SizeLine(m, n) \in Seq(Alphabet(N))
<1> DEFINE V == Alphabet(N)
           type == IF m.fault = "badsize" THEN "badsize" ELSE "size"
           value == IF m.fault = "negative" /\ n > 0 THEN -n ELSE n
<1>1. type \in SymbolTypes /\ value \in N
  BY DEF SymbolTypes
<1>2. Symbol(type, value) \in V /\ Symbol("padding", 0) \in V /\ Crlf \in V
  BY <1>1, SymbolIsOne DEF Crlf, SymbolTypes
<1>3. SizeLine(m, n) = (<<Symbol(type, value)>> \o Times(m.extension, Symbol("padding", 0))) \o <<Crlf>>
  BY DEF SizeLine
<1> HIDE DEF V, type, value
<1>4. <<Symbol(type, value)>> \in Seq(V) /\ <<Crlf>> \in Seq(V)
  BY <1>2
<1>5. Times(m.extension, Symbol("padding", 0)) \in Seq(V)
  BY <1>2, TimesProperties, MessageFields
<1>6. \A a, b \in Seq(V) : a \o b \in Seq(V)
  BY ConcatProperties
<1>7. SizeLine(m, n) \in Seq(V)
  BY <1>3, <1>4, <1>5, <1>6, Zenon
<1> QED BY <1>7 DEF V

\* The pieces of a response are written in the alphabet.
LEMMA PiecesTyped ==
    ASSUME NEW N, Nat \subseteq N, NEW m, Message(m), m.fault = "negative" => N = Int
    PROVE  /\ Datas(m) \in Seq(Seq(Alphabet(N))) /\ Len(Datas(m)) = Len(m.chunks)
           /\ Codes(m) \in Seq(Seq(Alphabet(N))) /\ Len(Codes(m)) = Len(m.chunks)
           /\ \A i \in 1 .. Len(m.chunks) :
                /\ Datas(m)[i] = Data(m.chunks[i])
                /\ Codes(m)[i] = ChunkCode(m, i)
           /\ CrlfOf(m) \in Seq(Alphabet(N))
           /\ Content(m) \in Seq(Alphabet(N))
           /\ \A k \in Nat : Ending(m, k) \in Seq(Alphabet(N))
           /\ \A i \in 0 .. Len(m.chunks) : Chunks(m, i) \in Seq(Alphabet(N))
<1> DEFINE V == Alphabet(N)
           n == Len(m.chunks)
<1>1. /\ n \in Nat /\ DOMAIN m.chunks = 1 .. n /\ m.trailers \in Nat
      /\ \A i \in 1 .. n : m.chunks[i] \in Seq(Nat \ {0}) /\ Len(m.chunks[i]) \in Nat
  BY MessageFields
<1>2. \A a, b \in Seq(V) : a \o b \in Seq(V)
  BY ConcatProperties
<1>3. Crlf \in V /\ <<Crlf>> \in Seq(V) /\ <<>> \in Seq(V)
  <2>1. Crlf \in V
    BY SymbolIsOne DEF Crlf, SymbolTypes
  <2> HIDE DEF V
  <2> QED BY <2>1
<1>4. CrlfOf(m) \in Seq(V)
  BY <1>3 DEF CrlfOf
<1>5. \A i \in 1 .. n : Data(m.chunks[i]) \in Seq(V)
  BY <1>1, DataTyped
<1>6. \A k \in Nat : SizeLine(m, k) \in Seq(V)
  BY SizeLineTyped
<1> HIDE DEF V, n
<1>7. Datas(m) \in Seq(Seq(V)) /\ Len(Datas(m)) = n /\ \A i \in 1 .. n : Datas(m)[i] = Data(m.chunks[i])
  <2>1. Datas(m) \in [1 .. n -> Seq(V)]
    BY <1>1, <1>5 DEF Datas
  <2> QED BY <1>1, <2>1, FunctionIsSeq DEF Datas
<1>8. Codes(m) \in Seq(Seq(V)) /\ Len(Codes(m)) = n /\ \A i \in 1 .. n : Codes(m)[i] = ChunkCode(m, i)
  <2>1. ASSUME NEW i \in 1 .. n PROVE ChunkCode(m, i) \in Seq(V)
    <3>1. SizeLine(m, Len(m.chunks[i])) \in Seq(V) /\ Data(m.chunks[i]) \in Seq(V)
      BY <1>1, <1>5, <1>6
    <3> QED BY <1>2, <1>4, <3>1, Zenon DEF ChunkCode
  <2>2. Codes(m) \in [1 .. n -> Seq(V)]
    BY <1>1, <2>1 DEF Codes
  <2> QED BY <1>1, <2>2, FunctionIsSeq DEF Codes
<1>9. Content(m) \in Seq(V)
  <2>1. Content(m) = FlattenSeq(Datas(m))
    BY DEF Content, Datas
  <2> QED BY <1>7, <2>1, FlattenTyped
<1>10. \A k \in Nat : Ending(m, k) \in Seq(V)
  <2> SUFFICES ASSUME NEW k \in Nat PROVE Ending(m, k) \in Seq(V)
    OBVIOUS
  <2>1. /\ Symbol("badtrailer", 0) \in V /\ Symbol("trailer", 0) \in V
    BY SymbolIsOne DEF SymbolTypes, V
  <2>2. TrailerLine(m) \in Seq(V)
    BY <1>3, <2>1 DEF TrailerLine
  <2>3. FlattenSeq(Times(k, TrailerLine(m))) \in Seq(V)
    BY <2>2, FlattenTimes
  <2> QED BY <1>2, <1>3, <2>3, Zenon DEF Ending
<1>11. \A i \in 0 .. n : Chunks(m, i) \in Seq(V)
  <2> SUFFICES ASSUME NEW i \in 0 .. n PROVE Chunks(m, i) \in Seq(V)
    OBVIOUS
  <2>1. After(Codes(m), i) \in Seq(Seq(V))
    BY <1>8, AfterElements
  <2>2. FlattenSeq(After(Codes(m), i)) \in Seq(V)
    BY <2>1, FlattenTyped
  <2>3. SizeLine(m, 0) \in Seq(V) /\ Ending(m, m.trailers) \in Seq(V)
    BY <1>1, <1>6, <1>10
  <2> QED BY <1>2, <2>2, <2>3, Zenon DEF Chunks
<1> QED BY <1>4, <1>7, <1>8, <1>9, <1>10, <1>11 DEF V, n

\* The length of a concatenation.
LEMMA ConcatTyped ==
    ASSUME NEW V, NEW a \in Seq(V), NEW b \in Seq(V)
    PROVE  a \o b \in Seq(V) /\ Len(a \o b) = Len(a) + Len(b)
BY ConcatProperties

\* Associativity of three sequences, and of four.
LEMMA Assoc3 ==
    ASSUME NEW V, NEW a \in Seq(V), NEW b \in Seq(V), NEW c \in Seq(V)
    PROVE  (a \o b) \o c = a \o (b \o c)
BY ConcatAssociative

LEMMA AssociativeFour ==
    ASSUME NEW V, NEW a \in Seq(V), NEW b \in Seq(V), NEW c \in Seq(V), NEW d \in Seq(V)
    PROVE  ((a \o b) \o c) \o d = a \o (b \o (c \o d))
<1>1. PICK p \in Seq(V) : p = a \o b
  BY ConcatTyped
<1>2. PICK q \in Seq(V) : q = c \o d
  BY ConcatTyped
<1>3. (p \o c) \o d = p \o (c \o d)
  BY ConcatAssociative, SMTT(30)
<1>4. (a \o b) \o q = a \o (b \o q)
  BY Assoc3, SMTT(60)
<1> QED BY <1>1, <1>2, <1>3, <1>4, Zenon

\* What Encode sends: informational responses, the header block, and the rest.
LEMMA EncodeParts ==
    ASSUME NEW N, Nat \subseteq N, NEW m, Message(m), m.fault = "negative" => N = Int
    PROVE  /\ \A k \in Nat : Infos(k) \in Seq(Alphabet(N))
           /\ ResponseHead(m) \in Seq(Alphabet(N))
           /\ Rest(m) \in Seq(Alphabet(N))
           /\ Encode(m) = (Infos(m.infos) \o ResponseHead(m)) \o Rest(m)
           /\ Encode(m) \in Seq(Alphabet(N))
<1> DEFINE V == Alphabet(N)
<1>0. /\ m.infos \in Nat /\ m.fields \in Nat /\ m.padding \in Nat /\ m.fault \in Faults
      /\ m.framing \in {"chunked", "length", "close", "bodyless"}
      /\ Len(m.chunks) \in Nat
  BY MessageFields
<1>1. /\ Codes(m) \in Seq(Seq(V)) /\ Content(m) \in Seq(V)
      /\ \A k \in Nat : Ending(m, k) \in Seq(V)
      /\ \A i \in 0 .. Len(m.chunks) : Chunks(m, i) \in Seq(V)
  BY PiecesTyped
<1>2. \A k \in Nat : Infos(k) \in Seq(V)
  <2>1. Info \in Seq(V)
    BY BlockTyped DEF Info, SymbolTypes
  <2> HIDE DEF V
  <2> QED BY <2>1, FlattenTimes DEF Infos
<1>3. ResponseHead(m) \in Seq(V)
  <2>1. Len(Content(m)) \in Nat
    BY <1>1, LenProperties
  <2>2. HeadType(m) \in SymbolTypes
    BY <1>0 DEF HeadType, SymbolTypes
  <2> QED BY <1>0, <2>1, <2>2, BlockTyped DEF ResponseHead
<1>4. Rest(m) \in Seq(V)
  <2>1. <<>> \in Seq(V) /\ Chunks(m, 0) \in Seq(V)
    BY <1>0, <1>1
  <2> HIDE DEF V
  <2> QED BY <1>1, <2>1 DEF Rest
<1>5. Chunked(m) = Chunks(m, 0)
  <2> DEFINE a == FlattenSeq(Codes(m))
             b == SizeLine(m, 0)
             c == FlattenSeq(Times(m.trailers, TrailerLine(m)))
             d == <<Crlf>>
  <2>1. Chunked(m) = ((a \o b) \o c) \o d
    BY DEF Chunked, Codes, ChunkCode, CrlfOf, TrailerLine
  <2>2. Chunks(m, 0) = a \o (b \o (c \o d))
    <3>1. After(Codes(m), 0) = Codes(m)
      BY <1>1, SubSeqFull DEF After
    <3> QED BY <3>1 DEF Chunks, Ending
  <2>3. a \in Seq(V) /\ b \in Seq(V) /\ c \in Seq(V) /\ d \in Seq(V)
    <3>1. a \in Seq(V)
      BY <1>1, FlattenTyped
    <3>2. b \in Seq(V)
      BY SizeLineTyped
    <3>3. Crlf \in V /\ Symbol("badtrailer", 0) \in V /\ Symbol("trailer", 0) \in V
      BY SymbolIsOne DEF SymbolTypes, Crlf
    <3> HIDE DEF V
    <3>4. TrailerLine(m) \in Seq(V) /\ d \in Seq(V)
      BY <3>3 DEF TrailerLine
    <3>5. c \in Seq(V)
      BY <3>4, FlattenTimes, MessageFields
    <3> QED BY <3>1, <3>2, <3>4, <3>5
  <2> HIDE DEF V, a, b, c, d
  <2>5. ((a \o b) \o c) \o d = a \o (b \o (c \o d))
    BY <2>3, AssociativeFour, SMTT(60)
  <2> QED BY <2>1, <2>2, <2>5, Zenon
<1>6. Encode(m) = (Infos(m.infos) \o ResponseHead(m)) \o Rest(m)
  BY <1>5 DEF Encode, Infos, Info, ResponseHead, Rest
<1>7. \A a, b \in Seq(V) : a \o b \in Seq(V)
  BY ConcatProperties
<1>8. Infos(m.infos) \in Seq(V)
  BY <1>0, <1>2
<1> HIDE DEF V
<1>9. Encode(m) \in Seq(V)
  BY <1>3, <1>4, <1>6, <1>7, <1>8, Zenon
<1> QED BY <1>2, <1>3, <1>4, <1>6, <1>9 DEF V

\* The largest of the limits.
Limit == Max({MaxHeaderSize, MaxLineSize, MaxBodySize, MaxChunkSize})

-----------------------------------------------------------------------------
(* The operators that the reader is built from, and the bound on its memory. *)

\* The limits are natural numbers, and Limit is the largest.
LEMMA Limits ==
    /\ RecvSize \in Nat /\ RecvSize > 0
    /\ MaxHeaderSize \in Nat /\ MaxLineSize \in Nat /\ MaxBodySize \in Nat /\ MaxChunkSize \in Nat
    /\ MaxTrailers \in Nat
    /\ Limit \in Nat
    /\ MaxHeaderSize <= Limit /\ MaxLineSize <= Limit
    /\ MaxBodySize <= Limit /\ MaxChunkSize <= Limit
<1> DEFINE S == {MaxHeaderSize, MaxLineSize, MaxBodySize, MaxChunkSize}
<1>1. S \subseteq Nat /\ RecvSize \in Nat \ {0} /\ MaxTrailers \in Nat
  BY ReaderAssumption
<1>2. \E x \in S : \A y \in S : x >= y
  BY <1>1
<1>3. Limit \in S /\ \A y \in S : Limit >= y
  BY <1>2 DEF Limit, Max
<1> QED BY <1>1, <1>3

\* The greatest and the least of two numbers.
LEMMA TwoNumbers ==
    ASSUME NEW i \in Int, NEW j \in Int
    PROVE  /\ Max({i, j}) \in {i, j} /\ Max({i, j}) >= i /\ Max({i, j}) >= j
           /\ Min({i, j}) \in {i, j} /\ Min({i, j}) <= i /\ Min({i, j}) <= j
<1>1. \E x \in {i, j} : \A y \in {i, j} : x >= y
  OBVIOUS
<1>2. \E x \in {i, j} : \A y \in {i, j} : x <= y
  OBVIOUS
<1> QED BY <1>1, <1>2 DEF Max, Min

\* What is left when n symbols have gone.
LEMMA AfterProperties ==
    ASSUME NEW S, NEW q \in Seq(S), NEW n \in Nat
    PROVE  /\ After(q, n) \in Seq(S)
           /\ Len(After(q, n)) = IF n <= Len(q) THEN Len(q) - n ELSE 0
<1>1. Len(q) \in Nat /\ \A i \in n + 1 .. Len(q) : q[i] \in S
  BY LenProperties, ElementOfSeq
<1>2. /\ SubSeq(q, n + 1, Len(q)) \in Seq(S)
      /\ Len(SubSeq(q, n + 1, Len(q))) = IF n + 1 <= Len(q) THEN Len(q) - (n + 1) + 1 ELSE 0
  BY <1>1, SubSeqProperties
<1> QED BY <1>1, <1>2 DEF After

\* The first n symbols.
LEMMA FirstProperties ==
    ASSUME NEW S, NEW q \in Seq(S), NEW n \in Nat, n <= Len(q)
    PROVE  /\ SubSeq(q, 1, n) \in Seq(S)
           /\ Len(SubSeq(q, 1, n)) = n
<1>1. Len(q) \in Nat /\ \A i \in 1 .. n : q[i] \in S
  BY LenProperties, ElementOfSeq
<1> QED BY <1>1, SubSeqProperties

\* Where the header block ends.
LEMMA HeaderEndProperties ==
    ASSUME NEW S, buffer \in Seq(S)
    PROVE  HeaderEnd \in Nat /\ HeaderEnd + 1 <= Len(buffer) + 1
<1> DEFINE ends == {i \in 1 .. (Len(buffer) - 1) : {buffer[i], buffer[i + 1]} = {Crlf}}
<1>1. Len(buffer) \in Nat
  BY LenProperties
<1>2. CASE ends = {}
  BY <1>1, <1>2 DEF HeaderEnd
<1>3. CASE ends # {}
  <2>1. ends \in SUBSET Nat
    BY <1>1
  <2>2. Min(ends) \in ends
    BY <1>3, <2>1, LeastOfNaturals
  <2>3. HeaderEnd = Min(ends)
    BY <1>3 DEF HeaderEnd
  <2> QED BY <1>1, <2>2, <2>3
<1> QED BY <1>2, <1>3

\* The place of the first CRLF is a place in the buffer.
LEMMA LineEndProperties ==
    ASSUME NEW S, buffer \in Seq(S)
    PROVE  LineEnd \in Nat /\ LineEnd <= Len(buffer)
<1> DEFINE ends == {i \in 1 .. Len(buffer) : buffer[i] = Crlf}
<1>1. Len(buffer) \in Nat
  BY LenProperties
<1>2. LineEnd = IF ends # {} THEN Min(ends) ELSE 0
  BY DEF LineEnd, SelectInSeq
<1>3. CASE ends = {}
  BY <1>1, <1>2, <1>3
<1>4. CASE ends # {}
  <2>1. ends \in SUBSET Nat
    BY <1>1
  <2>2. Min(ends) \in ends
    BY <1>4, <2>1, LeastOfNaturals
  <2> QED BY <1>1, <1>2, <1>4, <2>2
<1> QED BY <1>3, <1>4

-----------------------------------------------------------------------------
(***************************************************************************)
(* The invariant.  Between two recvs the buffer holds no more than the     *)
(* loop's own limit, and one recv adds RecvSize to that or fills up to     *)
(* what read_exact needs; a size is compared with its limit before any of  *)
(* what it announces is read.                                              *)
(***************************************************************************)
Unsigned == Alphabet(Nat)
\* No server sends a size with a sign.  One that does is accepted, which
\* NegativeSizeIsRejected shows: what the reader does then is not what is proved here.
NoneSigned == \A m \in Messages : m.fault # "negative"

\* The reader holds sequences of symbols without a sign.
Sequences ==
    /\ wire \in Seq(Unsigned) /\ prefix \in Seq(Unsigned)
    /\ buffer \in Seq(Unsigned) /\ body \in Seq(Unsigned)

\* What it reads, and how much.
Places ==
    /\ pc \in {"head", "content", "line", "chunk", "crlf", "trailer", "close", "done"}
    /\ need \in Nat

\* The sizes that have been accepted.
Accepted ==
    /\ pc = "content" => body = <<>> /\ need <= MaxBodySize
    /\ pc = "chunk" => need <= MaxChunkSize /\ Len(body) + need <= MaxBodySize
    /\ pc = "crlf" => need = 1

\* What it holds.
Bounded ==
    /\ Len(buffer) <= Limit + RecvSize /\ Len(body) <= Limit + RecvSize
    /\ pc # "done" => Len(body) <= MaxBodySize
    /\ pc = "close" => Len(buffer) <= Len(body)
    /\ pc = "head" => body = <<>>

\* The inductive invariant of BufferBounded.
IInv == Sequences /\ Places /\ Accepted /\ Bounded

\* The invariant holds initially, and each action keeps it.
LEMMA InitIInv ==
    ASSUME NoneSigned, Init
    PROVE  IInv
<1>1. PICK n \in 0 .. Len(Encode(message)) :
         sent = SubSeq(Encode(message), 1, n)
                   \o (IF n = Len(Encode(message)) THEN Extra(message) ELSE <<>>)
  BY DEF Init
<1>2. Message(message) /\ Encode(message) \in Seq(Unsigned)
  <2>1. Message(message) /\ message.fault # "negative"
    BY MessagesAssumption DEF Init, NoneSigned
  <2> QED BY <2>1, EncodeParts DEF Unsigned
<1>3. n \in Nat /\ n <= Len(Encode(message))
  BY <1>2, LenProperties
<1>4. SubSeq(Encode(message), 1, n) \in Seq(Unsigned)
  BY <1>2, <1>3, FirstProperties
<1>5. Extra(message) \in Seq(Unsigned)
  <2>1. message.extra \in Nat
    BY <1>2, MessageFields
  <2>2. Symbol("info", 0) \in Unsigned
    BY SymbolIsOne DEF SymbolTypes, Unsigned
  <2> QED BY <2>1, <2>2, TimesProperties DEF Extra
<1>6. <<>> \in Seq(Unsigned) /\ Len(<<>>) = 0
  BY EmptySeq
<1>7. sent \in Seq(Unsigned)
  BY <1>1, <1>4, <1>5, <1>6, ConcatProperties
<1> QED
  BY <1>6, <1>7, Limits DEF Init, IInv, Sequences, Places, Accepted, Bounded

LEMMA RecvInv ==
    ASSUME IInv, Recv
    PROVE  IInv'
<1>1. /\ Len(buffer) \in Nat /\ Len(body) \in Nat /\ Len(prefix) \in Nat /\ Len(wire) \in Nat
      /\ pc # "done"
  BY LenProperties DEF IInv, Sequences, Recv, Waiting
<1>2. PICK chunk \in Available :
         /\ IF prefix # <<>> THEN prefix' = After(prefix, Len(chunk)) /\ UNCHANGED wire
                             ELSE wire' = After(wire, Len(chunk)) /\ UNCHANGED prefix
         /\ buffer' = buffer \o chunk
         /\ body' = IF pc = "close" THEN body \o chunk ELSE body
  BY DEF Recv
<1>3. /\ Wanted \in Nat
      /\ \/ Wanted = RecvSize
         \/ /\ pc \in {"content", "chunk", "crlf"}
            /\ Wanted = need - Len(buffer)
  <2>1. RecvSize \in Nat /\ RecvSize \in Int /\ need - Len(buffer) \in Int
    BY <1>1, Limits DEF IInv, Places
  <2>2. CASE pc \in {"content", "chunk", "crlf"}
    <3>1. Wanted = Max({RecvSize, need - Len(buffer)})
      BY <2>2 DEF Wanted
    <3>2. /\ Max({RecvSize, need - Len(buffer)}) \in {RecvSize, need - Len(buffer)}
          /\ Max({RecvSize, need - Len(buffer)}) >= RecvSize
      BY <2>1, TwoNumbers
    <3>3. Wanted \in {RecvSize, need - Len(buffer)} /\ Wanted >= RecvSize
      BY <3>1, <3>2
    <3> QED BY <2>1, <2>2, <3>3
  <2>3. CASE pc \notin {"content", "chunk", "crlf"}
    <3>1. Wanted = RecvSize
      BY <2>3 DEF Wanted
    <3> QED BY <2>1, <3>1
  <2> QED BY <2>2, <2>3
<1>4. chunk \in Seq(Unsigned) /\ Len(chunk) \in Nat /\ Len(chunk) <= Wanted
  <2>1. CASE prefix # <<>>
    <3> DEFINE n == Min({Wanted, Len(prefix)})
    <3>1. Wanted \in Int /\ Len(prefix) \in Int
      BY <1>1, <1>3
    <3>2. n \in {Wanted, Len(prefix)} /\ n <= Wanted /\ n <= Len(prefix)
      BY <3>1, TwoNumbers
    <3>3. chunk = SubSeq(prefix, 1, n)
      BY <2>1 DEF Available
    <3> HIDE DEF n
    <3> QED BY <1>1, <1>3, <3>2, <3>3, FirstProperties DEF IInv, Sequences
  <2>2. CASE prefix = <<>>
    <3> DEFINE most == Min({Wanted, Len(wire)})
    <3>1. Wanted \in Int /\ Len(wire) \in Int
      BY <1>1, <1>3
    <3>2. most \in {Wanted, Len(wire)} /\ most <= Wanted /\ most <= Len(wire)
      BY <3>1, TwoNumbers
    <3>3. PICK n \in 1 .. most : chunk = SubSeq(wire, 1, n)
      BY <2>2 DEF Available
    <3> HIDE DEF most
    <3>4. n \in Nat /\ n <= Wanted /\ n <= Len(wire)
      BY <3>1, <3>2, <3>3
    <3> QED BY <3>3, <3>4, FirstProperties DEF IInv, Sequences
  <2> QED BY <2>1, <2>2
<1>5. wire' \in Seq(Unsigned) /\ prefix' \in Seq(Unsigned)
  BY <1>2, <1>4, AfterProperties DEF IInv, Sequences
<1>6. /\ buffer' \in Seq(Unsigned) /\ Len(buffer') = Len(buffer) + Len(chunk)
      /\ body' \in Seq(Unsigned)
      /\ Len(body') = IF pc = "close" THEN Len(body) + Len(chunk) ELSE Len(body)
  BY <1>2, <1>4, ConcatProperties DEF IInv, Sequences
<1>7. /\ need' = need /\ pc' \in {pc, "done"}
      /\ pc' # "done" => ~(pc = "close" /\ Len(body') > MaxBodySize)
  BY DEF Recv, End, Continue
<1>8. Len(buffer) + Len(chunk) <= Limit + RecvSize /\ (pc = "close" => Len(chunk) <= RecvSize)
  <2>1. CASE pc \in {"head", "line", "trailer"}
    BY <1>1, <1>3, <1>4, <2>1, Limits DEF Recv, TooLong
  <2>2. CASE pc \in {"content", "chunk", "crlf"}
    <3>1. Len(buffer) < need /\ (need <= Limit \/ need = 1)
      BY <1>1, <2>2, Limits DEF Recv, Waiting, Ready, IInv, Places, Accepted
    <3> QED BY <1>1, <1>3, <1>4, <2>2, <3>1, Limits DEF IInv, Places
  <2>3. CASE pc = "close"
    BY <1>1, <1>3, <1>4, <2>3, Limits DEF IInv, Bounded
  <2> QED BY <1>1, <2>1, <2>2, <2>3 DEF IInv, Places
<1>9. Len(body') <= Limit + RecvSize /\ (pc' # "done" => Len(body') <= MaxBodySize)
  BY <1>1, <1>4, <1>6, <1>7, <1>8, Limits DEF IInv, Bounded
<1>10. pc = "close" => Len(buffer') <= Len(body')
  BY <1>1, <1>4, <1>6 DEF IInv, Bounded
<1>11. pc # "close" => body' = body
  BY <1>2
<1> QED
  BY <1>1, <1>5, <1>6, <1>7, <1>8, <1>9, <1>10, <1>11
  DEF IInv, Sequences, Places, Accepted, Bounded

\* A step that reads or rejects leaves a buffer that is no longer.
LEMMA DropProperties ==
    ASSUME Sequences, NEW n \in Nat
    PROVE  /\ Drop(n) \in Seq(Unsigned)
           /\ Len(Drop(n)) \in Nat
           /\ Len(Drop(n)) <= Len(buffer)
<1>1. Len(buffer) \in Nat
  BY LenProperties DEF Sequences
<1>2. /\ After(buffer, n) \in Seq(Unsigned)
      /\ Len(After(buffer, n)) = IF n <= Len(buffer) THEN Len(buffer) - n ELSE 0
  BY AfterProperties DEF Sequences
<1> QED BY <1>1, <1>2 DEF Drop

\* What read_exact does when the buffer holds what it needs.
LEMMA ReadExactProperties ==
    ASSUME IInv, ReadExact, need <= Len(buffer)
    PROVE  /\ buffer' \in Seq(Unsigned) /\ Len(buffer') \in Nat /\ Len(buffer') <= Len(buffer)
           /\ body' \in Seq(Unsigned) /\ Len(body') = Len(body) + need
<1>1. need \in Nat /\ CutAt(need) = need
  BY DEF IInv, Places, CutAt
<1>2. /\ SubSeq(buffer, 1, need) \in Seq(Unsigned)
      /\ Len(SubSeq(buffer, 1, need)) = need
  BY <1>1, FirstProperties DEF IInv, Sequences
<1>3. body' = body \o SubSeq(buffer, 1, need) /\ buffer' = Drop(need)
  BY <1>1 DEF ReadExact
<1>4. /\ Drop(need) \in Seq(Unsigned) /\ Len(Drop(need)) \in Nat
      /\ Len(Drop(need)) <= Len(buffer)
  BY <1>1, DropProperties DEF IInv
<1> QED BY <1>2, <1>3, <1>4, ConcatProperties DEF IInv, Sequences

\* What ends a response without reading.
LEMMA EndInv ==
    ASSUME IInv, UNCHANGED <<streamVars, buffer, resultVars>>, pc' = "done"
    PROVE  IInv'
BY DEF streamVars, resultVars, IInv, Sequences, Places, Accepted, Bounded

LEMMA SkipInformationalInv ==
    ASSUME IInv, SkipInformational
    PROVE  IInv'
<1>1. HeaderEnd \in Nat
  BY HeaderEndProperties DEF IInv, Sequences
<1>2. Drop(HeaderEnd + 1) \in Seq(Unsigned)
  BY <1>1, DropProperties DEF IInv
<1>3. prefix' \in Seq(Unsigned)
  BY <1>2, ConcatProperties DEF SkipInformational, IInv, Sequences
<1>4. buffer' = <<>> /\ buffer' \in Seq(Unsigned) /\ Len(buffer') = 0
  BY EmptySeq DEF SkipInformational
<1>5. pc = "head" /\ pc' = "head" /\ wire' = wire /\ need' = need /\ body' = body
  BY DEF SkipInformational, Continue, resultVars
<1> QED
  BY <1>3, <1>4, <1>5, Limits DEF IInv, Sequences, Places, Accepted, Bounded

LEMMA SelectFramingInv ==
    ASSUME IInv, SelectFraming
    PROVE  IInv'
<1> DEFINE start == Drop(HeaderEnd + 1)
<1>1. /\ pc = "head" /\ body = <<>> /\ Len(body) = 0 /\ Len(buffer) \in Nat
      /\ wire' = wire /\ prefix' = prefix
  BY LenProperties, EmptySeq DEF SelectFraming, IInv, Sequences, Bounded, streamVars
<1>2. HeaderEnd \in Nat /\ HeaderEnd > 0 /\ HeaderEnd + 1 <= Len(buffer) + 1
  <2>1. HeaderEnd \in Nat /\ HeaderEnd + 1 <= Len(buffer) + 1
    BY HeaderEndProperties DEF IInv, Sequences
  <2>2. HeaderEnd > 0
    BY <1>1 DEF SelectFraming, Ready
  <2> QED BY <2>1, <2>2
<1>3. start \in Seq(Unsigned) /\ Len(start) \in Nat /\ Len(start) <= Len(buffer)
  <2>1. HeaderEnd + 1 \in Nat /\ Sequences
    BY <1>2 DEF IInv
  <2> QED BY <2>1, DropProperties
<1>4. StatusLine \in Unsigned
  BY <1>1, <1>2, ElementOfSeq DEF StatusLine, IInv, Sequences
<1>5. StatusLine.value \in Nat
  BY <1>4 DEF Unsigned, Alphabet
<1> HIDE DEF start
<1>6. \/ pc' = "done" /\ buffer' = start /\ UNCHANGED resultVars
      \/ pc' = "line" /\ buffer' = start /\ UNCHANGED resultVars
      \/ /\ StatusLine.value <= MaxBodySize
         /\ pc' = "content" /\ buffer' = start /\ need' = StatusLine.value /\ body' = body
      \/ /\ Len(start) <= MaxBodySize
         /\ pc' = "close" /\ buffer' = <<>> /\ body' = start /\ need' = need
      \/ pc' = "done" /\ UNCHANGED <<buffer, resultVars>>
  BY DEF SelectFraming, End, Continue, start
<1>7. <<>> \in Seq(Unsigned) /\ Len(<<>>) = 0
  BY EmptySeq
<1>8. UNCHANGED resultVars => need' = need /\ body' = body
  BY DEF resultVars
<1>9. /\ buffer' \in Seq(Unsigned) /\ Len(buffer') <= Len(buffer)
      /\ body' \in Seq(Unsigned) /\ Len(body') <= MaxBodySize
      /\ need' \in Nat
  <2>1. /\ buffer \in Seq(Unsigned) /\ body \in Seq(Unsigned)
        /\ need \in Nat /\ Len(body) <= MaxBodySize
    BY <1>1, Limits DEF IInv, Sequences, Places
  <2>2. buffer' \in Seq(Unsigned) /\ Len(buffer') <= Len(buffer)
    <3>1. buffer' = start \/ buffer' = <<>> \/ buffer' = buffer
      BY <1>6
    <3>2. CASE buffer' = start
      BY <1>3, <3>2
    <3>3. CASE buffer' = <<>>
      <4>1. buffer' \in Seq(Unsigned) /\ Len(buffer') = 0
        BY <1>7, <3>3
      <4> QED BY <1>1, <4>1
    <3>4. CASE buffer' = buffer
      BY <1>1, <2>1, <3>4
    <3> QED BY <3>1, <3>2, <3>3, <3>4
  <2>3. body' \in Seq(Unsigned) /\ Len(body') <= MaxBodySize
    <3>1. body' = body \/ (body' = start /\ Len(start) <= MaxBodySize)
      BY <1>6, <1>8
    <3> QED BY <1>3, <2>1, <3>1
  <2>4. need' \in Nat
    BY <1>5, <1>6, <1>8, <2>1
  <2> QED BY <2>2, <2>3, <2>4
<1>10. /\ pc' \in {"done", "line", "content", "close"}
       /\ pc' = "content" => body' = <<>> /\ need' <= MaxBodySize
       /\ pc' = "close" => Len(buffer') <= Len(body')
  BY <1>1, <1>3, <1>6, <1>7
<1> QED
  BY <1>1, <1>3, <1>9, <1>10, Limits DEF IInv, Sequences, Places, Accepted, Bounded

LEMMA ReadContentInv ==
    ASSUME IInv, ReadContent
    PROVE  IInv'
<1>1. /\ need <= Len(buffer) /\ need \in Nat /\ need <= MaxBodySize
      /\ Len(body) = 0 /\ Len(buffer) \in Nat
  BY LenProperties, EmptySeq DEF ReadContent, Ready, IInv, Sequences, Places, Accepted
<1>2. /\ buffer' \in Seq(Unsigned) /\ Len(buffer') \in Nat /\ Len(buffer') <= Len(buffer)
      /\ body' \in Seq(Unsigned) /\ Len(body') = Len(body) + need
  BY <1>1, ReadExactProperties DEF ReadContent
<1>3. pc' = "done" /\ need' = need /\ wire' = wire /\ prefix' = prefix
  BY DEF ReadContent, ReadExact, End, streamVars
<1> QED
  BY <1>1, <1>2, <1>3, Limits DEF IInv, Sequences, Places, Accepted, Bounded

LEMMA ReadSizeInv ==
    ASSUME IInv, ReadSize
    PROVE  IInv'
<1>1. CASE ~SizeAcceptable
  BY <1>1, EndInv DEF ReadSize, Reject, End
<1>2. CASE SizeAcceptable
  <2>1. Len(buffer) \in Nat /\ Len(body) \in Nat /\ LineEnd \in Nat /\ LineEnd <= Len(buffer)
    BY LenProperties, LineEndProperties DEF IInv, Sequences
  <2>2. LineEnd > 0
    BY DEF ReadSize, Ready
  <2>3. buffer[1] \in Unsigned
    BY <2>1, <2>2, ElementOfSeq DEF IInv, Sequences
  <2>4. /\ Drop(LineEnd) \in Seq(Unsigned) /\ Len(Drop(LineEnd)) \in Nat
        /\ Len(Drop(LineEnd)) <= Len(buffer)
    BY <2>1, DropProperties DEF IInv
  <2> DEFINE size == buffer[1].value
  <2>5. /\ size \in Nat /\ size <= MaxChunkSize
        /\ size # 0 => Len(body) + size <= MaxBodySize
    BY <1>2, <2>3 DEF Unsigned, Alphabet, SizeAcceptable, BodyFits
  <2>6. /\ pc = "line" /\ pc' = IF size = 0 THEN "trailer" ELSE "chunk"
        /\ need' = size /\ buffer' = Drop(LineEnd)
        /\ wire' = wire /\ prefix' = prefix /\ body' = body
    BY <1>2 DEF ReadSize, Continue, streamVars
  <2> HIDE DEF size
  <2>7. pc' \in {"trailer", "chunk"} /\ (pc' = "chunk" => size # 0)
    BY <2>6
  <2> QED
    BY <2>1, <2>4, <2>5, <2>6, <2>7, Limits
    DEF IInv, Sequences, Places, Accepted, Bounded
<1> QED BY <1>1, <1>2

LEMMA ReadChunkInv ==
    ASSUME IInv, ReadChunk
    PROVE  IInv'
<1>1. /\ need <= Len(buffer) /\ need \in Nat /\ Len(body) + need <= MaxBodySize
      /\ Len(body) \in Nat /\ Len(buffer) \in Nat
  BY LenProperties DEF ReadChunk, Ready, IInv, Sequences, Places, Accepted
<1>2. /\ buffer' \in Seq(Unsigned) /\ Len(buffer') \in Nat /\ Len(buffer') <= Len(buffer)
      /\ body' \in Seq(Unsigned) /\ Len(body') = Len(body) + need
  BY <1>1, ReadExactProperties DEF ReadChunk
<1>3. pc' = "crlf" /\ need' = 1 /\ wire' = wire /\ prefix' = prefix
  BY DEF ReadChunk, ReadExact, Continue, streamVars
<1> QED
  BY <1>1, <1>2, <1>3, Limits DEF IInv, Sequences, Places, Accepted, Bounded

LEMMA ReadCrlfInv ==
    ASSUME IInv, ReadCrlf
    PROVE  IInv'
<1>1. CASE buffer[1] # Crlf
  BY <1>1, EndInv DEF ReadCrlf, Reject, End
<1>2. CASE buffer[1] = Crlf
  <2>1. /\ Drop(1) \in Seq(Unsigned) /\ Len(Drop(1)) \in Nat /\ Len(Drop(1)) <= Len(buffer)
        /\ Len(buffer) \in Nat /\ Len(body) \in Nat
    BY DropProperties, LenProperties DEF IInv, Sequences
  <2>2. /\ pc = "crlf" /\ pc' = "line" /\ buffer' = Drop(1)
        /\ wire' = wire /\ prefix' = prefix /\ need' = need /\ body' = body
    BY <1>2 DEF ReadCrlf, Continue, streamVars, resultVars
  <2> QED
    BY <2>1, <2>2, Limits DEF IInv, Sequences, Places, Accepted, Bounded
<1> QED BY <1>1, <1>2

LEMMA LastTrailerInv ==
    ASSUME IInv, LastTrailer
    PROVE  IInv'
<1>1. /\ Drop(1) \in Seq(Unsigned) /\ Len(Drop(1)) \in Nat /\ Len(Drop(1)) <= Len(buffer)
      /\ Len(buffer) \in Nat /\ Len(body) \in Nat
  BY DropProperties, LenProperties DEF IInv, Sequences
<1>2. /\ pc' = "done" /\ buffer' = Drop(1)
      /\ wire' = wire /\ prefix' = prefix /\ need' = need /\ body' = body
  BY DEF LastTrailer, End, streamVars, resultVars
<1> QED
  BY <1>1, <1>2, Limits DEF IInv, Sequences, Places, Accepted, Bounded

LEMMA ReadTrailerInv ==
    ASSUME IInv, ReadTrailer
    PROVE  IInv'
<1> DEFINE fits == buffer[1].type = "trailer" /\ TrailerFits
<1>1. CASE ~fits
  BY <1>1, EndInv DEF ReadTrailer, Reject, End
<1>2. CASE fits
  <2>1. LineEnd \in Nat
    BY LineEndProperties DEF IInv, Sequences
  <2>2. /\ Drop(LineEnd) \in Seq(Unsigned) /\ Len(Drop(LineEnd)) \in Nat
        /\ Len(Drop(LineEnd)) <= Len(buffer)
        /\ Len(buffer) \in Nat /\ Len(body) \in Nat
    BY <2>1, DropProperties, LenProperties DEF IInv, Sequences
  <2>3. /\ pc = "trailer" /\ pc' = "trailer" /\ buffer' = Drop(LineEnd)
        /\ wire' = wire /\ prefix' = prefix /\ need' = need /\ body' = body
    BY <1>2 DEF ReadTrailer, Continue, streamVars
  <2> QED
    BY <2>2, <2>3, Limits DEF IInv, Sequences, Places, Accepted, Bounded
<1> QED BY <1>1, <1>2

\* Every step keeps the invariant.
LEMMA NextInv ==
    ASSUME IInv, [Next]_vars
    PROVE  IInv'
<1>1. CASE RejectTooLong
  BY <1>1, EndInv DEF RejectTooLong, Reject, End
<1>2. CASE Recv
  BY <1>2, RecvInv
<1>3. CASE Eof
  BY <1>3, EndInv DEF Eof, End
<1>4. CASE RecvFails
  BY <1>4, EndInv DEF RecvFails, End
<1>5. CASE RejectHead
  BY <1>5, EndInv DEF RejectHead, Reject, End
<1>6. CASE SkipInformational
  BY <1>6, SkipInformationalInv
<1>7. CASE SelectFraming
  BY <1>7, SelectFramingInv
<1>8. CASE ReadContent
  BY <1>8, ReadContentInv
<1>9. CASE ReadSize
  BY <1>9, ReadSizeInv
<1>10. CASE ReadChunk
  BY <1>10, ReadChunkInv
<1>11. CASE ReadCrlf
  BY <1>11, ReadCrlfInv
<1>12. CASE LastTrailer
  BY <1>12, LastTrailerInv
<1>13. CASE ReadTrailer
  BY <1>13, ReadTrailerInv
<1>14. CASE UNCHANGED vars
  BY <1>14
  DEF vars, streamVars, resultVars, IInv, Sequences, Places, Accepted, Bounded
<1> QED
  BY <1>1, <1>2, <1>3, <1>4, <1>5, <1>6, <1>7, <1>8, <1>9, <1>10, <1>11, <1>12, <1>13, <1>14
  DEF Next

-----------------------------------------------------------------------------

\* For any messages without a signed chunk size, any cut and any limits: the reader
\* never holds more of a response than its largest limit and one recv (buffer of
\* _BufferedReader and _read_header_block, and the body they decode).
THEOREM ReaderBufferBounded ==
    ASSUME NoneSigned
    PROVE  Spec => []BufferBounded
<1>1. Init => IInv
  BY InitIInv
<1>2. IInv /\ [Next]_vars => IInv'
  BY NextInv
<1>3. IInv => BufferBounded
  <2> SUFFICES ASSUME IInv PROVE BufferBounded
    OBVIOUS
  <2>1. Len(buffer) \in Nat /\ Len(body) \in Nat
    BY LenProperties DEF IInv, Sequences
  <2>2. Len(buffer) \in 0 .. (Limit + RecvSize) /\ Len(body) \in 0 .. (Limit + RecvSize)
    BY <2>1, Limits DEF IInv, Bounded
  <2> QED BY <2>2 DEF BufferBounded, Limit
<1> QED BY <1>1, <1>2, <1>3, PTL DEF Spec

-----------------------------------------------------------------------------
(* Type correctness. *)

\* Type correctness: the sizes may have a sign.
LEMMA SymbolsAlphabet == Symbols = Alphabet(Int)
BY DEF Symbols, Alphabet

LEMMA InitTypeOK ==
    ASSUME Init
    PROVE  TypeOK
<1>1. PICK n \in 0 .. Len(Encode(message)) :
         sent = SubSeq(Encode(message), 1, n)
                   \o (IF n = Len(Encode(message)) THEN Extra(message) ELSE <<>>)
  BY DEF Init
<1>2. Message(message) /\ Encode(message) \in Seq(Symbols)
  BY MessagesAssumption, EncodeParts, SymbolsAlphabet DEF Init
<1>3. n \in Nat /\ n <= Len(Encode(message))
  BY <1>2, LenProperties
<1>4. SubSeq(Encode(message), 1, n) \in Seq(Symbols)
  BY <1>2, <1>3, FirstProperties
<1>5. Extra(message) \in Seq(Symbols)
  <2>1. message.extra \in Nat
    BY <1>2, MessageFields
  <2>2. Symbol("info", 0) \in Symbols
    BY SymbolIsOne, SymbolsAlphabet DEF SymbolTypes
  <2> QED BY <2>1, <2>2, TimesProperties DEF Extra
<1>6. <<>> \in Seq(Symbols)
  BY EmptySeq
<1>7. sent \in Seq(Symbols)
  BY <1>1, <1>4, <1>5, <1>6, ConcatProperties
<1> QED
  BY <1>2, <1>6, <1>7, Limits DEF Init, TypeOK

\* What a recv returns is a part of what it reads from.
LEMMA AvailableTyped ==
    ASSUME TypeOK, Recv, NEW chunk \in Available
    PROVE  chunk \in Seq(Symbols) /\ Len(chunk) \in Nat
<1>1. wire \in Seq(Symbols) /\ prefix \in Seq(Symbols) /\ buffer \in Seq(Symbols) /\ need \in Int
  BY DEF TypeOK
<1>2. Len(wire) \in Nat /\ Len(prefix) \in Nat /\ Len(buffer) \in Nat
  BY <1>1, LenProperties
<1>3. Wanted \in Nat
  <2>1. RecvSize \in Int /\ RecvSize \in Nat /\ need - Len(buffer) \in Int
    BY <1>1, <1>2, Limits
  <2>2. Max({RecvSize, need - Len(buffer)}) \in {RecvSize, need - Len(buffer)}
        /\ Max({RecvSize, need - Len(buffer)}) >= RecvSize
    BY <2>1, TwoNumbers
  <2>3. Wanted \in {RecvSize, need - Len(buffer)} /\ Wanted >= RecvSize
    BY <2>1, <2>2 DEF Wanted
  <2> QED BY <2>1, <2>3
<1>4. CASE prefix # <<>>
  <2> DEFINE n == Min({Wanted, Len(prefix)})
  <2>1. Wanted \in Int /\ Len(prefix) \in Int
    BY <1>2, <1>3
  <2>2. n \in {Wanted, Len(prefix)} /\ n <= Len(prefix)
    BY <2>1, TwoNumbers
  <2>3. chunk = SubSeq(prefix, 1, n)
    BY <1>4 DEF Available
  <2> HIDE DEF n
  <2> QED BY <1>1, <1>2, <1>3, <2>2, <2>3, FirstProperties
<1>5. CASE prefix = <<>>
  <2> DEFINE most == Min({Wanted, Len(wire)})
  <2>1. Wanted \in Int /\ Len(wire) \in Int
    BY <1>2, <1>3
  <2>2. most \in {Wanted, Len(wire)} /\ most <= Len(wire)
    BY <2>1, TwoNumbers
  <2>3. PICK n \in 1 .. most : chunk = SubSeq(wire, 1, n)
    BY <1>5 DEF Available
  <2> HIDE DEF most
  <2>4. n \in Nat /\ n <= Len(wire)
    BY <2>1, <2>2, <2>3
  <2> QED BY <1>1, <2>3, <2>4, FirstProperties
<1> QED BY <1>4, <1>5

LEMMA RecvTypeOK ==
    ASSUME TypeOK, Recv
    PROVE  TypeOK'
<1>1. PICK chunk \in Available :
         /\ IF prefix # <<>> THEN prefix' = After(prefix, Len(chunk)) /\ UNCHANGED wire
                             ELSE wire' = After(wire, Len(chunk)) /\ UNCHANGED prefix
         /\ buffer' = buffer \o chunk
         /\ body' = IF pc = "close" THEN body \o chunk ELSE body
  BY DEF Recv
<1>2. chunk \in Seq(Symbols) /\ Len(chunk) \in Nat
  BY AvailableTyped
<1>3. wire \in Seq(Symbols) /\ prefix \in Seq(Symbols) /\ buffer \in Seq(Symbols)
      /\ body \in Seq(Symbols) /\ sent \in Seq(Symbols)
  BY DEF TypeOK
<1>4. wire' \in Seq(Symbols) /\ prefix' \in Seq(Symbols)
  BY <1>1, <1>2, <1>3, AfterProperties
<1>5. buffer' \in Seq(Symbols) /\ body' \in Seq(Symbols)
  BY <1>1, <1>2, <1>3, ConcatProperties
<1>6. /\ message' = message /\ sent' = sent /\ need' = need /\ trailers' = trailers
      /\ \/ pc' = "done" /\ outcome' = "ProtocolError"
         \/ pc' = pc /\ outcome' = outcome
  BY DEF Recv, End, Continue, serverVars
<1>7. pc # "done"
  BY DEF Recv, Waiting
<1> QED BY <1>3, <1>4, <1>5, <1>6, <1>7 DEF TypeOK

\* A reader that stops keeps what it has.
LEMMA EndTypeOK ==
    ASSUME TypeOK, UNCHANGED <<streamVars, buffer, resultVars>>,
           NEW how \in {"response", "ProtocolError", "RequestTimeout", "OSError"}, End(how)
    PROVE  TypeOK'
BY DEF streamVars, resultVars, serverVars, End, TypeOK

LEMMA DropTyped ==
    ASSUME TypeOK, NEW n \in Nat
    PROVE  Drop(n) \in Seq(Symbols)
BY AfterProperties DEF TypeOK, Drop

LEMMA PlacesTyped ==
    ASSUME TypeOK
    PROVE  HeaderEnd \in Nat /\ LineEnd \in Nat /\ LineEnd <= Len(buffer)
           /\ HeaderEnd + 1 <= Len(buffer) + 1
<1>1. buffer \in Seq(Symbols)
  BY DEF TypeOK
<1> QED BY <1>1, HeaderEndProperties, LineEndProperties

LEMMA SelectFramingTypeOK ==
    ASSUME TypeOK, SelectFraming
    PROVE  TypeOK'
<1> DEFINE start == Drop(HeaderEnd + 1)
<1>1. start \in Seq(Symbols) /\ <<>> \in Seq(Symbols)
  <2>1. HeaderEnd + 1 \in Nat
    BY PlacesTyped
  <2> QED BY <2>1, DropTyped, EmptySeq
<1>2. StatusLine.value \in Int
  <2>1. Len(buffer) \in Nat /\ HeaderEnd \in Nat /\ HeaderEnd <= Len(buffer) /\ HeaderEnd > 0
    <3>1. buffer \in Seq(Symbols)
      BY DEF TypeOK
    <3>2. Len(buffer) \in Nat
      BY <3>1, LenProperties
    <3> QED BY <3>2, PlacesTyped DEF SelectFraming, Ready
  <2>2. StatusLine \in Symbols
    BY <2>1, ElementOfSeq DEF StatusLine, TypeOK
  <2> QED BY <2>2 DEF Symbols
<1> HIDE DEF start
<1>3. /\ message' = message /\ sent' = sent /\ wire' = wire /\ prefix' = prefix
      /\ \/ /\ pc' = "done" /\ outcome' = "response" /\ buffer' = start /\ UNCHANGED resultVars
         \/ /\ pc' = "line" /\ outcome' = outcome /\ buffer' = start /\ UNCHANGED resultVars
         \/ /\ pc' = "content" /\ outcome' = outcome /\ buffer' = start
            /\ need' = StatusLine.value /\ body' = body /\ trailers' = trailers
         \/ /\ pc' = "close" /\ outcome' = outcome /\ buffer' = <<>> /\ body' = start
            /\ need' = need /\ trailers' = trailers
         \/ /\ pc' = "done" /\ outcome' = "ProtocolError" /\ UNCHANGED <<buffer, resultVars>>
  BY DEF SelectFraming, End, Continue, start, streamVars, serverVars
<1>4. pc # "done"
  BY DEF SelectFraming
<1>5. sent \in Seq(Symbols) /\ wire \in Seq(Symbols) /\ prefix \in Seq(Symbols)
      /\ buffer \in Seq(Symbols) /\ body \in Seq(Symbols)
  BY DEF TypeOK
<1>6. {sent', wire', prefix', buffer', body'} \subseteq Seq(Symbols)
  BY <1>1, <1>3, <1>5 DEF resultVars
<1>7. need' \in Int /\ trailers' \in 0 .. MaxTrailers
  BY <1>2, <1>3 DEF resultVars, TypeOK
<1> QED BY <1>3, <1>4, <1>6, <1>7 DEF TypeOK

LEMMA ReadExactTyped ==
    ASSUME TypeOK, ReadExact, Len(buffer) >= need
    PROVE  buffer' \in Seq(Symbols) /\ body' \in Seq(Symbols)
<1>1. buffer \in Seq(Symbols) /\ body \in Seq(Symbols) /\ need \in Int
  BY DEF TypeOK
<1>2. Len(buffer) \in Nat
  BY <1>1, LenProperties
<1>3. CutAt(need) \in Nat /\ CutAt(need) <= Len(buffer)
  <2>1. 0 \in Int /\ Len(buffer) + need \in Int
    BY <1>1, <1>2
  <2>2. Max({0, Len(buffer) + need}) \in {0, Len(buffer) + need}
        /\ Max({0, Len(buffer) + need}) >= 0
    BY <2>1, TwoNumbers
  <2>3. CASE need >= 0
    BY <1>1, <1>2, <2>3 DEF CutAt
  <2>4. CASE ~(need >= 0)
    <3>1. CutAt(need) \in {0, Len(buffer) + need} /\ CutAt(need) >= 0
      BY <2>2, <2>4 DEF CutAt
    <3> QED BY <1>1, <1>2, <2>4, <3>1
  <2> QED BY <2>3, <2>4
<1>4. SubSeq(buffer, 1, CutAt(need)) \in Seq(Symbols) /\ Drop(CutAt(need)) \in Seq(Symbols)
  BY <1>1, <1>3, FirstProperties, DropTyped
<1> QED BY <1>1, <1>4, ConcatProperties DEF ReadExact

\* Every step keeps the types.
LEMMA NextTypeOK ==
    ASSUME TypeOK, [Next]_vars
    PROVE  TypeOK'
<1>0. buffer \in Seq(Symbols) /\ Len(buffer) \in Nat /\ need \in Int
  BY LenProperties DEF TypeOK
<1>1. CASE RejectTooLong
  BY <1>1, EndTypeOK DEF RejectTooLong, Reject
<1>2. CASE Recv
  BY <1>2, RecvTypeOK
<1>3. CASE Eof
  BY <1>3, EndTypeOK DEF Eof
<1>4. CASE RecvFails
  BY <1>4, EndTypeOK DEF RecvFails
<1>5. CASE RejectHead
  BY <1>5, EndTypeOK DEF RejectHead, Reject
<1>6. CASE SkipInformational
  <2>1. HeaderEnd + 1 \in Nat
    BY PlacesTyped
  <2>2. Drop(HeaderEnd + 1) \in Seq(Symbols) /\ prefix \in Seq(Symbols) /\ <<>> \in Seq(Symbols)
    BY <2>1, DropTyped, EmptySeq DEF TypeOK
  <2>3. prefix' \in Seq(Symbols) /\ buffer' \in Seq(Symbols)
    BY <1>6, <2>2, ConcatProperties DEF SkipInformational
  <2> QED
    BY <1>6, <2>3 DEF SkipInformational, Continue, serverVars, resultVars, TypeOK
<1>7. CASE SelectFraming
  BY <1>7, SelectFramingTypeOK
<1>8. CASE ReadContent
  <2>1. buffer' \in Seq(Symbols) /\ body' \in Seq(Symbols)
    BY <1>0, <1>8, ReadExactTyped DEF ReadContent, Ready
  <2> QED
    BY <1>8, <2>1 DEF ReadContent, ReadExact, End, serverVars, streamVars, TypeOK
<1>9. CASE ReadSize
  <2>1. CASE ~SizeAcceptable
    BY <1>9, <2>1, EndTypeOK DEF ReadSize, Reject
  <2>2. CASE SizeAcceptable
    <3>1. Drop(LineEnd) \in Seq(Symbols) /\ LineEnd > 0
      BY <1>9, PlacesTyped, DropTyped DEF ReadSize, Ready
    <3>2. buffer[1] \in Symbols
      BY <1>0, <3>1, PlacesTyped, ElementOfSeq
    <3>3. need' \in Int /\ pc' \in {"trailer", "chunk"}
      BY <1>9, <2>2, <3>2 DEF ReadSize, Continue, Symbols
    <3> QED
      BY <1>9, <2>2, <3>1, <3>3 DEF ReadSize, Continue, serverVars, streamVars, TypeOK
  <2> QED BY <2>1, <2>2
<1>10. CASE ReadChunk
  <2>1. buffer' \in Seq(Symbols) /\ body' \in Seq(Symbols)
    BY <1>0, <1>10, ReadExactTyped DEF ReadChunk, Ready
  <2> QED
    BY <1>10, <2>1 DEF ReadChunk, ReadExact, Continue, serverVars, streamVars, TypeOK
<1>11. CASE ReadCrlf
  <2>1. Drop(1) \in Seq(Symbols)
    BY DropTyped
  <2>2. CASE buffer[1] = Crlf
    BY <1>11, <2>1, <2>2
    DEF ReadCrlf, Continue, serverVars, streamVars, resultVars, TypeOK
  <2>3. CASE buffer[1] # Crlf
    BY <1>11, <2>3, EndTypeOK DEF ReadCrlf, Reject
  <2> QED BY <2>2, <2>3
<1>12. CASE LastTrailer
  <2>1. Drop(1) \in Seq(Symbols)
    BY DropTyped
  <2> QED
    BY <1>12, <2>1 DEF LastTrailer, End, serverVars, streamVars, resultVars, TypeOK
<1>13. CASE ReadTrailer
  <2>1. Drop(LineEnd) \in Seq(Symbols)
    BY PlacesTyped, DropTyped
  <2>2. CASE buffer[1].type = "trailer" /\ TrailerFits
    <3>1. trailers' \in 0 .. MaxTrailers
      BY <1>13, <2>2, Limits DEF ReadTrailer, TrailerFits, TypeOK
    <3> QED
      BY <1>13, <2>1, <2>2, <3>1 DEF ReadTrailer, Continue, serverVars, streamVars, TypeOK
  <2>3. CASE ~(buffer[1].type = "trailer" /\ TrailerFits)
    BY <1>13, <2>3, EndTypeOK DEF ReadTrailer, Reject
  <2> QED BY <2>2, <2>3
<1>14. CASE UNCHANGED vars
  BY <1>14 DEF vars, serverVars, streamVars, resultVars, TypeOK
<1> QED
  BY <1>1, <1>2, <1>3, <1>4, <1>5, <1>6, <1>7, <1>8, <1>9, <1>10, <1>11, <1>12, <1>13, <1>14
  DEF Next

\* For any messages, signed chunk sizes included, any cut and any limits: the reader's
\* sequences stay sequences of symbols, no more trailer fields are accepted than
\* DEFAULT_MAX_TRAILER_LINES, and there is an outcome exactly when it has stopped.
THEOREM TypeCorrect == Spec => []TypeOK
<1>1. Init => TypeOK
  BY InitTypeOK
<1>2. TypeOK /\ [Next]_vars => TypeOK'
  BY NextTypeOK
<1> QED BY <1>1, <1>2, PTL DEF Spec

-----------------------------------------------------------------------------
(* Sequences that are cut and joined. *)

\* The elements of a concatenation.
LEMMA ConcatElements ==
    ASSUME NEW V, NEW a \in Seq(V), NEW b \in Seq(V)
    PROVE  /\ a \o b \in Seq(V) /\ Len(a) \in Nat /\ Len(b) \in Nat
           /\ Len(a \o b) = Len(a) + Len(b)
           /\ \A j \in 1 .. Len(a) : (a \o b)[j] = a[j]
           /\ \A j \in 1 .. Len(b) : (a \o b)[Len(a) + j] = b[j]
<1>1. /\ a \o b \in Seq(V) /\ Len(a) \in Nat /\ Len(b) \in Nat
      /\ Len(a \o b) = Len(a) + Len(b)
  BY ConcatProperties, LenProperties
<1>2. \A j \in 1 .. Len(a) + Len(b) :
        (a \o b)[j] = IF j <= Len(a) THEN a[j] ELSE b[j - Len(a)]
  BY ConcatProperties
<1>3. \A j \in 1 .. Len(a) : (a \o b)[j] = a[j]
  BY <1>1, <1>2
<1>4. \A j \in 1 .. Len(b) : (a \o b)[Len(a) + j] = b[j]
  <2> SUFFICES ASSUME NEW j \in 1 .. Len(b) PROVE (a \o b)[Len(a) + j] = b[j]
    OBVIOUS
  <2>1. /\ Len(a) + j \in 1 .. Len(a) + Len(b) /\ ~(Len(a) + j <= Len(a))
        /\ (Len(a) + j) - Len(a) = j
    BY <1>1
  <2> QED BY <1>2, <2>1
<1> QED BY <1>1, <1>3, <1>4

\* The elements of a beginning.
LEMMA FirstElements ==
    ASSUME NEW V, NEW s \in Seq(V), NEW n \in 0 .. Len(s)
    PROVE  /\ SubSeq(s, 1, n) \in Seq(V) /\ Len(SubSeq(s, 1, n)) = n
           /\ \A i \in 1 .. n : SubSeq(s, 1, n)[i] = s[i]
<1>1. Len(s) \in Nat /\ \A i \in 1 .. n : s[i] \in V
  BY LenProperties, ElementOfSeq
<1>2. /\ SubSeq(s, 1, n) \in Seq(V)
      /\ Len(SubSeq(s, 1, n)) = IF 1 <= n THEN n - 1 + 1 ELSE 0
      /\ \A i \in 1 .. n - 1 + 1 : SubSeq(s, 1, n)[i] = s[1 + i - 1]
  BY <1>1, SubSeqProperties
<1> QED BY <1>1, <1>2

\* A sequence falls into its first n symbols and what comes after them.
LEMMA SplitAt ==
    ASSUME NEW V, NEW s \in Seq(V), NEW n \in 0 .. Len(s)
    PROVE  SubSeq(s, 1, n) \o After(s, n) = s
<1>1. PICK a \in Seq(V) : a = SubSeq(s, 1, n)
  BY FirstElements
<1>2. Len(a) = n /\ \A i \in 1 .. n : a[i] = s[i]
  BY <1>1, FirstElements
<1>3. PICK b \in Seq(V) : b = After(s, n)
  BY AfterElements
<1>4. Len(b) = Len(s) - n /\ \A i \in 1 .. Len(s) - n : b[i] = s[n + i]
  BY <1>3, AfterElements
<1>5. /\ a \o b \in Seq(V) /\ Len(a \o b) = Len(a) + Len(b)
      /\ \A j \in 1 .. Len(a) : (a \o b)[j] = a[j]
      /\ \A j \in 1 .. Len(b) : (a \o b)[Len(a) + j] = b[j]
  BY ConcatElements
<1>6. Len(s) \in Nat /\ Len(a \o b) = Len(s)
  BY <1>2, <1>4, <1>5, LenProperties
<1>7. ASSUME NEW i \in 1 .. Len(s) PROVE (a \o b)[i] = s[i]
  <2>1. CASE i <= n
    BY <1>2, <1>5, <1>6, <2>1
  <2>2. CASE i > n
    <3> DEFINE k == i - n
    <3>1. k \in 1 .. Len(s) - n /\ n + k = i
      BY <1>6, <2>2
    <3> HIDE DEF k
    <3>2. k \in 1 .. Len(b) /\ Len(a) + k = i
      BY <1>2, <1>4, <3>1
    <3>3. (a \o b)[Len(a) + k] = b[k] /\ b[k] = s[n + k]
      BY <1>4, <1>5, <3>1, <3>2
    <3> QED BY <3>1, <3>2, <3>3
  <2> QED BY <1>6, <2>1, <2>2
<1>8. a \o b = s
  BY <1>5, <1>6, <1>7, SeqEqual
<1> QED BY <1>1, <1>3, <1>8

\* Dropping part of the first of two sequences.
LEMMA AfterConcat ==
    ASSUME NEW V, NEW u \in Seq(V), NEW w \in Seq(V), NEW n \in 0 .. Len(u)
    PROVE  After(u \o w, n) = After(u, n) \o w
<1>1. /\ u \o w \in Seq(V) /\ Len(u) \in Nat /\ Len(w) \in Nat
      /\ Len(u \o w) = Len(u) + Len(w)
      /\ \A j \in 1 .. Len(u) : (u \o w)[j] = u[j]
      /\ \A j \in 1 .. Len(w) : (u \o w)[Len(u) + j] = w[j]
  BY ConcatElements
<1>2. PICK a \in Seq(V) : a = After(u, n)
  BY AfterElements
<1>3. Len(a) = Len(u) - n /\ \A i \in 1 .. Len(u) - n : a[i] = u[n + i]
  BY <1>2, AfterElements
<1>4. PICK t \in Seq(V) : t = u \o w
  BY <1>1
<1>5. n \in 0 .. Len(t)
  BY <1>1, <1>4
<1>6. PICK b \in Seq(V) : b = After(t, n)
  BY <1>5, AfterElements
<1>7. Len(b) = Len(t) - n /\ \A i \in 1 .. Len(t) - n : b[i] = t[n + i]
  BY <1>5, <1>6, AfterElements
<1>8. /\ a \o w \in Seq(V) /\ Len(a \o w) = Len(a) + Len(w)
      /\ \A j \in 1 .. Len(a) : (a \o w)[j] = a[j]
      /\ \A j \in 1 .. Len(w) : (a \o w)[Len(a) + j] = w[j]
  BY ConcatElements
<1>9. Len(b) = Len(a \o w)
  BY <1>1, <1>3, <1>4, <1>7, <1>8
<1>10. ASSUME NEW i \in 1 .. Len(b) PROVE b[i] = (a \o w)[i]
  <2>1. i \in 1 .. Len(t) - n /\ b[i] = t[n + i]
    BY <1>7
  <2>2. CASE i <= Len(u) - n
    <3>1. i \in 1 .. Len(u) - n /\ n + i \in 1 .. Len(u)
      BY <1>1, <2>2, <2>1
    <3>2. t[n + i] = u[n + i] /\ (a \o w)[i] = a[i] /\ a[i] = u[n + i]
      BY <1>1, <1>3, <1>4, <1>8, <3>1
    <3> QED BY <2>1, <3>2
  <2>3. CASE ~(i <= Len(u) - n)
    <3> DEFINE k == i - (Len(u) - n)
    <3>4. Len(t) = Len(u) + Len(w) /\ Len(u) \in Nat /\ Len(w) \in Nat /\ Len(a) = Len(u) - n
      BY <1>1, <1>3, <1>4
    <3>5. i \in Int /\ i <= Len(t) - n
      BY <2>1, <3>4
    <3>1. k \in 1 .. Len(w) /\ n + i = Len(u) + k /\ i = Len(a) + k
      BY <2>3, <3>4, <3>5
    <3> HIDE DEF k
    <3>2. t[n + i] = w[k] /\ (a \o w)[i] = w[k]
      BY <1>1, <1>4, <1>8, <3>1
    <3> QED BY <2>1, <3>2
  <2> QED BY <2>2, <2>3
<1>11. b = a \o w
  BY <1>8, <1>9, <1>10, SeqEqual
<1> QED BY <1>2, <1>4, <1>6, <1>11

\* Three pieces, one behind the other.
Joined(u, p, w) == (u \o p) \o w

\* What is left of three pieces when n symbols of the first are gone.
LEMMA AfterThree ==
    ASSUME NEW V, NEW u \in Seq(V), NEW p \in Seq(V), NEW w \in Seq(V), NEW n \in 0 .. Len(u)
    PROVE  /\ After(Joined(u, p, w), n) = Joined(After(u, n), p, w)
           /\ Joined(u, p, w) \in Seq(V)
           /\ Len(Joined(u, p, w)) = Len(u) + Len(p) + Len(w)
           /\ Len(u) \in Nat /\ Len(p) \in Nat /\ Len(w) \in Nat
           /\ \A i \in 1 .. Len(u) : Joined(u, p, w)[i] = u[i]
<1>1. PICK t \in Seq(V) : t = u \o p
  BY ConcatElements
<1>2. /\ Len(t) = Len(u) + Len(p) /\ Len(u) \in Nat /\ Len(p) \in Nat
      /\ \A j \in 1 .. Len(u) : t[j] = u[j]
  BY <1>1, ConcatElements
<1>3. n \in 0 .. Len(t)
  BY <1>2
<1>4. After(t \o w, n) = After(t, n) \o w
  BY <1>3, AfterConcat
<1>5. After(t, n) = After(u, n) \o p
  BY <1>1, AfterConcat
<1>6. /\ t \o w \in Seq(V) /\ Len(t \o w) = Len(t) + Len(w) /\ Len(w) \in Nat
      /\ \A j \in 1 .. Len(t) : (t \o w)[j] = t[j]
  BY ConcatElements
<1>7. \A j \in 1 .. Len(u) : j \in 1 .. Len(t)
  BY <1>2
<1>8. Joined(u, p, w) = t \o w
  BY <1>1 DEF Joined
<1>9. Joined(After(u, n), p, w) = After(t, n) \o w
  BY <1>5 DEF Joined
<1>10. Len(t \o w) = Len(u) + Len(p) + Len(w)
  BY <1>2, <1>6
<1>11. \A j \in 1 .. Len(u) : (t \o w)[j] = u[j]
  BY <1>2, <1>6, <1>7
<1> QED BY <1>2, <1>4, <1>6, <1>8, <1>9, <1>10, <1>11

\* Joining with an empty piece.
LEMMA JoinedEmpty ==
    ASSUME NEW V, NEW u \in Seq(V), NEW w \in Seq(V)
    PROVE  /\ Joined(<<>>, u, w) = u \o w
           /\ Joined(u, w, <<>>) = u \o w
           /\ Joined(u, <<>>, w) = u \o w
<1>1. <<>> \o u = u /\ u \o <<>> = u
  BY ConcatEmptySeq
<1>2. PICK t \in Seq(V) : t = u \o w
  BY ConcatElements
<1>3. t \o <<>> = t
  BY ConcatEmptySeq
<1> QED BY <1>1, <1>2, <1>3 DEF Joined

-----------------------------------------------------------------------------
(* What the server sent, seen from a place in it. *)

\* q is r, or the beginning of r.
Starts(q, r) == Len(q) <= Len(r) /\ \A j \in 1 .. Len(q) : q[j] = r[j]

\* Where q begins like a piece and more, either q ends within the piece or what is left
\* of q begins like what is left.
LEMMA StartsStep ==
    ASSUME NEW V, NEW q \in Seq(V), NEW a \in Seq(V), NEW b \in Seq(V), NEW x \in Seq(V),
           Starts(q, Joined(a, b, x))
    PROVE  /\ \A j \in 1 .. Len(q) : j <= Len(a) => q[j] = a[j]
           /\ Len(a) <= Len(q) => /\ Starts(After(q, Len(a)), b \o x)
                                  /\ SubSeq(q, 1, Len(a)) = a
<1>1. /\ Len(q) \in Nat /\ Len(a) \in Nat /\ Len(b) \in Nat /\ Len(x) \in Nat
      /\ Len(a) \in 0 .. Len(a)
  BY LenProperties
<1>0. PICK n \in 0 .. Len(a) : n = Len(a)
  BY <1>1
<1>2. PICK t \in Seq(V) : t = Joined(a, b, x)
  BY AfterThree, <1>0
<1>3. /\ After(t, Len(a)) = Joined(After(a, Len(a)), b, x)
      /\ Len(a) <= Len(t) /\ Len(t) \in Nat
      /\ \A i \in 1 .. Len(a) : t[i] = a[i]
  <2>1. /\ After(Joined(a, b, x), n) = Joined(After(a, n), b, x)
        /\ Len(Joined(a, b, x)) = Len(a) + Len(b) + Len(x)
        /\ \A i \in 1 .. Len(a) : Joined(a, b, x)[i] = a[i]
    BY AfterThree
  <2> QED BY <1>0, <1>1, <1>2, <2>1
<1>4. Len(q) <= Len(t) /\ \A j \in 1 .. Len(q) : q[j] = t[j]
  BY <1>2 DEF Starts
<1>5. \A j \in 1 .. Len(q) : j <= Len(a) => q[j] = a[j]
  BY <1>1, <1>3, <1>4
<1>6. ASSUME Len(a) <= Len(q)
      PROVE  Starts(After(q, Len(a)), b \o x) /\ SubSeq(q, 1, Len(a)) = a
  <2>1. Len(a) \in 0 .. Len(q) /\ Len(a) \in 0 .. Len(t)
    BY <1>1, <1>3, <1>6
  <2>2. After(t, Len(a)) = b \o x
    <3>1. After(a, Len(a)) \in Seq(V) /\ Len(After(a, Len(a))) = 0
      BY <1>1, AfterElements
    <3>2. After(a, Len(a)) = <<>>
      BY <3>1, EmptySeq
    <3>3. Joined(<<>>, b, x) = b \o x
      BY JoinedEmpty
    <3> QED BY <1>3, <3>2, <3>3
  <2>3. PICK c \in Seq(V) : c = After(q, Len(a))
    BY <2>1, AfterElements
  <2>4. Len(c) = Len(q) - Len(a) /\ \A i \in 1 .. Len(q) - Len(a) : c[i] = q[Len(a) + i]
    BY <2>1, <2>3, AfterElements
  <2>5. PICK d \in Seq(V) : d = After(t, Len(a))
    BY <2>1, AfterElements
  <2>6. Len(d) = Len(t) - Len(a) /\ \A i \in 1 .. Len(t) - Len(a) : d[i] = t[Len(a) + i]
    BY <2>1, <2>5, AfterElements
  <2>7. Len(c) <= Len(d)
    BY <1>1, <1>3, <1>4, <2>4, <2>6
  <2>8. ASSUME NEW i \in 1 .. Len(c) PROVE c[i] = d[i]
    <3>1. /\ i \in 1 .. Len(q) - Len(a) /\ i \in 1 .. Len(t) - Len(a)
          /\ Len(a) + i \in 1 .. Len(q)
      BY <1>1, <1>3, <1>4, <2>4
    <3> QED BY <1>4, <2>4, <2>6, <3>1
  <2>9. Starts(After(q, Len(a)), b \o x)
    BY <2>2, <2>3, <2>5, <2>7, <2>8 DEF Starts
  <2>10. PICK e \in Seq(V) : e = SubSeq(q, 1, Len(a))
    BY <2>1, FirstElements
  <2>11. Len(e) = Len(a) /\ \A i \in 1 .. Len(a) : e[i] = q[i]
    BY <2>1, <2>10, FirstElements
  <2>12. \A i \in 1 .. Len(a) : e[i] = a[i]
    BY <1>1, <1>5, <1>6, <2>11
  <2>13. e = a
    BY <2>11, <2>12, SeqEqual
  <2> QED BY <2>9, <2>10, <2>13
<1> QED BY <1>5, <1>6

\* What the server sends.
LEMMA MessageTyped ==
    ASSUME TypeOK
    PROVE  /\ Message(message)
           /\ Encode(message) \in Seq(Symbols) /\ Len(Encode(message)) \in Nat
           /\ Extra(message) \in Seq(Symbols) /\ Len(Extra(message)) \in Nat
           /\ Content(message) \in Seq(Symbols) /\ Len(Content(message)) \in Nat
           /\ sent \in Seq(Symbols) /\ Len(sent) \in Nat
<1>1. Message(message) /\ sent \in Seq(Symbols)
  BY DEF TypeOK
<1>2. Encode(message) \in Seq(Symbols) /\ Content(message) \in Seq(Symbols)
  <2>1. Encode(message) \in Seq(Alphabet(Int))
    BY <1>1, EncodeParts
  <2>2. Content(message) \in Seq(Alphabet(Int))
    BY <1>1, PiecesTyped
  <2> QED BY <2>1, <2>2, SymbolsAlphabet
<1>3. Extra(message) \in Seq(Symbols)
  <2>1. message.extra \in Nat
    BY <1>1, MessageFields
  <2>2. Symbol("info", 0) \in Symbols
    BY SymbolIsOne, SymbolsAlphabet DEF SymbolTypes
  <2> QED BY <2>1, <2>2, TimesProperties DEF Extra
<1> QED BY <1>1, <1>2, <1>3, LenProperties

\* q is what is left of what was sent, r what is left of the response.
Cut(q, r) ==
    /\ Starts(q, r \o Extra(message))
    /\ Len(sent) - Len(q) = Len(Encode(message)) - Len(r)

\* The same of what the server sent: it stopped within the piece, or all of it is there.
LEMMA CutStep ==
    ASSUME TypeOK, NEW q \in Seq(Symbols), NEW a \in Seq(Symbols), NEW b \in Seq(Symbols),
           Cut(q, a \o b)
    PROVE  /\ \A j \in 1 .. Len(q) : j <= Len(a) => q[j] = a[j]
           /\ Len(q) < Len(a) => Truncated
           /\ Len(a) <= Len(q) => /\ Cut(After(q, Len(a)), b)
                                  /\ SubSeq(q, 1, Len(a)) = a
<1>1. /\ Extra(message) \in Seq(Symbols) /\ Len(Encode(message)) \in Nat /\ Len(sent) \in Nat
  BY MessageTyped
<1>2. PICK x \in Seq(Symbols) : x = Extra(message)
  BY <1>1
<1>3. Starts(q, Joined(a, b, x))
  BY <1>2 DEF Cut, Joined
<1>4. /\ \A j \in 1 .. Len(q) : j <= Len(a) => q[j] = a[j]
      /\ Len(a) <= Len(q) => /\ Starts(After(q, Len(a)), b \o x)
                             /\ SubSeq(q, 1, Len(a)) = a
  BY <1>3, StartsStep
<1>5. Len(a \o b) = Len(a) + Len(b) /\ Len(a) \in Nat /\ Len(b) \in Nat /\ Len(q) \in Nat
  BY ConcatElements, LenProperties
<1>6. Len(sent) - Len(q) = Len(Encode(message)) - (Len(a) + Len(b))
  BY <1>5 DEF Cut
<1>7. Len(q) < Len(a) => Truncated
  BY <1>1, <1>5, <1>6 DEF Truncated
<1>8. ASSUME Len(a) <= Len(q) PROVE Cut(After(q, Len(a)), b)
  <2>1. Len(a) \in 0 .. Len(q)
    BY <1>5, <1>8
  <2>2. Len(After(q, Len(a))) = Len(q) - Len(a)
    BY <2>1, AfterElements
  <2>3. Len(sent) - (Len(q) - Len(a)) = Len(Encode(message)) - Len(b)
    BY <1>1, <1>5, <1>6
  <2> QED BY <1>2, <1>4, <1>8, <2>2, <2>3 DEF Cut
<1> QED BY <1>4, <1>7, <1>8

\* What is received goes from the front of one piece to the end of the one before.
LEMMA JoinedMoves ==
    ASSUME NEW V, NEW u \in Seq(V), NEW p \in Seq(V), NEW w \in Seq(V), NEW n \in 0 .. Len(p)
    PROVE  /\ Joined(u \o SubSeq(p, 1, n), After(p, n), w) = Joined(u, p, w)
           /\ Joined(u \o SubSeq(p, 1, n), <<>>, After(p, n)) = Joined(u, <<>>, p)
<1>1. PICK a \in Seq(V) : a = SubSeq(p, 1, n)
  BY FirstElements
<1>2. PICK b \in Seq(V) : b = After(p, n)
  BY AfterElements
<1>3. a \o b = p
  BY <1>1, <1>2, SplitAt
<1>4. (u \o a) \o b = u \o (a \o b)
  BY ConcatAssociative, SMTT(30)
<1>5. (u \o a) \o b = u \o p
  BY <1>3, <1>4
<1>6. Joined(u \o a, b, w) = Joined(u, p, w)
  BY <1>5, Zenon DEF Joined
<1>7. PICK c \in Seq(V) : c = u \o a
  BY ConcatElements
<1>8. Joined(c, <<>>, b) = c \o b /\ Joined(u, <<>>, p) = u \o p
  BY JoinedEmpty
<1> QED BY <1>1, <1>2, <1>5, <1>6, <1>7, <1>8

\* What a _PrefixedStream puts back in front of the stream.
LEMMA JoinedPutsBack ==
    ASSUME NEW V, NEW u \in Seq(V), NEW p \in Seq(V), NEW w \in Seq(V)
    PROVE  Joined(<<>>, u \o p, w) = Joined(u, p, w)
<1>1. PICK t \in Seq(V) : t = u \o p
  BY ConcatElements
<1>2. Joined(<<>>, t, w) = t \o w
  BY JoinedEmpty
<1> QED BY <1>1, <1>2 DEF Joined

\* What the reader has not used.
Beginning == IF pc = "close" THEN body ELSE buffer
\* What the reader has not used yet: in its buffer, in front of the socket and in it.
Unread == Joined(Beginning, prefix, wire)

\* The types of all that.
LEMMA ReaderTyped ==
    ASSUME TypeOK
    PROVE  /\ buffer \in Seq(Symbols) /\ prefix \in Seq(Symbols) /\ wire \in Seq(Symbols)
           /\ body \in Seq(Symbols) /\ Beginning \in Seq(Symbols)
           /\ Len(buffer) \in Nat /\ Len(prefix) \in Nat /\ Len(wire) \in Nat
           /\ Len(body) \in Nat /\ Len(Beginning) \in Nat
           /\ Unread \in Seq(Symbols)
           /\ Len(Unread) = Len(Beginning) + Len(prefix) + Len(wire)
<1>1. /\ buffer \in Seq(Symbols) /\ prefix \in Seq(Symbols) /\ wire \in Seq(Symbols)
      /\ body \in Seq(Symbols) /\ Beginning \in Seq(Symbols)
  BY DEF TypeOK, Beginning
<1>2. /\ Len(buffer) \in Nat /\ Len(prefix) \in Nat /\ Len(wire) \in Nat
      /\ Len(body) \in Nat /\ Len(Beginning) \in Nat
  BY <1>1, LenProperties
<1>3. PICK n \in 0 .. Len(Beginning) : n = 0
  BY <1>2
<1>4. Unread \in Seq(Symbols) /\ Len(Unread) = Len(Beginning) + Len(prefix) + Len(wire)
  BY <1>1, <1>3, AfterThree DEF Unread
<1> QED BY <1>1, <1>2, <1>4

\* A recv changes nothing of that.
LEMMA RecvKeepsUnread ==
    ASSUME TypeOK, Recv
    PROVE  /\ Joined(IF pc = "close" THEN body' ELSE buffer', prefix', wire') = Unread
           /\ pc' = pc => Unread' = Unread
           /\ pc # "close" => body' = body
           /\ message' = message /\ sent' = sent /\ need' = need /\ trailers' = trailers
           /\ pc' = pc \/ (pc = "close" /\ Len(body') > MaxBodySize)
           /\ outcome' = IF pc' = pc THEN outcome ELSE "ProtocolError"
<1>0. /\ message' = message /\ sent' = sent /\ need' = need /\ trailers' = trailers
      /\ pc # "done"
      /\ \/ pc' = "done" /\ outcome' = "ProtocolError" /\ pc = "close" /\ Len(body') > MaxBodySize
         \/ pc' = pc /\ outcome' = outcome
  BY DEF Recv, Waiting, End, Continue, serverVars
<1>1. PICK chunk \in Available :
         /\ IF prefix # <<>> THEN prefix' = After(prefix, Len(chunk)) /\ UNCHANGED wire
                             ELSE wire' = After(wire, Len(chunk)) /\ UNCHANGED prefix
         /\ buffer' = buffer \o chunk
         /\ body' = IF pc = "close" THEN body \o chunk ELSE body
  BY DEF Recv
<1>2. /\ buffer \in Seq(Symbols) /\ prefix \in Seq(Symbols) /\ wire \in Seq(Symbols)
      /\ body \in Seq(Symbols) /\ Beginning \in Seq(Symbols)
      /\ Len(prefix) \in Nat /\ Len(wire) \in Nat
  BY ReaderTyped
<1>3. (IF pc = "close" THEN body' ELSE buffer') = Beginning \o chunk
  BY <1>1 DEF Beginning
<1>4. Wanted \in Nat
  <2>1. RecvSize \in Int /\ RecvSize \in Nat /\ need - Len(buffer) \in Int
    BY Limits, ReaderTyped DEF TypeOK
  <2>2. Max({RecvSize, need - Len(buffer)}) \in {RecvSize, need - Len(buffer)}
        /\ Max({RecvSize, need - Len(buffer)}) >= RecvSize
    BY <2>1, TwoNumbers
  <2>3. Wanted \in {RecvSize, need - Len(buffer)} /\ Wanted >= RecvSize
    BY <2>1, <2>2 DEF Wanted
  <2> QED BY <2>1, <2>3
<1>5. ASSUME prefix # <<>> PROVE Joined(Beginning \o chunk, prefix', wire') = Unread
  <2>1. PICK n \in 0 .. Len(prefix) : chunk = SubSeq(prefix, 1, n)
    <3> DEFINE most == Min({Wanted, Len(prefix)})
    <3>1. Wanted \in Int /\ Len(prefix) \in Int
      BY <1>2, <1>4
    <3>2. most \in {Wanted, Len(prefix)} /\ most <= Len(prefix)
      BY <3>1, TwoNumbers
    <3>3. chunk = SubSeq(prefix, 1, most)
      BY <1>5 DEF Available
    <3> HIDE DEF most
    <3>4. most \in 0 .. Len(prefix)
      BY <1>2, <1>4, <3>2
    <3> QED BY <3>3, <3>4
  <2>2. Len(chunk) = n
    BY <1>2, <2>1, FirstElements
  <2>3. prefix' = After(prefix, n) /\ wire' = wire
    BY <1>1, <1>5, <2>2
  <2>4. Joined(Beginning \o SubSeq(prefix, 1, n), After(prefix, n), wire) = Joined(Beginning, prefix, wire)
    BY <1>2, JoinedMoves
  <2>5. Joined(Beginning \o chunk, prefix', wire') = Unread
    BY <2>1, <2>3, <2>4 DEF Unread
  <2> QED BY <2>5
<1>6. ASSUME prefix = <<>> PROVE Joined(Beginning \o chunk, prefix', wire') = Unread
  <2>1. PICK n \in 0 .. Len(wire) : chunk = SubSeq(wire, 1, n)
    <3>1. Wanted \in Int /\ Len(wire) \in Int
      BY <1>2, <1>4
    <3>2. Min({Wanted, Len(wire)}) \in {Wanted, Len(wire)} /\ Min({Wanted, Len(wire)}) <= Len(wire)
      BY <3>1, TwoNumbers
    <3>3. PICK n \in 1 .. Min({Wanted, Len(wire)}) : chunk = SubSeq(wire, 1, n)
      BY <1>6 DEF Available
    <3>4. n \in 0 .. Len(wire)
      BY <1>2, <1>4, <3>2, <3>3
    <3> QED BY <3>3, <3>4
  <2>2. Len(chunk) = n
    BY <1>2, <2>1, FirstElements
  <2>3. wire' = After(wire, n) /\ prefix' = <<>>
    BY <1>1, <1>6, <2>2
  <2>4. Joined(Beginning \o SubSeq(wire, 1, n), <<>>, After(wire, n)) = Joined(Beginning, <<>>, wire)
    BY <1>2, JoinedMoves
  <2>5. Joined(Beginning \o chunk, prefix', wire') = Unread
    BY <1>6, <2>1, <2>3, <2>4 DEF Unread
  <2> QED BY <2>5
<1>7. Joined(Beginning \o chunk, prefix', wire') = Unread
  BY <1>5, <1>6
<1> DEFINE first == IF pc = "close" THEN body' ELSE buffer'
<1>8. Joined(first, prefix', wire') = Unread
  BY <1>3, <1>7
<1>9. ASSUME pc' = pc PROVE Unread' = Unread
  <2>1. Beginning' = first
    BY <1>9 DEF Beginning
  <2>2. Unread' = Joined(Beginning', prefix', wire')
    BY DEF Unread
  <2> HIDE DEF first
  <2> QED BY <1>8, <2>1, <2>2, Zenon
<1>10. pc # "close" => body' = body
  BY <1>1
<1>11. /\ message' = message /\ sent' = sent /\ need' = need /\ trailers' = trailers
       /\ pc' = pc \/ (pc = "close" /\ Len(body') > MaxBodySize)
       /\ outcome' = IF pc' = pc THEN outcome ELSE "ProtocolError"
  BY <1>0
<1> QED BY <1>8, <1>9, <1>10, <1>11, Zenon

\* What the buffer holds of a piece of the response, and what is left behind it.
LEMMA Reading ==
    ASSUME TypeOK, pc # "close",
           NEW a \in Seq(Symbols), NEW b \in Seq(Symbols), Cut(Unread, a \o b)
    PROVE  /\ \A j \in 1 .. Len(buffer) : j <= Len(a) => buffer[j] = a[j]
           /\ prefix = <<>> /\ wire = <<>> /\ Len(buffer) < Len(a) => Truncated
           /\ Len(a) <= Len(buffer) => /\ Cut(Joined(Drop(Len(a)), prefix, wire), b)
                                       /\ SubSeq(buffer, 1, Len(a)) = a
<1>1. /\ buffer \in Seq(Symbols) /\ prefix \in Seq(Symbols) /\ wire \in Seq(Symbols)
      /\ Len(buffer) \in Nat /\ Unread \in Seq(Symbols)
      /\ Unread = Joined(buffer, prefix, wire)
      /\ Len(a) \in Nat /\ Len(prefix) \in Nat /\ Len(wire) \in Nat
      /\ Len(Unread) = Len(buffer) + Len(prefix) + Len(wire)
  BY ReaderTyped, LenProperties DEF Unread, Beginning
<1>2. PICK q \in Seq(Symbols) : q = Unread
  BY <1>1
<1>3. /\ \A j \in 1 .. Len(q) : j <= Len(a) => q[j] = a[j]
      /\ Len(q) < Len(a) => Truncated
      /\ Len(a) <= Len(q) => /\ Cut(After(q, Len(a)), b)
                             /\ SubSeq(q, 1, Len(a)) = a
  BY <1>2, CutStep
<1>4. PICK z \in 0 .. Len(buffer) : z = 0
  BY <1>1
<1>5. \A i \in 1 .. Len(buffer) : q[i] = buffer[i]
  <2>1. /\ buffer \in Seq(Symbols) /\ prefix \in Seq(Symbols) /\ wire \in Seq(Symbols)
    BY <1>1
  <2>2. \A i \in 1 .. Len(buffer) : Joined(buffer, prefix, wire)[i] = buffer[i]
    BY <1>4, <2>1, AfterThree
  <2> QED BY <1>1, <1>2, <2>2
<1>6. \A j \in 1 .. Len(buffer) : j <= Len(a) => buffer[j] = a[j]
  BY <1>1, <1>2, <1>3, <1>5
<1>7. prefix = <<>> /\ wire = <<>> /\ Len(buffer) < Len(a) => Truncated
  <2>1. prefix = <<>> /\ wire = <<>> => Len(prefix) = 0 /\ Len(wire) = 0
    BY EmptySeq
  <2> QED BY <1>1, <1>2, <1>3, <2>1
<1>8. ASSUME Len(a) <= Len(buffer)
      PROVE  Cut(Joined(Drop(Len(a)), prefix, wire), b) /\ SubSeq(buffer, 1, Len(a)) = a
  <2>1. PICK n \in 0 .. Len(buffer) : n = Len(a)
    BY <1>1, <1>8
  <2>2. After(q, n) = Joined(After(buffer, n), prefix, wire)
    BY <1>1, <1>2, AfterThree
  <2>3. Cut(After(q, Len(a)), b)
    BY <1>1, <1>2, <1>3, <1>8
  <2>4. SubSeq(buffer, 1, Len(a)) = a
    <3>1. PICK e \in Seq(Symbols) : e = SubSeq(buffer, 1, n)
      BY <1>1, FirstElements
    <3>2. Len(e) = n /\ \A i \in 1 .. n : e[i] = buffer[i]
      BY <1>1, <3>1, FirstElements
    <3>3. \A i \in 1 .. n : e[i] = a[i]
      BY <1>1, <1>6, <2>1, <3>2
    <3>4. e = a
      BY <2>1, <3>2, <3>3, SeqEqual
    <3> QED BY <2>1, <3>1, <3>4
  <2> QED BY <2>1, <2>2, <2>3, <2>4 DEF Drop
<1> QED BY <1>6, <1>7, <1>8

\* The server stops early or sends everything.
SentIsCut ==
    /\ Starts(sent, Encode(message) \o Extra(message))
    /\ Truncated \/ Len(sent) = Len(Encode(message)) + Len(Extra(message))

\* When nothing is left of the response, the rest is what was sent behind it.
LEMMA NothingLeft ==
    ASSUME TypeOK, SentIsCut, NEW q \in Seq(Symbols), Cut(q, <<>>)
    PROVE  ~Truncated /\ q = After(sent, Len(Encode(message)))
<1>1. /\ Encode(message) \in Seq(Symbols) /\ Extra(message) \in Seq(Symbols) /\ sent \in Seq(Symbols)
      /\ Len(Encode(message)) \in Nat /\ Len(Extra(message)) \in Nat /\ Len(sent) \in Nat
      /\ Len(q) \in Nat
  BY MessageTyped, LenProperties
<1>2. PICK e \in Seq(Symbols) : e = Encode(message)
  BY <1>1
<1>3. PICK x \in Seq(Symbols) : x = Extra(message)
  BY <1>1
<1>4. <<>> \o x = x /\ Len(<<>>) = 0
  BY ConcatEmptySeq, EmptySeq
<1>5. Len(sent) - Len(q) = Len(e) /\ Starts(q, x)
  BY <1>1, <1>2, <1>3, <1>4 DEF Cut
<1>6. ~Truncated /\ Len(sent) = Len(e) + Len(x) /\ Len(q) = Len(x)
  BY <1>1, <1>2, <1>3, <1>5 DEF SentIsCut, Truncated
<1>7. Starts(sent, e \o x)
  BY <1>2, <1>3 DEF SentIsCut
<1>8. /\ Len(e \o x) = Len(e) + Len(x)
      /\ \A j \in 1 .. Len(x) : (e \o x)[Len(e) + j] = x[j]
  BY ConcatElements
<1>9. PICK n \in 0 .. Len(sent) : n = Len(e)
  BY <1>1, <1>2, <1>3, <1>6
<1>10. PICK r \in Seq(Symbols) : r = After(sent, n)
  BY <1>1, AfterElements
<1>11. Len(r) = Len(sent) - n /\ \A i \in 1 .. Len(sent) - n : r[i] = sent[n + i]
  BY <1>1, <1>10, AfterElements
<1>12. Len(r) = Len(q)
  BY <1>1, <1>2, <1>3, <1>6, <1>9, <1>11
<1>13. ASSUME NEW i \in 1 .. Len(q) PROVE q[i] = r[i]
  <2>1. i \in 1 .. Len(x) /\ n + i \in 1 .. Len(sent) /\ i \in 1 .. Len(sent) - n
    BY <1>1, <1>2, <1>3, <1>6, <1>9
  <2>2. q[i] = x[i]
    BY <1>5 DEF Starts
  <2>3. sent[n + i] = (e \o x)[n + i]
    BY <1>7, <2>1 DEF Starts
  <2> QED BY <1>8, <1>9, <1>11, <2>1, <2>2, <2>3
<1>14. q = r
  BY <1>12, <1>13, SeqEqual
<1> QED BY <1>2, <1>6, <1>9, <1>10, <1>14

-----------------------------------------------------------------------------
(* Where lines and header blocks end. *)

\* a is one line: nothing before its last symbol is a CRLF.
IsLine(a) ==
    Len(a) >= 1 /\ a[Len(a)] = Crlf /\ \A j \in 1 .. Len(a) - 1 : a[j] # Crlf

\* LineEnd finds the end of the line that the buffer begins with, once it is there.
LEMMA LineEndIs ==
    ASSUME buffer \in Seq(Symbols), NEW a \in Seq(Symbols), IsLine(a),
           \A j \in 1 .. Len(buffer) : j <= Len(a) => buffer[j] = a[j]
    PROVE  LineEnd = IF Len(a) <= Len(buffer) THEN Len(a) ELSE 0
<1> DEFINE ends == {i \in 1 .. Len(buffer) : buffer[i] = Crlf}
<1>1. Len(buffer) \in Nat /\ Len(a) \in Nat /\ Len(a) >= 1
  BY LenProperties DEF IsLine
<1>2. LineEnd = IF ends # {} THEN Min(ends) ELSE 0
  BY DEF LineEnd, SelectInSeq
<1>3. \A i \in ends : i >= Len(a)
  <2> SUFFICES ASSUME NEW i \in ends, i < Len(a) PROVE FALSE
    BY <1>1
  <2>1. i \in 1 .. Len(a) - 1 /\ i \in 1 .. Len(buffer) /\ buffer[i] = Crlf
    BY <1>1
  <2> QED BY <1>1, <2>1 DEF IsLine
<1>4. CASE Len(a) <= Len(buffer)
  <2>1. Len(a) \in ends
    BY <1>1, <1>4 DEF IsLine
  <2>2. ends \in SUBSET Nat /\ ends # {}
    BY <1>1, <2>1
  <2>3. Min(ends) \in ends /\ \A x \in ends : Min(ends) <= x
    BY <2>2, LeastOfNaturals
  <2> HIDE DEF ends
  <2>4. Min(ends) \in Nat /\ Min(ends) <= Len(a) /\ Min(ends) >= Len(a)
    BY <1>3, <2>1, <2>2, <2>3, Zenon
  <2>5. Min(ends) = Len(a)
    BY <1>1, <2>4
  <2> QED BY <1>2, <1>4, <2>2, <2>5
<1>5. CASE ~(Len(a) <= Len(buffer))
  <2>1. ends = {}
    BY <1>1, <1>3, <1>5
  <2> QED BY <1>2, <1>5, <2>1
<1> QED BY <1>4, <1>5

\* Only the CRLF is a CRLF.
LEMMA SymbolsDiffer ==
    /\ \A type, value : type # "crlf" => Symbol(type, value) # Crlf
    /\ \A type, value : Symbol(type, value).type = type /\ Symbol(type, value).value = value
BY DEF Symbol, Crlf

\* The first symbol of the line with the size of a chunk.
SizeSymbol(m, n) ==
    Symbol(IF m.fault = "badsize" THEN "badsize" ELSE "size",
           IF m.fault = "negative" /\ n > 0 THEN -n ELSE n)

\* The lines of a chunked body are lines: they end with their only CRLF.
LEMMA SizeLineIs ==
    ASSUME NEW m, Message(m), NEW n \in Nat
    PROVE  /\ SizeLine(m, n) \in Seq(Symbols) /\ IsLine(SizeLine(m, n))
           /\ Len(SizeLine(m, n)) = m.extension + 2
           /\ SizeLine(m, n)[1] = SizeSymbol(m, n)
<1> DEFINE a == <<SizeSymbol(m, n)>>
           b == Times(m.extension, Symbol("padding", 0))
           c == <<Crlf>>
           k == m.extension
<1>1. k \in Nat
  BY MessageFields
<1>2. SizeSymbol(m, n) \in Symbols /\ Symbol("padding", 0) \in Symbols /\ Crlf \in Symbols
  <2> DEFINE type == IF m.fault = "badsize" THEN "badsize" ELSE "size"
             value == IF m.fault = "negative" /\ n > 0 THEN -n ELSE n
  <2>1. type \in SymbolTypes /\ value \in Int
    BY DEF SymbolTypes
  <2>2. Symbol(type, value) \in Alphabet(Int)
    BY <2>1, SymbolIsOne
  <2>3. Symbol("padding", 0) \in Alphabet(Int) /\ Crlf \in Alphabet(Int)
    BY SymbolIsOne DEF Crlf, SymbolTypes
  <2> QED BY <2>2, <2>3, SymbolsAlphabet DEF SizeSymbol
<1>3. /\ a \in Seq(Symbols) /\ Len(a) = 1 /\ a[1] = SizeSymbol(m, n)
      /\ c \in Seq(Symbols) /\ Len(c) = 1 /\ c[1] = Crlf
  BY <1>2, Singleton
<1>4. b \in Seq(Symbols) /\ Len(b) = k /\ \A i \in 1 .. k : b[i] = Symbol("padding", 0)
  BY <1>1, <1>2, TimesProperties
<1>5. SizeLine(m, n) = (a \o b) \o c
  BY DEF SizeLine, SizeSymbol
<1> HIDE DEF a, b, c, k
<1>6. PICK t \in Seq(Symbols) : t = a \o b
  BY <1>3, <1>4, ConcatElements
<1>7. Len(t) = k + 1 /\ t[1] = SizeSymbol(m, n) /\ \A i \in 2 .. k + 1 : t[i] = Symbol("padding", 0)
  <2>1. /\ Len(a \o b) = Len(a) + Len(b)
        /\ \A j \in 1 .. Len(a) : (a \o b)[j] = a[j]
        /\ \A j \in 1 .. Len(b) : (a \o b)[Len(a) + j] = b[j]
    <3>1. a \in Seq(Symbols) /\ b \in Seq(Symbols)
      BY <1>3, <1>4
    <3> QED BY <3>1, ConcatElements
  <2>2. Len(t) = k + 1 /\ t[1] = SizeSymbol(m, n)
    BY <1>1, <1>3, <1>4, <1>6, <2>1
  <2>3. ASSUME NEW i \in 2 .. k + 1 PROVE t[i] = Symbol("padding", 0)
    <3>1. i - 1 \in 1 .. Len(b) /\ Len(a) + (i - 1) = i /\ i - 1 \in 1 .. k
      BY <1>1, <1>3, <1>4
    <3>2. t[i] = b[i - 1]
      BY <1>6, <2>1, <3>1
    <3> QED BY <1>4, <3>1, <3>2
  <2> QED BY <2>2, <2>3
<1>8. /\ t \o c \in Seq(Symbols) /\ Len(t \o c) = k + 2
      /\ \A j \in 1 .. k + 1 : (t \o c)[j] = t[j]
      /\ (t \o c)[k + 2] = Crlf
  <2>1. /\ t \o c \in Seq(Symbols) /\ Len(t \o c) = Len(t) + Len(c)
        /\ \A j \in 1 .. Len(t) : (t \o c)[j] = t[j]
        /\ \A j \in 1 .. Len(c) : (t \o c)[Len(t) + j] = c[j]
    BY <1>3, ConcatElements, SMTT(30)
  <2>2. 1 \in 1 .. Len(c) /\ Len(t) + 1 = k + 2
    BY <1>1, <1>3, <1>7
  <2>3. (t \o c)[k + 2] = c[1]
    BY <2>1, <2>2
  <2> QED BY <1>1, <1>3, <1>7, <2>1, <2>3
<1>9. PICK s \in Seq(Symbols) : s = t \o c
  BY <1>8
<1>10. \A j \in 1 .. k + 1 : s[j] # Crlf
  <2>1. SizeSymbol(m, n) # Crlf /\ Symbol("padding", 0) # Crlf
    BY SymbolsDiffer DEF SizeSymbol
  <2> QED BY <1>1, <1>7, <1>8, <1>9, <2>1
<1>11. IsLine(s) /\ Len(s) = k + 2 /\ s[1] = SizeSymbol(m, n)
  BY <1>1, <1>7, <1>8, <1>9, <1>10 DEF IsLine
<1> QED BY <1>5, <1>6, <1>9, <1>11 DEF k

LEMMA TrailerLineIs ==
    ASSUME NEW m
    PROVE  /\ TrailerLine(m) \in Seq(Symbols) /\ IsLine(TrailerLine(m)) /\ Len(TrailerLine(m)) = 2
           /\ TrailerLine(m)[1].type = IF m.fault = "badtrailer" THEN "badtrailer" ELSE "trailer"
<1> DEFINE type == IF m.fault = "badtrailer" THEN "badtrailer" ELSE "trailer"
<1>1. Symbol(type, 0) \in Symbols /\ Crlf \in Symbols /\ Symbol(type, 0) # Crlf
      /\ Symbol(type, 0).type = type
  BY SymbolIsOne, SymbolsAlphabet, SymbolsDiffer DEF Crlf, SymbolTypes
<1>2. TrailerLine(m) = <<Symbol(type, 0), Crlf>>
  BY DEF TrailerLine
<1>3. PICK x \in Symbols : x = Symbol(type, 0)
  BY <1>1
<1>4. PICK y \in Symbols : y = Crlf
  BY <1>1
<1>5. <<x, y>> \in Seq(Symbols) /\ Len(<<x, y>>) = 2 /\ <<x, y>>[1] = x /\ <<x, y>>[2] = y
  BY Pair
<1>6. PICK s \in Seq(Symbols) : s = <<x, y>>
  BY <1>5
<1>7. IsLine(s)
  BY <1>1, <1>3, <1>4, <1>5, <1>6 DEF IsLine
<1> QED BY <1>1, <1>2, <1>3, <1>4, <1>5, <1>6, <1>7

LEMMA EmptyLineIs ==
    <<Crlf>> \in Seq(Symbols) /\ IsLine(<<Crlf>>) /\ Len(<<Crlf>>) = 1 /\ <<Crlf>>[1] = Crlf
<1>1. Crlf \in Symbols
  BY SymbolIsOne, SymbolsAlphabet DEF Crlf, SymbolTypes
<1>2. PICK y \in Symbols : y = Crlf
  BY <1>1
<1>3. <<y>> \in Seq(Symbols) /\ Len(<<y>>) = 1 /\ <<y>>[1] = y
  BY Singleton
<1>4. IsLine(<<y>>)
  BY <1>2, <1>3 DEF IsLine
<1> QED BY <1>2, <1>3, <1>4

\* Induction, for a set.
LEMMA SetInduction ==
    ASSUME NEW S \in SUBSET Nat, 0 \in S, \A n \in S : n + 1 \in S
    PROVE  \A n \in Nat : n \in S
<1> SUFFICES ASSUME Nat \ S # {} PROVE FALSE
  OBVIOUS
<1> DEFINE Bad == Nat \ S
<1>1. Min(Bad) \in Bad /\ \A x \in Bad : Min(Bad) <= x
  BY LeastOfNaturals
<1>2. PICK n \in Nat : n \notin S /\ \A x \in Nat : x \notin S => n <= x
  BY <1>1
<1>3. n # 0 /\ n - 1 \in Nat /\ ~(n <= n - 1) /\ (n - 1) + 1 = n
  BY <1>2
<1>4. n - 1 \in S
  BY <1>2, <1>3
<1>5. (n - 1) + 1 \in S
  BY <1>4
<1> QED BY <1>2, <1>3, <1>5

\* The header fields: field, CRLF, field, CRLF ...
Fields(n) == FlattenSeq(Times(n, Field))

\* The header fields, two symbols each.
FieldsAre(n) ==
    /\ Fields(n) \in Seq(Symbols) /\ Len(Fields(n)) = 2 * n
    /\ \A k \in 1 .. n : Fields(n)[2 * k - 1] = Symbol("field", 0) /\ Fields(n)[2 * k] = Crlf

\* One header field.
LEMMA FieldIs ==
    /\ Field \in Seq(Symbols) /\ Len(Field) = 2
    /\ Field[1] = Symbol("field", 0) /\ Field[2] = Crlf
<1>1. Symbol("field", 0) \in Symbols /\ Crlf \in Symbols
  BY SymbolIsOne, SymbolsAlphabet DEF Crlf, SymbolTypes
<1>2. PICK x \in Symbols : x = Symbol("field", 0)
  BY <1>1
<1>3. PICK y \in Symbols : y = Crlf
  BY <1>1
<1>4. <<x, y>> \in Seq(Symbols) /\ Len(<<x, y>>) = 2 /\ <<x, y>>[1] = x /\ <<x, y>>[2] = y
  BY Pair
<1> QED BY <1>2, <1>3, <1>4 DEF Field

\* By induction over their number.
LEMMA FieldsInduction ==
    ASSUME NEW n \in Nat, FieldsAre(n)
    PROVE  FieldsAre(n + 1)
<1>1. /\ Field \in Seq(Symbols) /\ Len(Field) = 2
      /\ Field[1] = Symbol("field", 0) /\ Field[2] = Crlf
  BY FieldIs
<1>2. PICK e \in Seq(Symbols) : e = Field
  BY <1>1
<1>3. PICK f \in Seq(Symbols) : f = Fields(n)
  BY DEF FieldsAre
<1>4. Fields(n + 1) = e \o f
  BY <1>2, <1>3, FlattenTimes DEF Fields
<1>5. /\ e \o f \in Seq(Symbols) /\ Len(e \o f) = Len(e) + Len(f)
      /\ \A j \in 1 .. Len(e) : (e \o f)[j] = e[j]
      /\ \A j \in 1 .. Len(f) : (e \o f)[Len(e) + j] = f[j]
  BY ConcatElements
<1>6. PICK g \in Seq(Symbols) : g = e \o f
  BY <1>5
<1>7. Len(e) = 2 /\ Len(f) = 2 * n /\ Len(g) = 2 * (n + 1)
  <2>1. Len(f) = 2 * n
    BY <1>3 DEF FieldsAre
  <2>2. Len(e) = 2
    BY <1>1, <1>2
  <2>3. Len(g) = Len(e) + Len(f)
    BY <1>5, <1>6
  <2> QED BY <2>1, <2>2, <2>3
<1>8. ASSUME NEW k \in 1 .. n + 1
      PROVE  g[2 * k - 1] = Symbol("field", 0) /\ g[2 * k] = Crlf
  <2>1. CASE k = 1
    <3>1. 2 * k - 1 = 1 /\ 2 * k = 2 /\ 1 \in 1 .. Len(e) /\ 2 \in 1 .. Len(e)
      BY <1>7, <2>1
    <3>2. g[1] = e[1] /\ g[2] = e[2]
      BY <1>5, <1>6, <3>1
    <3> QED BY <1>1, <1>2, <3>1, <3>2
  <2>2. CASE k # 1
    <3> DEFINE i == k - 1
    <3>1. i \in 1 .. n /\ 2 * k - 1 = 2 + (2 * i - 1) /\ 2 * k = 2 + 2 * i
          /\ 2 * i - 1 \in 1 .. 2 * n /\ 2 * i \in 1 .. 2 * n
      BY <2>2
    <3> HIDE DEF i
    <3>2. f[2 * i - 1] = Symbol("field", 0) /\ f[2 * i] = Crlf
      BY <1>3, <3>1 DEF FieldsAre
    <3>3. g[2 + (2 * i - 1)] = f[2 * i - 1] /\ g[2 + 2 * i] = f[2 * i]
      BY <1>5, <1>6, <1>7, <3>1
    <3> QED BY <3>1, <3>2, <3>3
  <2> QED BY <2>1, <2>2
<1> QED BY <1>4, <1>6, <1>7, <1>8 DEF FieldsAre

LEMMA FieldsAreFields == \A n \in Nat : FieldsAre(n)
<1> DEFINE S == {n \in Nat : FieldsAre(n)}
<1>1. 0 \in S
  <2>1. Field \in Seq(Symbols)
    BY FieldIs
  <2>2. Fields(0) = <<>>
    BY <2>1, FlattenTimes DEF Fields
  <2>3. <<>> \in Seq(Symbols) /\ Len(<<>>) = 0
    BY EmptySeq
  <2>4. FieldsAre(0)
    <3>1. 2 * 0 = 0 /\ 1 .. 0 = {}
      OBVIOUS
    <3>2. Len(Fields(0)) = 2 * 0
      BY <2>2, <2>3, <3>1
    <3> QED BY <2>2, <2>3, <3>1, <3>2, Zenon DEF FieldsAre
  <2> QED BY <2>4
<1>2. \A n \in S : n + 1 \in S
  BY FieldsInduction
<1>3. \A n \in Nat : n \in S
  <2> HIDE DEF S
  <2>1. S \in SUBSET Nat
    BY DEF S
  <2> QED BY <1>1, <1>2, <2>1, SetInduction
<1> QED BY <1>3

\* The symbols of a header block: where it has what.
BlockIs(h, type, length, n, p) ==
    /\ h \in Seq(Symbols) /\ Len(h) = p + 2 * n + 3
    /\ h[1] = Symbol(type, length)
    /\ \A j \in 2 .. p + 1 : h[j] = Symbol("padding", 0)
    /\ h[p + 2] = Crlf
    /\ \A k \in 1 .. n : h[p + 2 * k + 1] = Symbol("field", 0) /\ h[p + 2 * k + 2] = Crlf
    /\ h[p + 2 * n + 3] = Crlf

\* HeaderBlock builds such a block.
LEMMA HeaderBlockIs ==
    ASSUME NEW type \in SymbolTypes, NEW length \in Int, NEW n \in Nat, NEW p \in Nat
    PROVE  BlockIs(HeaderBlock(type, length, n, p), type, length, n, p)
<1>1. Symbol(type, length) \in Symbols /\ Symbol("padding", 0) \in Symbols
  BY SymbolIsOne, SymbolsAlphabet DEF SymbolTypes
<1>2. PICK s \in Symbols : s = Symbol(type, length)
  BY <1>1
<1>3. PICK b \in Seq(Symbols) : b = Times(p, Symbol("padding", 0))
  BY <1>1, TimesProperties
<1>4. Len(b) = p /\ \A i \in 1 .. p : b[i] = Symbol("padding", 0)
  BY <1>1, <1>3, TimesProperties
<1>5. PICK c \in Seq(Symbols) : c = <<Crlf>>
  BY EmptyLineIs
<1>6. Len(c) = 1 /\ c[1] = Crlf
  BY <1>5, EmptyLineIs
<1>7. PICK f \in Seq(Symbols) : f = Fields(n)
  BY FieldsAreFields DEF FieldsAre
<1>8. Len(f) = 2 * n /\ \A k \in 1 .. n : f[2 * k - 1] = Symbol("field", 0) /\ f[2 * k] = Crlf
  BY <1>7, FieldsAreFields DEF FieldsAre
<1>9. PICK a \in Seq(Symbols) : a = <<s>>
  BY Singleton
<1>10. Len(a) = 1 /\ a[1] = Symbol(type, length)
  BY <1>2, <1>9, Singleton
<1>11. HeaderBlock(type, length, n, p) = (((a \o b) \o c) \o f) \o c
  BY <1>2, <1>3, <1>5, <1>7, <1>9 DEF HeaderBlock, Fields, Field
<1>12. PICK x1 \in Seq(Symbols) : x1 = a \o b
  BY ConcatElements
<1>13. PICK x2 \in Seq(Symbols) : x2 = x1 \o c
  BY ConcatElements
<1>14. PICK x3 \in Seq(Symbols) : x3 = x2 \o f
  BY ConcatElements
<1>15. PICK h \in Seq(Symbols) : h = x3 \o c
  BY ConcatElements
<1>16. /\ Len(x1) = Len(a) + Len(b)
       /\ \A j \in 1 .. Len(a) : x1[j] = a[j]
       /\ \A j \in 1 .. Len(b) : x1[Len(a) + j] = b[j]
  BY <1>12, ConcatElements
<1>17. /\ Len(x2) = Len(x1) + Len(c)
       /\ \A j \in 1 .. Len(x1) : x2[j] = x1[j]
       /\ \A j \in 1 .. Len(c) : x2[Len(x1) + j] = c[j]
  BY <1>13, ConcatElements
<1>18. /\ Len(x3) = Len(x2) + Len(f)
       /\ \A j \in 1 .. Len(x2) : x3[j] = x2[j]
       /\ \A j \in 1 .. Len(f) : x3[Len(x2) + j] = f[j]
  BY <1>14, ConcatElements
<1>19. /\ Len(h) = Len(x3) + Len(c)
       /\ \A j \in 1 .. Len(x3) : h[j] = x3[j]
       /\ \A j \in 1 .. Len(c) : h[Len(x3) + j] = c[j]
  BY <1>15, ConcatElements
<1>20. Len(x1) = p + 1 /\ Len(x2) = p + 2 /\ Len(x3) = p + 2 + 2 * n /\ Len(h) = p + 2 * n + 3
  <2>1. Len(x1) = p + 1
    BY <1>4, <1>10, <1>16
  <2>2. Len(x2) = p + 2
    BY <1>6, <1>17, <2>1
  <2>3. Len(x3) = p + 2 + 2 * n
    BY <1>8, <1>18, <2>2
  <2>4. Len(h) = p + 2 * n + 3
    BY <1>6, <1>19, <2>3
  <2> QED BY <2>1, <2>2, <2>3, <2>4
<1>21. \A j \in 1 .. p + 1 : h[j] = x1[j]
  <2> SUFFICES ASSUME NEW j \in 1 .. p + 1 PROVE h[j] = x1[j]
    OBVIOUS
  <2>1. j \in 1 .. p + 2 /\ j \in 1 .. p + 2 + 2 * n
    OBVIOUS
  <2>2. h[j] = x3[j]
    BY <1>19, <1>20, <2>1
  <2>3. x3[j] = x2[j]
    BY <1>18, <1>20, <2>1
  <2>4. x2[j] = x1[j]
    BY <1>17, <1>20
  <2> QED BY <2>2, <2>3, <2>4
<1>22. h[1] = Symbol(type, length)
  <2>1. 1 \in 1 .. p + 1 /\ 1 \in 1 .. Len(a)
    BY <1>10
  <2>2. x1[1] = a[1]
    BY <1>16, <2>1
  <2> QED BY <1>10, <1>21, <2>1, <2>2
<1>23. ASSUME NEW j \in 2 .. p + 1 PROVE h[j] = Symbol("padding", 0)
  <2> DEFINE i == j - 1
  <2>1. i \in 1 .. p /\ 1 + i = j /\ j \in 1 .. p + 1
    OBVIOUS
  <2> HIDE DEF i
  <2>2. x1[Len(a) + i] = b[i]
    BY <1>4, <1>16, <2>1
  <2>3. x1[j] = b[i]
    BY <1>10, <2>1, <2>2
  <2> QED BY <1>4, <1>21, <2>1, <2>3
<1>24. h[p + 2] = Crlf
  <2>1. 1 \in 1 .. Len(c) /\ p + 2 \in 1 .. p + 2 + 2 * n /\ p + 2 \in 1 .. p + 2 /\ (p + 1) + 1 = p + 2
    BY <1>6
  <2>2. x2[(p + 1) + 1] = c[1]
    BY <1>17, <1>20, <2>1
  <2>3. x3[p + 2] = x2[p + 2]
    BY <1>18, <1>20, <2>1
  <2>4. h[p + 2] = x3[p + 2]
    BY <1>19, <1>20, <2>1
  <2> QED BY <1>6, <2>1, <2>2, <2>3, <2>4
<1>25. ASSUME NEW k \in 1 .. n
       PROVE  h[p + 2 * k + 1] = Symbol("field", 0) /\ h[p + 2 * k + 2] = Crlf
  <2>1. /\ 2 * k - 1 \in 1 .. 2 * n /\ 2 * k \in 1 .. 2 * n
        /\ (p + 2) + (2 * k - 1) = p + 2 * k + 1 /\ (p + 2) + 2 * k = p + 2 * k + 2
        /\ p + 2 * k + 1 \in 1 .. p + 2 + 2 * n /\ p + 2 * k + 2 \in 1 .. p + 2 + 2 * n
    OBVIOUS
  <2>2. x3[(p + 2) + (2 * k - 1)] = f[2 * k - 1] /\ x3[(p + 2) + 2 * k] = f[2 * k]
    BY <1>8, <1>18, <1>20, <2>1
  <2>3. h[p + 2 * k + 1] = x3[p + 2 * k + 1] /\ h[p + 2 * k + 2] = x3[p + 2 * k + 2]
    BY <1>19, <1>20, <2>1
  <2> QED BY <1>8, <2>1, <2>2, <2>3
<1>26. h[p + 2 * n + 3] = Crlf
  <2>1. 1 \in 1 .. Len(c) /\ (p + 2 + 2 * n) + 1 = p + 2 * n + 3
    BY <1>6
  <2>2. h[(p + 2 + 2 * n) + 1] = c[1]
    BY <1>19, <1>20, <2>1
  <2> QED BY <1>6, <2>1, <2>2
<1>27. BlockIs(h, type, length, n, p)
  BY <1>20, <1>22, <1>23, <1>24, <1>25, <1>26 DEF BlockIs
<1> QED BY <1>11, <1>12, <1>13, <1>14, <1>15, <1>27

\* The symbols of the fields alternate.
LEMMA EvenOrOdd == \A d \in Nat : \E e \in Nat : d = 2 * e \/ d = 2 * e + 1
<1> DEFINE S == {d \in Nat : \E e \in Nat : d = 2 * e \/ d = 2 * e + 1}
<1>1. 0 \in S
  OBVIOUS
<1>2. ASSUME NEW d \in S PROVE d + 1 \in S
  <2>1. PICK e \in Nat : d = 2 * e \/ d = 2 * e + 1
    OBVIOUS
  <2>2. d + 1 = 2 * e + 1 \/ d + 1 = 2 * (e + 1)
    BY <2>1
  <2>3. e + 1 \in Nat /\ d + 1 \in Nat
    BY <2>1
  <2> QED BY <2>2, <2>3
<1>3. S \in SUBSET Nat
  OBVIOUS
<1>4. \A d \in Nat : d \in S
  <2> HIDE DEF S
  <2> QED BY <1>1, <1>2, <1>3, SetInduction
<1> QED BY <1>4

\* In front of its end no two CRLFs follow each other.
LEMMA BlockEndsOnce ==
    ASSUME NEW h, NEW type, NEW length, NEW n \in Nat, NEW p \in Nat,
           type # "crlf", BlockIs(h, type, length, n, p), NEW i \in 1 .. p + 2 * n + 1
    PROVE  h[i] # Crlf \/ h[i + 1] # Crlf
<1>1. /\ \A t, v : t # "crlf" => Symbol(t, v) # Crlf
      /\ Symbol("padding", 0) # Crlf /\ Symbol("field", 0) # Crlf
  BY SymbolsDiffer
<1>2. CASE i = 1
  BY <1>1, <1>2 DEF BlockIs
<1>3. CASE i \in 2 .. p + 1
  BY <1>1, <1>3 DEF BlockIs
<1>4. CASE i > p + 1
  <2>1. PICK e \in Int : i = p + 2 * e + 1 \/ i = p + 2 * e + 2
    <3> DEFINE d == i - (p + 1)
    <3>1. d \in Nat
      BY <1>4
    <3> HIDE DEF d
    <3>4. PICK e \in Nat : d = 2 * e \/ d = 2 * e + 1
      BY <3>1, EvenOrOdd
    <3> QED BY <3>4 DEF d
  <2>2. CASE i = p + 2 * e + 1
    <3>1. e \in 1 .. n
      BY <1>4, <2>2
    <3> QED BY <1>1, <2>2, <3>1 DEF BlockIs
  <2>3. CASE i = p + 2 * e + 2
    <3> DEFINE k == e + 1
    <3>1. k \in 1 .. n /\ i + 1 = p + 2 * k + 1
      BY <1>4, <2>3
    <3> HIDE DEF k
    <3>2. h[i + 1] = Symbol("field", 0)
      BY <3>1 DEF BlockIs
    <3> QED BY <1>1, <3>2
  <2> QED BY <2>1, <2>2, <2>3
<1> QED BY <1>2, <1>3, <1>4

\* HeaderEnd finds the end of the block that the buffer begins with, once it is there,
\* and not before.
LEMMA HeaderEndIs ==
    ASSUME buffer \in Seq(Symbols), NEW h, NEW type, NEW length, NEW n \in Nat, NEW p \in Nat,
           type # "crlf", BlockIs(h, type, length, n, p),
           \A j \in 1 .. Len(buffer) : j <= Len(h) => buffer[j] = h[j]
    PROVE  HeaderEnd = IF Len(h) <= Len(buffer) THEN p + 2 * n + 2 ELSE 0
<1> DEFINE ends == {i \in 1 .. (Len(buffer) - 1) : {buffer[i], buffer[i + 1]} = {Crlf}}
           last == p + 2 * n + 2
<1>1. /\ Len(buffer) \in Nat /\ Len(h) = p + 2 * n + 3 /\ last \in Nat /\ Len(h) = last + 1
      /\ last >= 2 /\ last - 1 = p + 2 * n + 1
  BY LenProperties DEF BlockIs
<1>2. HeaderEnd = IF ends = {} THEN 0 ELSE Min(ends)
  BY DEF HeaderEnd
<1>6. /\ ends \subseteq 1 .. (Len(buffer) - 1)
      /\ \A i \in ends : buffer[i] = Crlf /\ buffer[i + 1] = Crlf
      /\ \A i \in 1 .. (Len(buffer) - 1) :
           buffer[i] = Crlf /\ buffer[i + 1] = Crlf => i \in ends
  <2>1. ends \subseteq 1 .. (Len(buffer) - 1)
    BY Zenon
  <2> QED BY <2>1
<1> HIDE DEF ends
<1>7. ends \in SUBSET Nat
  BY <1>1, <1>6
<1>3. \A i \in ends : i >= last
  <2> SUFFICES ASSUME NEW i \in ends, i < last PROVE FALSE
    BY <1>1, <1>7
  <2>0. i \in 1 .. (Len(buffer) - 1)
    BY <1>6
  <2>1. /\ i \in 1 .. p + 2 * n + 1 /\ i \in 1 .. Len(buffer) /\ i + 1 \in 1 .. Len(buffer)
        /\ i <= Len(h) /\ i + 1 <= Len(h)
    BY <1>1, <2>0
  <2>2. buffer[i] = Crlf /\ buffer[i + 1] = Crlf
    BY <1>6
  <2>3. h[i] = Crlf /\ h[i + 1] = Crlf
    BY <2>1, <2>2
  <2> QED BY <2>1, <2>3, BlockEndsOnce
<1>4. CASE Len(h) <= Len(buffer)
  <2>1. last \in ends
    <3>1. /\ last \in 1 .. (Len(buffer) - 1) /\ last \in 1 .. Len(buffer)
          /\ last + 1 \in 1 .. Len(buffer) /\ last <= Len(h) /\ last + 1 <= Len(h)
      BY <1>1, <1>4
    <3>2. h[last] = Crlf /\ h[last + 1] = Crlf
      <4>1. h[p + 2 * n + 3] = Crlf /\ last + 1 = p + 2 * n + 3
        BY DEF BlockIs
      <4>2. CASE n = 0
        <5>1. h[p + 2] = Crlf /\ last = p + 2
          BY <4>2 DEF BlockIs
        <5> QED BY <4>1, <5>1
      <4>3. CASE n # 0
        <5>1. n \in 1 .. n
          BY <4>3
        <5>2. h[p + 2 * n + 2] = Crlf
          BY <5>1 DEF BlockIs
        <5> QED BY <4>1, <5>2
      <4> QED BY <4>2, <4>3
    <3>3. buffer[last] = Crlf /\ buffer[last + 1] = Crlf
      <4> HIDE DEF last
      <4> QED BY <3>1, <3>2
    <3> HIDE DEF last
    <3> QED BY <1>6, <3>1, <3>3
  <2>2. ends \in SUBSET Nat /\ ends # {}
    BY <1>7, <2>1
  <2>3. Min(ends) \in ends /\ \A x \in ends : Min(ends) <= x
    BY <2>2, LeastOfNaturals
  <2> HIDE DEF last
  <2>4. Min(ends) \in Nat /\ Min(ends) <= last /\ Min(ends) >= last
    BY <1>3, <2>1, <2>2, <2>3, Zenon
  <2>5. Min(ends) = last
    BY <1>1, <2>4
  <2> QED BY <1>2, <1>4, <2>2, <2>5 DEF last, ends
<1>5. CASE ~(Len(h) <= Len(buffer))
  <2>1. ASSUME NEW i \in ends PROVE FALSE
    <3>1. i \in 1 .. (Len(buffer) - 1) /\ i >= last
      BY <1>3, <1>6
    <3> HIDE DEF last
    <3> QED BY <1>1, <1>5, <3>1
  <2>2. ends = {}
    BY <2>1
  <2> QED BY <1>2, <1>5, <2>2
<1> QED BY <1>4, <1>5

\* As many lines as there are header fields.
LEMMA HeaderLinesAre ==
    ASSUME buffer \in Seq(Symbols), NEW h, NEW type, NEW length, NEW n \in Nat, NEW p \in Nat,
           type \notin {"crlf", "field"}, BlockIs(h, type, length, n, p),
           \A j \in 1 .. Len(buffer) : j <= Len(h) => buffer[j] = h[j], Len(h) <= Len(buffer)
    PROVE  HeaderLines = n
<1> DEFINE S == {i \in 1 .. (HeaderEnd - 1) : buffer[i].type = "field"}
           f == [k \in 1 .. n |-> p + 2 * k + 1]
<1>1. /\ HeaderEnd = p + 2 * n + 2 /\ Len(h) = p + 2 * n + 3 /\ Len(buffer) \in Nat
      /\ 1 .. (HeaderEnd - 1) = 1 .. p + 2 * n + 1
  <2>1. HeaderEnd = p + 2 * n + 2
    BY HeaderEndIs
  <2> QED BY <2>1, LenProperties DEF BlockIs
<1>2. \A i \in 1 .. p + 2 * n + 1 : i \in 1 .. Len(buffer) /\ i <= Len(h) /\ buffer[i] = h[i]
  <2> SUFFICES ASSUME NEW i \in 1 .. p + 2 * n + 1
               PROVE  i \in 1 .. Len(buffer) /\ i <= Len(h) /\ buffer[i] = h[i]
    OBVIOUS
  <2>1. i \in 1 .. Len(buffer) /\ i <= Len(h)
    BY <1>1
  <2> QED BY <2>1
<1>3. /\ Crlf.type # "field" /\ Symbol("padding", 0).type # "field"
      /\ Symbol("field", 0).type = "field" /\ Symbol(type, length).type # "field"
  BY DEF Symbol, Crlf
<1>4. ASSUME NEW k \in 1 .. n PROVE p + 2 * k + 1 \in S
  <2>1. p + 2 * k + 1 \in 1 .. p + 2 * n + 1
    OBVIOUS
  <2>2. h[p + 2 * k + 1] = Symbol("field", 0)
    BY DEF BlockIs
  <2> QED BY <1>1, <1>2, <1>3, <2>1, <2>2
<1>5. ASSUME NEW i \in S PROVE \E k \in 1 .. n : i = p + 2 * k + 1
  <2>1. i \in 1 .. p + 2 * n + 1 /\ h[i].type = "field"
    BY <1>1, <1>2
  <2>2. i # 1 /\ i \notin 2 .. p + 1 /\ i # p + 2
    BY <1>3, <2>1 DEF BlockIs
  <2> DEFINE d == i - (p + 1)
  <2>3. d \in Nat /\ d >= 2 /\ d <= 2 * n
    BY <2>1, <2>2
  <2>4. i = p + 1 + d
    BY <2>1
  <2> HIDE DEF d
  <2>5. PICK e \in Nat : d = 2 * e \/ d = 2 * e + 1
    BY <2>3, EvenOrOdd
  <2>6. e \in 1 .. n
    BY <2>3, <2>5
  <2>7. CASE d = 2 * e
    BY <2>4, <2>6, <2>7
  <2>8. CASE d = 2 * e + 1
    <3>1. i = p + 2 * e + 2
      BY <2>4, <2>8
    <3>2. h[i] = Crlf
      BY <2>6, <3>1 DEF BlockIs
    <3> QED BY <1>3, <2>1, <3>2
  <2> QED BY <2>5, <2>7, <2>8
<1> HIDE DEF S
<1>6. f \in [1 .. n -> S]
  BY <1>4
<1>7. \A k, l \in 1 .. n : f[k] = f[l] => k = l
  OBVIOUS
<1>8. \A i \in S : \E k \in 1 .. n : f[k] = i
  BY <1>5
<1>9. ExistsBijection(1 .. n, S)
  BY <1>6, <1>7, <1>8 DEF ExistsBijection, Bijection, Injection, Surjection, IsInjective
<1>10. Cardinality(S) = n
  BY <1>9, FS_CountingElements
<1> QED BY <1>10 DEF S, HeaderLines

-----------------------------------------------------------------------------
(* How the pieces follow one another. *)

\* Concatenation, where only its laws are needed.
Cat(a, b) == a \o b

\* Concatenation of five pieces.
LEMMA CatAssociative ==
    ASSUME NEW V
    PROVE  \A a, b, c \in Seq(V) : Cat(Cat(a, b), c) = Cat(a, Cat(b, c))
BY Associative DEF Cat

LEMMA CatTyped ==
    ASSUME NEW V, NEW a \in Seq(V), NEW b \in Seq(V)
    PROVE  Cat(a, b) \in Seq(V)
BY ConcatTyped DEF Cat

LEMMA CatFive ==
    ASSUME NEW V, NEW a \in Seq(V), NEW b \in Seq(V), NEW c \in Seq(V), NEW d \in Seq(V),
           NEW e \in Seq(V)
    PROVE  Cat(Cat(Cat(Cat(a, b), c), d), e) = Cat(a, Cat(b, Cat(c, Cat(d, e))))
<1>1. PICK p \in Seq(V) : p = Cat(a, b)
  BY CatTyped
<1>2. PICK q \in Seq(V) : q = Cat(p, c)
  BY CatTyped
<1>3. PICK r \in Seq(V) : r = Cat(d, e)
  BY CatTyped
<1>4. PICK s \in Seq(V) : s = Cat(c, r)
  BY CatTyped
<1>5. /\ Cat(Cat(q, d), e) = Cat(q, Cat(d, e)) /\ Cat(Cat(p, c), r) = Cat(p, Cat(c, r))
      /\ Cat(Cat(a, b), s) = Cat(a, Cat(b, s))
  BY CatAssociative
<1> QED BY <1>1, <1>2, <1>3, <1>4, <1>5

\* The types and lengths of the pieces of a response.
LEMMA Pieces ==
    ASSUME NEW m, Message(m)
    PROVE  /\ Datas(m) \in Seq(Seq(Symbols)) /\ Len(Datas(m)) = Len(m.chunks)
           /\ Codes(m) \in Seq(Seq(Symbols)) /\ Len(Codes(m)) = Len(m.chunks)
           /\ \A i \in 1 .. Len(m.chunks) :
                /\ Datas(m)[i] = Data(m.chunks[i])
                /\ Codes(m)[i] = ChunkCode(m, i)
                /\ Data(m.chunks[i]) \in Seq(Symbols)
                /\ Len(Data(m.chunks[i])) = Len(m.chunks[i])
                /\ Len(m.chunks[i]) \in Nat /\ Len(m.chunks[i]) > 0
           /\ Len(m.chunks) \in Nat
           /\ m.trailers \in Nat
           /\ CrlfOf(m) \in Seq(Symbols)
           /\ Content(m) \in Seq(Symbols)
           /\ \A k \in Nat : Ending(m, k) \in Seq(Symbols)
           /\ \A i \in 0 .. Len(m.chunks) : Chunks(m, i) \in Seq(Symbols)
<1>1. \A i \in 1 .. Len(m.chunks) :
        /\ m.chunks[i] \in Seq(Nat \ {0})
        /\ Len(m.chunks[i]) \in Nat /\ Len(m.chunks[i]) > 0
  BY MessageFields
<1>2. Len(m.chunks) \in Nat /\ m.trailers \in Nat
  BY MessageFields
<1>3. \A i \in 1 .. Len(m.chunks) :
        Data(m.chunks[i]) \in Seq(Alphabet(Int)) /\ Len(Data(m.chunks[i])) = Len(m.chunks[i])
  <2>1. Nat \subseteq Int
    OBVIOUS
  <2> QED BY <1>1, <2>1, DataTyped
<1>4. /\ Datas(m) \in Seq(Seq(Alphabet(Int))) /\ Len(Datas(m)) = Len(m.chunks)
      /\ Codes(m) \in Seq(Seq(Alphabet(Int))) /\ Len(Codes(m)) = Len(m.chunks)
      /\ \A i \in 1 .. Len(m.chunks) :
           /\ Datas(m)[i] = Data(m.chunks[i])
           /\ Codes(m)[i] = ChunkCode(m, i)
      /\ CrlfOf(m) \in Seq(Alphabet(Int))
      /\ Content(m) \in Seq(Alphabet(Int))
      /\ \A k \in Nat : Ending(m, k) \in Seq(Alphabet(Int))
      /\ \A i \in 0 .. Len(m.chunks) : Chunks(m, i) \in Seq(Alphabet(Int))
  <2>1. Nat \subseteq Int /\ (m.fault = "negative" => Int = Int)
    OBVIOUS
  <2> QED BY <2>1, PiecesTyped
<1> QED BY <1>1, <1>2, <1>3, <1>4, SymbolsAlphabet

\* A chunk in front of the others.
LEMMA ChunksStep ==
    ASSUME NEW m, Message(m), NEW i \in 1 .. Len(m.chunks)
    PROVE  Chunks(m, i - 1) =
             SizeLine(m, Len(m.chunks[i])) \o (Data(m.chunks[i]) \o (CrlfOf(m) \o Chunks(m, i)))
<1>1. /\ Len(m.chunks) \in Nat /\ m.trailers \in Nat /\ Len(m.chunks[i]) \in Nat
      /\ Codes(m) \in Seq(Seq(Symbols)) /\ Len(Codes(m)) = Len(m.chunks)
      /\ Codes(m)[i] = ChunkCode(m, i)
      /\ Data(m.chunks[i]) \in Seq(Symbols) /\ CrlfOf(m) \in Seq(Symbols)
      /\ Ending(m, m.trailers) \in Seq(Symbols)
  BY Pieces
<1>2. PICK codes \in Seq(Seq(Symbols)) : codes = Codes(m)
  BY <1>1
<1>3. i - 1 \in 0 .. Len(codes) - 1 /\ (i - 1) + 1 = i /\ i \in 0 .. Len(codes)
  BY <1>1, <1>2
<1>4. FlattenSeq(After(codes, i - 1)) = codes[(i - 1) + 1] \o FlattenSeq(After(codes, (i - 1) + 1))
  BY <1>3, FlattenAfter
<1>5. PICK rest \in Seq(Seq(Symbols)) : rest = After(codes, i)
  BY <1>3, AfterElements
<1>6. PICK f \in Seq(Symbols) : f = FlattenSeq(rest)
  BY FlattenTyped
<1>7. PICK s \in Seq(Symbols) : s = SizeLine(m, Len(m.chunks[i]))
  BY <1>1, SizeLineIs
<1>8. PICK d \in Seq(Symbols) : d = Data(m.chunks[i])
  BY <1>1
<1>9. PICK c \in Seq(Symbols) : c = CrlfOf(m)
  BY <1>1
<1>10. PICK l \in Seq(Symbols) : l = SizeLine(m, 0)
  BY SizeLineIs
<1>11. PICK e \in Seq(Symbols) : e = Ending(m, m.trailers)
  BY <1>1
<1>12. PICK z \in Seq(Symbols) : z = l \o e
  BY ConcatTyped
<1>13. FlattenSeq(After(codes, i - 1)) = ((s \o d) \o c) \o f
  BY <1>1, <1>2, <1>3, <1>4, <1>5, <1>6, <1>7, <1>8, <1>9, Zenon DEF ChunkCode
<1>14. Chunks(m, i - 1) = (((s \o d) \o c) \o f) \o z
  BY <1>2, <1>10, <1>11, <1>12, <1>13, Zenon DEF Chunks
<1>15. Chunks(m, i) = f \o z
  BY <1>2, <1>5, <1>6, <1>10, <1>11, <1>12, Zenon DEF Chunks
<1>16. Cat(Cat(Cat(Cat(s, d), c), f), z) = Cat(s, Cat(d, Cat(c, Cat(f, z))))
  BY CatFive
<1> QED BY <1>7, <1>8, <1>9, <1>14, <1>15, <1>16, Zenon DEF Cat

\* Behind the last chunk: the size 0 and the trailer.
LEMMA ChunksEnd ==
    ASSUME NEW m, Message(m)
    PROVE  Chunks(m, Len(m.chunks)) = SizeLine(m, 0) \o Ending(m, m.trailers)
<1>1. /\ Len(m.chunks) \in Nat /\ m.trailers \in Nat
      /\ Codes(m) \in Seq(Seq(Symbols)) /\ Len(Codes(m)) = Len(m.chunks)
      /\ Ending(m, m.trailers) \in Seq(Symbols)
  BY Pieces
<1>2. PICK codes \in Seq(Seq(Symbols)) : codes = Codes(m)
  BY <1>1
<1>3. PICK n \in 0 .. Len(codes) : n = Len(m.chunks)
  BY <1>1, <1>2
<1>4. PICK rest \in Seq(Seq(Symbols)) : rest = After(codes, n)
  BY AfterElements
<1>5. Len(rest) = 0
  BY <1>1, <1>2, <1>3, <1>4, AfterElements
<1>6. FlattenSeq(rest) = <<>>
  BY <1>5, FlattenTyped
<1>7. PICK l \in Seq(Symbols) : l = SizeLine(m, 0)
  BY SizeLineIs
<1>8. PICK e \in Seq(Symbols) : e = Ending(m, m.trailers)
  BY <1>1
<1>9. PICK z \in Seq(Symbols) : z = l \o e
  BY ConcatTyped
<1>10. <<>> \o z = z
  BY ConcatEmptySeq
<1> QED BY <1>2, <1>3, <1>4, <1>6, <1>7, <1>8, <1>9, <1>10, Zenon DEF Chunks

\* The trailers end with an empty line; each of them is a line.
LEMMA EndingStep ==
    ASSUME NEW m, Message(m), NEW t \in Nat
    PROVE  /\ Ending(m, 0) = <<Crlf>>
           /\ Ending(m, t + 1) = TrailerLine(m) \o Ending(m, t)
<1>1. PICK a \in Seq(Symbols) : a = TrailerLine(m)
  BY TrailerLineIs
<1>2. PICK f \in Seq(Symbols) : f = FlattenSeq(Times(t, a))
  BY FlattenTimes
<1>3. FlattenSeq(Times(0, a)) = <<>> /\ FlattenSeq(Times(t + 1, a)) = a \o f
  BY <1>2, FlattenTimes
<1>4. PICK c \in Seq(Symbols) : c = <<Crlf>>
  BY EmptyLineIs
<1>5. <<>> \o c = c /\ (a \o f) \o c = a \o (f \o c)
  BY ConcatEmptySeq, ConcatAssociative
<1> QED BY <1>1, <1>2, <1>3, <1>4, <1>5, Zenon DEF Ending

\* The types of what is in front of the body.
LEMMA HeadTyped ==
    ASSUME NEW m, Message(m)
    PROVE  /\ Info \in Seq(Symbols) /\ \A k \in Nat : Infos(k) \in Seq(Symbols)
           /\ ResponseHead(m) \in Seq(Symbols) /\ Rest(m) \in Seq(Symbols)
<1>1. Info \in Seq(Symbols)
  <2>1. "info" \in SymbolTypes /\ 0 \in Int /\ 0 \in Nat /\ Nat \subseteq Int
    BY DEF SymbolTypes
  <2>2. HeaderBlock("info", 0, 0, 0) \in Seq(Alphabet(Int))
    BY <2>1, BlockTyped
  <2> QED BY <2>2, SymbolsAlphabet DEF Info
<1>2. /\ \A k \in Nat : Infos(k) \in Seq(Alphabet(Int))
      /\ ResponseHead(m) \in Seq(Alphabet(Int)) /\ Rest(m) \in Seq(Alphabet(Int))
  <2>1. Nat \subseteq Int /\ (m.fault = "negative" => Int = Int)
    OBVIOUS
  <2> QED BY <2>1, EncodeParts
<1> QED BY <1>1, <1>2, SymbolsAlphabet

\* Each informational response is in front of the others and of the response.
LEMMA InfosStep ==
    ASSUME NEW m, Message(m), NEW k \in Nat
    PROVE  /\ Infos(0) \o (ResponseHead(m) \o Rest(m)) = ResponseHead(m) \o Rest(m)
           /\ Infos(k + 1) \o (ResponseHead(m) \o Rest(m))
                = Info \o (Infos(k) \o (ResponseHead(m) \o Rest(m)))
           /\ Encode(m) = Infos(m.infos) \o (ResponseHead(m) \o Rest(m))
           /\ ResponseHead(m) \o Rest(m) \in Seq(Symbols)
           /\ \A l \in Nat : Infos(l) \o (ResponseHead(m) \o Rest(m)) \in Seq(Symbols)
<1>0. Infos(m.infos) \in Seq(Symbols) /\ Infos(k) \in Seq(Symbols) /\ m.infos \in Nat
  BY HeadTyped, MessageFields
<1>1. PICK a \in Seq(Symbols) : a = Info
  BY HeadTyped
<1>2. PICK f \in Seq(Symbols) : f = Infos(k)
  BY <1>0
<1>3. Infos(0) = <<>> /\ Infos(k + 1) = a \o f
  BY <1>1, <1>2, FlattenTimes DEF Infos
<1>4. PICK h \in Seq(Symbols) : h = ResponseHead(m)
  BY HeadTyped
<1>5. PICK r \in Seq(Symbols) : r = Rest(m)
  BY HeadTyped
<1>6. PICK c \in Seq(Symbols) : c = h \o r
  BY ConcatTyped
<1>7. <<>> \o c = c /\ (a \o f) \o c = a \o (f \o c)
  BY ConcatEmptySeq, ConcatAssociative, SMTT(30)
<1>8. PICK g \in Seq(Symbols) : g = Infos(m.infos)
  BY <1>0
<1>9. (g \o h) \o r = g \o (h \o r)
  BY Assoc3, SMTT(60)
<1>10. Encode(m) = (Infos(m.infos) \o ResponseHead(m)) \o Rest(m)
  <2>1. Nat \subseteq Int /\ (m.fault = "negative" => Int = Int)
    OBVIOUS
  <2> QED BY <2>1, EncodeParts
<1>11. ASSUME NEW l \in Nat PROVE Infos(l) \o c \in Seq(Symbols)
  <2>1. PICK i \in Seq(Symbols) : i = Infos(l)
    BY HeadTyped
  <2>2. i \o c \in Seq(Symbols)
    BY ConcatTyped
  <2> QED BY <2>1, <2>2
<1>12. \A l \in Nat : Infos(l) \o (ResponseHead(m) \o Rest(m)) \in Seq(Symbols)
  BY <1>4, <1>5, <1>6, <1>11, Zenon
<1> QED BY <1>1, <1>2, <1>3, <1>4, <1>5, <1>6, <1>7, <1>8, <1>9, <1>10, <1>12, Zenon

\* The data of the chunks that are still to come.
Coming(m, i) == FlattenSeq(After(Datas(m), i))

\* The data of a chunk is in front of the data of the later ones.
LEMMA ComingStep ==
    ASSUME NEW m, Message(m), NEW i \in 1 .. Len(m.chunks)
    PROVE  /\ Coming(m, i - 1) = Data(m.chunks[i]) \o Coming(m, i)
           /\ Coming(m, i) \in Seq(Symbols)
<1>1. /\ Datas(m) \in Seq(Seq(Symbols)) /\ Len(Datas(m)) = Len(m.chunks)
      /\ Datas(m)[i] = Data(m.chunks[i]) /\ Len(m.chunks) \in Nat
  BY Pieces
<1>2. PICK datas \in Seq(Seq(Symbols)) : datas = Datas(m)
  BY <1>1
<1>3. i - 1 \in 0 .. Len(datas) - 1 /\ (i - 1) + 1 = i /\ i \in 0 .. Len(datas)
  BY <1>1, <1>2
<1>4. FlattenSeq(After(datas, i - 1)) = datas[(i - 1) + 1] \o FlattenSeq(After(datas, (i - 1) + 1))
  BY <1>3, FlattenAfter
<1>5. PICK rest \in Seq(Seq(Symbols)) : rest = After(datas, i)
  BY <1>3, AfterElements
<1>6. FlattenSeq(rest) \in Seq(Symbols)
  BY FlattenTyped
<1> QED BY <1>1, <1>2, <1>3, <1>4, <1>5, <1>6, Zenon DEF Coming

\* No chunk read: all data is to come; all read: none.
LEMMA ComingEnds ==
    ASSUME NEW m, Message(m)
    PROVE  /\ Coming(m, 0) = Content(m)
           /\ Coming(m, Len(m.chunks)) = <<>>
<1>1. /\ Datas(m) \in Seq(Seq(Symbols)) /\ Len(Datas(m)) = Len(m.chunks) /\ Len(m.chunks) \in Nat
  BY Pieces
<1>2. PICK datas \in Seq(Seq(Symbols)) : datas = Datas(m)
  BY <1>1
<1>3. PICK n \in 0 .. Len(datas) : n = Len(m.chunks)
  BY <1>1, <1>2
<1>4. PICK rest \in Seq(Seq(Symbols)) : rest = After(datas, n)
  BY AfterElements
<1>5. Len(rest) = 0
  BY <1>1, <1>2, <1>3, <1>4, AfterElements
<1>6. FlattenSeq(rest) = <<>>
  BY <1>5, FlattenTyped
<1>7. After(datas, 0) = datas
  BY SubSeqFull DEF After
<1>8. Content(m) = FlattenSeq(Datas(m))
  BY DEF Content, Datas
<1> QED BY <1>2, <1>3, <1>4, <1>6, <1>7, <1>8, Zenon DEF Coming

-----------------------------------------------------------------------------
(* The inductive invariant. *)

\* The header block has been accepted.
HeadFits ==
    /\ HeadSize <= MaxHeaderSize /\ message.fields <= MaxHeaderLines
    /\ message.fault \notin {"badhead", "badlength"}

\* The header block and i chunks have been accepted.
HasRead(i) ==
    /\ message.framing = "chunked" /\ HeadFits
    /\ body \o Coming(message, i) = Content(message)
    /\ \A j \in 1 .. i : Len(message.chunks[j]) <= MaxChunkSize
    /\ i > 0 => message.fault # "badsize"

\* The number of chunks.
Count == Len(message.chunks)

\* Where the reader is in what the server set out to send, for each pc: what it has put
\* together, and what the unread symbols are a beginning of.
AtHead ==
    /\ body = <<>> /\ trailers = 0
    /\ \E k \in 0 .. message.infos :
          Cut(Unread, Infos(k) \o (ResponseHead(message) \o Rest(message)))
AtContent ==
    /\ message.framing = "length" /\ HeadFits
    /\ need = Len(Content(message)) /\ body = <<>> /\ trailers = 0
    /\ Cut(Unread, Content(message))
AtClose ==
    /\ message.framing = "close" /\ HeadFits
    /\ trailers = 0
    /\ Cut(Unread, Content(message))
AtLine ==
    \E i \in 0 .. Count :
        /\ HasRead(i) /\ (i > 0 => message.fault # "nocrlf") /\ trailers = 0
        /\ Cut(Unread, Chunks(message, i))
AtChunk ==
    \E i \in 1 .. Count :
        /\ HasRead(i - 1) /\ (i > 1 => message.fault # "nocrlf") /\ trailers = 0
        /\ message.fault # "badsize"
        /\ need = Len(message.chunks[i]) /\ need <= MaxChunkSize
        /\ Cut(Unread, Data(message.chunks[i]) \o (CrlfOf(message) \o Chunks(message, i)))
AtCrlf ==
    \E i \in 1 .. Count :
        /\ HasRead(i) /\ trailers = 0
        /\ Cut(Unread, CrlfOf(message) \o Chunks(message, i))
AtTrailer ==
    \E t \in 0 .. message.trailers :
        /\ HasRead(Count) /\ body = Content(message)
        /\ message.fault \notin {"nocrlf", "badsize"}
        /\ trailers + t = message.trailers
        /\ trailers > 0 => message.fault # "badtrailer"
        /\ Cut(Unread, Ending(message, t))

\* The reader is where its pc says.
InPlace ==
    /\ pc = "head" => AtHead
    /\ pc = "content" => AtContent
    /\ pc = "close" => AtClose
    /\ pc = "line" => AtLine
    /\ pc = "chunk" => AtChunk
    /\ pc = "crlf" => AtCrlf
    /\ pc = "trailer" => AtTrailer

\* The server sent a beginning of its response, or all of it and what follows.
Server == message.fault # "negative" /\ SentIsCut

\* The inductive invariant: the reader is in place, or it has ended as it should.
MInv == Server /\ InPlace /\ RightResponse /\ RejectsForAReason /\ StopsAtTheEnd

\* A reason to reject, see RejectsForAReason.
Reason ==
    \/ Truncated
    \/ message.fault # "none"
    \/ ~WithinLimits
    \/ NearLimit
    \/ message.framing = "close" /\ Len(Content(message) \o Extra(message)) > MaxBodySize

\* A response that is complete and right, in the next state.
RightEnd ==
    /\ message.fault = "none"
    /\ message.framing # "close" =>
          /\ ~Truncated
          /\ WithinLimits
          /\ message.framing # "bodyless" => body' = Content(message)
          /\ Joined(buffer', prefix', wire') = After(sent, Len(Encode(message)))
    /\ message.framing = "close" =>
          /\ IsPrefix(body', Content(message) \o Extra(message))
          /\ Len(sent) = Len(Encode([message EXCEPT !.chunks = <<>>])) + Len(body')
          /\ Len(body') <= MaxBodySize
    /\ trailers' = (IF message.framing = "chunked" THEN message.trailers ELSE 0)

\* How a reader in place may end: with an error for a reason,
LEMMA RejectStep ==
    ASSUME MInv, End("ProtocolError"), Reason
    PROVE  MInv'
<1>1. message' = message /\ sent' = sent /\ pc' = "done" /\ outcome' = "ProtocolError"
  BY DEF End, serverVars
<1>2. Server'
  BY <1>1 DEF MInv, Server, SentIsCut, Truncated
<1>3. InPlace'
  BY <1>1 DEF InPlace
<1>4. RightResponse' /\ StopsAtTheEnd'
  BY <1>1 DEF RightResponse, StopsAtTheEnd
<1>5. Reason'
  BY <1>1 DEF Reason, Truncated, WithinLimits, NearLimit, HeadSize, LineSize
<1>6. RejectsForAReason'
  BY <1>5 DEF RejectsForAReason, Reason
<1> QED BY <1>2, <1>3, <1>4, <1>6 DEF MInv

\* with an error of the socket,
LEMMA FailStep ==
    ASSUME MInv, NEW how \in {"RequestTimeout", "OSError"}, End(how)
    PROVE  MInv'
<1>1. /\ message' = message /\ sent' = sent /\ pc' = "done"
      /\ outcome' # "response" /\ outcome' # "ProtocolError"
  BY DEF End, serverVars
<1>2. Server'
  BY <1>1 DEF MInv, Server, SentIsCut, Truncated
<1>3. InPlace'
  BY <1>1 DEF InPlace
<1>4. RightResponse' /\ StopsAtTheEnd' /\ RejectsForAReason'
  BY <1>1 DEF RightResponse, StopsAtTheEnd, RejectsForAReason
<1> QED BY <1>2, <1>3, <1>4 DEF MInv

\* or with the right response;
LEMMA ResponseStep ==
    ASSUME MInv, End("response"), RightEnd
    PROVE  MInv'
<1>1. message' = message /\ sent' = sent /\ pc' = "done" /\ outcome' = "response"
  BY DEF End, serverVars
<1>2. Server'
  BY <1>1 DEF MInv, Server, SentIsCut, Truncated
<1>3. InPlace'
  BY <1>1 DEF InPlace
<1>4. WithinLimits' = WithinLimits /\ Truncated' = Truncated
  BY <1>1 DEF WithinLimits, Truncated, HeadSize
<1>5. RightResponse'
  BY <1>1, <1>4 DEF RightResponse, RightEnd
<1>6. StopsAtTheEnd'
  BY <1>1 DEF StopsAtTheEnd, RightEnd, Joined
<1>7. RejectsForAReason'
  BY <1>1 DEF RejectsForAReason
<1> QED BY <1>2, <1>3, <1>5, <1>6, <1>7 DEF MInv

\* or it moves on to another place.
LEMMA PlaceStep ==
    ASSUME TypeOK, MInv, pc # "done", NEW what, Continue(what), InPlace'
    PROVE  MInv'
<1>1. /\ message' = message /\ sent' = sent /\ outcome' = "none"
  BY DEF Continue, serverVars, TypeOK
<1>2. Server'
  BY <1>1 DEF MInv, Server, SentIsCut, Truncated
<1>3. RightResponse' /\ StopsAtTheEnd' /\ RejectsForAReason'
  BY <1>1 DEF RightResponse, StopsAtTheEnd, RejectsForAReason
<1> QED BY <1>2, <1>3 DEF MInv

\* The length of the header block, without the empty line behind it.
LEMMA HeadSizeIs ==
    ASSUME TypeOK
    PROVE  /\ HeadSize = message.padding + 2 * message.fields + 1
           /\ message.padding \in Nat /\ message.fields \in Nat /\ message.extension \in Nat
           /\ HeadSize \in Nat /\ HeadSize >= 1
           /\ LineSize = message.extension + 1 /\ LineSize \in Nat
<1>1. /\ message.padding \in Nat /\ message.fields \in Nat /\ message.extension \in Nat
      /\ message.framing \in SymbolTypes
  <2>1. Message(message)
    BY DEF TypeOK
  <2>2. /\ message.padding \in Nat /\ message.fields \in Nat /\ message.extension \in Nat
        /\ message.framing \in {"chunked", "length", "close", "bodyless"}
    BY <2>1, MessageFields
  <2> QED BY <2>2 DEF SymbolTypes
<1>2. BlockIs(HeaderBlock(message.framing, 0, message.fields, message.padding),
              message.framing, 0, message.fields, message.padding)
  BY <1>1, HeaderBlockIs
<1>3. Len(HeaderBlock(message.framing, 0, message.fields, message.padding))
        = message.padding + 2 * message.fields + 3
  BY <1>2 DEF BlockIs
<1>4. HeadSize = message.padding + 2 * message.fields + 1
  <2>1. HeadSize = Len(HeaderBlock(message.framing, 0, message.fields, message.padding)) - 2
    BY DEF HeadSize
  <2>2. (message.padding + 2 * message.fields + 3) - 2 = message.padding + 2 * message.fields + 1
    BY <1>1
  <2> QED BY <2>1, <2>2, <1>3
<1>5. /\ message.padding + 2 * message.fields + 1 \in Nat
      /\ message.padding + 2 * message.fields + 1 >= 1
  BY <1>1
<1>6. LineSize = message.extension + 1
  <2>1. 1 + message.extension = message.extension + 1
    BY <1>1
  <2> QED BY <2>1 DEF LineSize
<1>7. message.extension + 1 \in Nat
  BY <1>1
<1> QED BY <1>1, <1>4, <1>5, <1>6, <1>7

\* Concatenation with nothing.
LEMMA EmptyConcat ==
    ASSUME NEW V, NEW s \in Seq(V)
    PROVE  <<>> \o s = s /\ s \o <<>> = s
BY ConcatEmptySeq

\* The reader begins at the beginning.
LEMMA InitCut ==
    ASSUME Init
    PROVE  SentIsCut /\ Cut(Unread, Encode(message))
<1>t. TypeOK
  BY InitTypeOK
<1>1. /\ Encode(message) \in Seq(Symbols) /\ Len(Encode(message)) \in Nat
      /\ Extra(message) \in Seq(Symbols) /\ Len(Extra(message)) \in Nat
      /\ sent \in Seq(Symbols) /\ Len(sent) \in Nat
  BY <1>t, MessageTyped
<1>2. PICK n \in 0 .. Len(Encode(message)) :
        sent = SubSeq(Encode(message), 1, n)
                 \o (IF n = Len(Encode(message)) THEN Extra(message) ELSE <<>>)
  BY DEF Init
<1>3. PICK E \in Seq(Symbols) : E = Encode(message)
  BY <1>1
<1>4. PICK X \in Seq(Symbols) : X = Extra(message)
  BY <1>1
<1>5. /\ E \o X \in Seq(Symbols) /\ Len(E \o X) = Len(E) + Len(X) /\ Len(E) \in Nat /\ Len(X) \in Nat
      /\ \A j \in 1 .. Len(E) : (E \o X)[j] = E[j]
  BY ConcatElements
<1>6. /\ SubSeq(E, 1, n) \in Seq(Symbols) /\ Len(SubSeq(E, 1, n)) = n
      /\ \A i \in 1 .. n : SubSeq(E, 1, n)[i] = E[i]
  BY <1>2, <1>3, FirstElements
<1>7. SentIsCut
  <2>1. CASE n = Len(E)
    <3>1. SubSeq(E, 1, n) = E
      BY <1>6, <2>1, SeqEqual
    <3>2. sent = E \o X
      BY <1>2, <1>3, <1>4, <2>1, <3>1
    <3> QED BY <1>3, <1>4, <1>5, <3>2 DEF SentIsCut, Starts
  <2>2. CASE n # Len(E)
    <3>1. sent = SubSeq(E, 1, n) \o <<>>
      BY <1>2, <1>3, <2>2
    <3>2. sent = SubSeq(E, 1, n)
      BY <1>6, <3>1, EmptyConcat
    <3>7. n < Len(E) /\ n \in Nat
      <4>1. n \in 0 .. Len(E)
        BY <1>2, <1>3
      <4> QED BY <1>5, <2>2, <4>1
    <3>3. Len(sent) = n /\ n < Len(E) /\ n \in Nat
      BY <1>6, <3>2, <3>7
    <3>4. Truncated
      BY <1>3, <3>3 DEF Truncated
    <3>5. \A j \in 1 .. Len(sent) : sent[j] = (E \o X)[j]
      BY <1>5, <1>6, <3>2, <3>3
    <3>6. Len(sent) <= Len(E \o X)
      BY <1>5, <3>3
    <3> QED BY <1>3, <1>4, <3>4, <3>5, <3>6 DEF SentIsCut, Starts
  <2> QED BY <2>1, <2>2
<1>8. Unread = sent
  <2>1. Unread = Joined(<<>>, <<>>, sent)
    BY DEF Unread, Beginning, Init
  <2>2. <<>> \in Seq(Symbols)
    BY EmptySeq
  <2>3. Joined(<<>>, <<>>, sent) = <<>> \o sent
    BY <1>1, <2>2, JoinedEmpty
  <2> QED BY <1>1, <2>1, <2>3, EmptyConcat
<1>9. Starts(sent, Encode(message) \o Extra(message))
  BY <1>7 DEF SentIsCut
<1>10. Len(sent) - Len(sent) = Len(Encode(message)) - Len(Encode(message))
  BY <1>1
<1> QED BY <1>7, <1>8, <1>9, <1>10 DEF Cut

LEMMA InitMInv ==
    ASSUME NoneSigned, Init
    PROVE  MInv
<1>t. TypeOK
  BY InitTypeOK
<1>1. SentIsCut /\ Cut(Unread, Encode(message))
  BY InitCut
<1>2. message \in Messages /\ pc = "head" /\ body = <<>> /\ trailers = 0 /\ outcome = "none"
  BY DEF Init
<1>3. Message(message)
  BY <1>t DEF TypeOK
<1>4. message.infos \in Nat
  BY <1>3, MessageFields
<1>5. Encode(message) = Infos(message.infos) \o (ResponseHead(message) \o Rest(message))
  BY <1>3, <1>4, InfosStep
<1>6. AtHead
  BY <1>1, <1>2, <1>4, <1>5 DEF AtHead
<1>7. InPlace
  BY <1>2, <1>6 DEF InPlace
<1>8. Server
  BY <1>1, <1>2 DEF Server, NoneSigned
<1> QED BY <1>2, <1>7, <1>8 DEF MInv, RightResponse, RejectsForAReason, StopsAtTheEnd

-----------------------------------------------------------------------------
(* What is ahead of the reader. *)

\* The header block h that the reader has begun, and what follows it, b.
Ahead(h, b, type, length, n, p) ==
    /\ h \in Seq(Symbols) /\ b \in Seq(Symbols) /\ n \in Nat /\ p \in Nat
    /\ BlockIs(h, type, length, n, p) /\ type \notin {"crlf", "field"}
    /\ Cut(Unread, h \o b)
    /\ \/ /\ type = "info" /\ n = 0 /\ p = 0
          /\ \E k \in 0 .. message.infos : b = Infos(k) \o (ResponseHead(message) \o Rest(message))
       \/ /\ type = HeadType(message) /\ length = Len(Content(message))
          /\ n = message.fields /\ p = message.padding
          /\ b = Rest(message)

\* The status line tells what is wrong with the header, or the framing.
LEMMA HeadTypes ==
    ASSUME NEW m, Message(m)
    PROVE  HeadType(m) \in {"badhead", "badlength", "chunked", "length", "close", "bodyless"}
BY MessageFields DEF HeadType

\* Such a block is ahead while the reader reads a header.
LEMMA HeadAhead ==
    ASSUME TypeOK, MInv, pc = "head"
    PROVE  \E h, b, type, length, n, p : Ahead(h, b, type, length, n, p)
<1>1. Message(message)
  BY DEF TypeOK
<1>2. PICK k \in 0 .. message.infos :
        Cut(Unread, Infos(k) \o (ResponseHead(message) \o Rest(message)))
  BY DEF MInv, InPlace, AtHead
<1>3. message.infos \in Nat /\ message.fields \in Nat /\ message.padding \in Nat
  BY <1>1, MessageFields
<1>4. /\ Info \in Seq(Symbols) /\ ResponseHead(message) \in Seq(Symbols)
      /\ Rest(message) \in Seq(Symbols)
  BY <1>1, HeadTyped
<1>5. CASE k = 0
  <2>1. Cut(Unread, ResponseHead(message) \o Rest(message))
    BY <1>1, <1>2, <1>3, <1>5, InfosStep
  <2>2. HeadType(message) \in {"badhead", "badlength", "chunked", "length", "close", "bodyless"}
    BY <1>1, HeadTypes
  <2>3. HeadType(message) \in SymbolTypes /\ HeadType(message) \notin {"crlf", "field"}
    BY <2>2 DEF SymbolTypes
  <2>4. Len(Content(message)) \in Int
    BY MessageTyped
  <2>5. BlockIs(ResponseHead(message), HeadType(message), Len(Content(message)),
                message.fields, message.padding)
    BY <1>3, <2>3, <2>4, HeaderBlockIs DEF ResponseHead
  <2>6. Ahead(ResponseHead(message), Rest(message), HeadType(message), Len(Content(message)),
              message.fields, message.padding)
    BY <1>3, <1>4, <2>1, <2>3, <2>5 DEF Ahead
  <2> QED BY <2>6
<1>6. CASE k # 0
  <2>1. PICK l \in Nat : k = l + 1 /\ l \in 0 .. message.infos
    <3>1. k - 1 \in Nat /\ k = (k - 1) + 1 /\ k - 1 \in 0 .. message.infos
      BY <1>2, <1>3, <1>6
    <3> QED BY <3>1
  <2>2. /\ Infos(l + 1) \o (ResponseHead(message) \o Rest(message))
             = Info \o (Infos(l) \o (ResponseHead(message) \o Rest(message)))
        /\ Infos(l) \o (ResponseHead(message) \o Rest(message)) \in Seq(Symbols)
    BY <1>1, <2>1, InfosStep
  <2>3. Cut(Unread, Info \o (Infos(l) \o (ResponseHead(message) \o Rest(message))))
    BY <1>2, <2>1, <2>2
  <2>4. "info" \in SymbolTypes /\ 0 \in Int /\ 0 \in Nat /\ "info" \notin {"crlf", "field"}
    BY DEF SymbolTypes
  <2>5. BlockIs(Info, "info", 0, 0, 0)
    BY <2>4, HeaderBlockIs DEF Info
  <2>6. Ahead(Info, Infos(l) \o (ResponseHead(message) \o Rest(message)), "info", 0, 0, 0)
    BY <1>4, <2>1, <2>2, <2>3, <2>4, <2>5 DEF Ahead
  <2> QED BY <2>6
<1> QED BY <1>5, <1>6

\* It is read when it is complete; when it is not, the server has stopped within it.
LEMMA HeadReads ==
    ASSUME TypeOK, pc = "head",
           NEW h, NEW b, NEW type, NEW length, NEW n, NEW p, Ahead(h, b, type, length, n, p)
    PROVE  /\ Len(h) = p + 2 * n + 3 /\ n \in Nat /\ p \in Nat /\ Len(buffer) \in Nat
           /\ ~Ready => Len(buffer) < Len(h)
           /\ ~Ready /\ prefix = <<>> /\ wire = <<>> => Truncated
           /\ Ready => /\ HeaderEnd = p + 2 * n + 2
                       /\ StatusLine = Symbol(type, length)
                       /\ HeaderLines = n
                       /\ Cut(Joined(Drop(HeaderEnd + 1), prefix, wire), b)
<1>1. /\ h \in Seq(Symbols) /\ b \in Seq(Symbols) /\ n \in Nat /\ p \in Nat
      /\ BlockIs(h, type, length, n, p) /\ type # "crlf" /\ type \notin {"crlf", "field"}
      /\ Cut(Unread, h \o b)
  BY DEF Ahead
<1>2. buffer \in Seq(Symbols) /\ Len(buffer) \in Nat
  BY ReaderTyped
<1>3. /\ \A j \in 1 .. Len(buffer) : j <= Len(h) => buffer[j] = h[j]
      /\ prefix = <<>> /\ wire = <<>> /\ Len(buffer) < Len(h) => Truncated
      /\ Len(h) <= Len(buffer) => /\ Cut(Joined(Drop(Len(h)), prefix, wire), b)
                                  /\ SubSeq(buffer, 1, Len(h)) = h
  BY <1>1, Reading
<1>4. Len(h) = p + 2 * n + 3 /\ h[1] = Symbol(type, length)
  BY <1>1 DEF BlockIs
<1>5. HeaderEnd = IF Len(h) <= Len(buffer) THEN p + 2 * n + 2 ELSE 0
  BY <1>1, <1>2, <1>3, HeaderEndIs
<1>6. Ready <=> HeaderEnd > 0
  BY DEF Ready
<1>7. Ready <=> Len(h) <= Len(buffer)
  BY <1>1, <1>5, <1>6
<1>8. ASSUME Ready
      PROVE  /\ HeaderEnd = p + 2 * n + 2
             /\ StatusLine = Symbol(type, length)
             /\ HeaderLines = n
             /\ Cut(Joined(Drop(HeaderEnd + 1), prefix, wire), b)
  <2>1. HeaderEnd = p + 2 * n + 2 /\ Len(h) <= Len(buffer)
    BY <1>5, <1>7, <1>8
  <2>2. HeaderEnd + 1 = Len(h)
    BY <1>1, <1>4, <2>1
  <2>3. HeaderLines = n
    BY <1>1, <1>2, <1>3, <2>1, HeaderLinesAre
  <2>4. 1 \in 1 .. Len(buffer) /\ 1 <= Len(h)
    BY <1>1, <1>2, <1>4, <2>1
  <2>5. StatusLine = Symbol(type, length)
    BY <1>3, <1>4, <2>4 DEF StatusLine
  <2>6. Cut(Joined(Drop(HeaderEnd + 1), prefix, wire), b)
    BY <1>3, <2>1, <2>2
  <2> QED BY <2>1, <2>3, <2>5, <2>6
<1>9. ~Ready => Len(buffer) < Len(h)
  BY <1>1, <1>2, <1>4, <1>7
<1> QED BY <1>1, <1>2, <1>3, <1>4, <1>8, <1>9

\* The same of a line.
LEMMA LineReads ==
    ASSUME TypeOK, pc \in {"line", "trailer"},
           NEW a \in Seq(Symbols), NEW b \in Seq(Symbols), IsLine(a), Cut(Unread, a \o b)
    PROVE  /\ Len(buffer) \in Nat /\ Len(a) \in Nat
           /\ ~Ready => Len(buffer) < Len(a)
           /\ ~Ready /\ prefix = <<>> /\ wire = <<>> => Truncated
           /\ Ready => /\ LineEnd = Len(a) /\ buffer[1] = a[1]
                       /\ Cut(Joined(Drop(LineEnd), prefix, wire), b)
<1>1. buffer \in Seq(Symbols) /\ Len(buffer) \in Nat
  BY ReaderTyped
<1>2. /\ \A j \in 1 .. Len(buffer) : j <= Len(a) => buffer[j] = a[j]
      /\ prefix = <<>> /\ wire = <<>> /\ Len(buffer) < Len(a) => Truncated
      /\ Len(a) <= Len(buffer) => Cut(Joined(Drop(Len(a)), prefix, wire), b)
  BY Reading
<1>3. LineEnd = IF Len(a) <= Len(buffer) THEN Len(a) ELSE 0
  BY <1>1, <1>2, LineEndIs
<1>4. Len(a) \in Nat /\ Len(a) >= 1
  BY LenProperties DEF IsLine
<1>5. Ready <=> LineEnd > 0
  BY DEF Ready
<1>6. Ready <=> Len(a) <= Len(buffer)
  BY <1>3, <1>4, <1>5
<1>7. ~Ready => Len(buffer) < Len(a)
  BY <1>1, <1>4, <1>6
<1>8. ASSUME Ready
      PROVE  LineEnd = Len(a) /\ buffer[1] = a[1] /\ Cut(Joined(Drop(LineEnd), prefix, wire), b)
  <2>1. LineEnd = Len(a) /\ Len(a) <= Len(buffer)
    BY <1>3, <1>6, <1>8
  <2>2. 1 \in 1 .. Len(buffer) /\ 1 <= Len(a)
    BY <1>1, <1>4, <2>1
  <2> QED BY <1>2, <2>1, <2>2
<1> QED BY <1>1, <1>2, <1>4, <1>7, <1>8

\* The line of a chunk's size that the reader has begun, and what follows it, b.
LineAhead(i, size, b) ==
    /\ i \in 0 .. Count /\ size \in Nat /\ b \in Seq(Symbols)
    /\ HasRead(i) /\ (i > 0 => message.fault # "nocrlf") /\ trailers = 0
    /\ Cut(Unread, SizeLine(message, size) \o b)
    /\ \/ /\ i < Count /\ size > 0 /\ size = Len(message.chunks[i + 1])
          /\ b = Data(message.chunks[i + 1]) \o (CrlfOf(message) \o Chunks(message, i + 1))
       \/ /\ i = Count /\ size = 0
          /\ b = Ending(message, message.trailers)

\* Such a line is ahead while the reader reads the size of a chunk.
LEMMA SizeAhead ==
    ASSUME TypeOK, MInv, pc = "line"
    PROVE  \E i, size, b : LineAhead(i, size, b)
<1>1. Message(message)
  BY DEF TypeOK
<1>2. PICK i \in 0 .. Count :
        /\ HasRead(i) /\ (i > 0 => message.fault # "nocrlf") /\ trailers = 0
        /\ Cut(Unread, Chunks(message, i))
  BY DEF MInv, InPlace, AtLine
<1>3. Count \in Nat /\ message.trailers \in Nat
  BY <1>1, Pieces DEF Count
<1>4. CASE i < Count
  <2>1. i + 1 \in 1 .. Len(message.chunks) /\ (i + 1) - 1 = i
    BY <1>2, <1>3, <1>4 DEF Count
  <2>2. PICK j \in 1 .. Len(message.chunks) : j = i + 1
    BY <2>1
  <2>3. Chunks(message, j - 1) =
             SizeLine(message, Len(message.chunks[j]))
               \o (Data(message.chunks[j]) \o (CrlfOf(message) \o Chunks(message, j)))
    BY <1>1, ChunksStep
  <2>4. Cut(Unread, SizeLine(message, Len(message.chunks[i + 1]))
               \o (Data(message.chunks[i + 1]) \o (CrlfOf(message) \o Chunks(message, i + 1))))
    BY <1>2, <2>1, <2>2, <2>3
  <2>5. /\ Len(message.chunks[i + 1]) \in Nat /\ Len(message.chunks[i + 1]) > 0
        /\ Data(message.chunks[i + 1]) \in Seq(Symbols)
        /\ CrlfOf(message) \in Seq(Symbols) /\ Chunks(message, i + 1) \in Seq(Symbols)
    <3>1. i + 1 \in 0 .. Len(message.chunks)
      BY <2>1
    <3> QED BY <1>1, <2>1, <3>1, Pieces
  <2>6. CrlfOf(message) \o Chunks(message, i + 1) \in Seq(Symbols)
    BY <2>5, ConcatTyped
  <2>7. Data(message.chunks[i + 1]) \o (CrlfOf(message) \o Chunks(message, i + 1)) \in Seq(Symbols)
    BY <2>5, <2>6, ConcatTyped
  <2>8. LineAhead(i, Len(message.chunks[i + 1]),
                  Data(message.chunks[i + 1]) \o (CrlfOf(message) \o Chunks(message, i + 1)))
    BY <1>2, <1>4, <2>4, <2>5, <2>7 DEF LineAhead
  <2> QED BY <2>8
<1>5. CASE i = Count
  <2>1. Cut(Unread, SizeLine(message, 0) \o Ending(message, message.trailers))
    BY <1>1, <1>2, <1>5, ChunksEnd DEF Count
  <2>2. Ending(message, message.trailers) \in Seq(Symbols)
    BY <1>1, <1>3, Pieces
  <2>3. LineAhead(i, 0, Ending(message, message.trailers))
    BY <1>2, <1>5, <2>1, <2>2 DEF LineAhead
  <2> QED BY <2>3
<1> QED BY <1>2, <1>3, <1>4, <1>5

\* The line behind the last chunk that the reader has begun, and what follows it, b.
TrailerAhead(t, a, b) ==
    /\ t \in 0 .. message.trailers /\ a \in Seq(Symbols) /\ b \in Seq(Symbols)
    /\ HasRead(Count) /\ body = Content(message)
    /\ message.fault \notin {"nocrlf", "badsize"}
    /\ trailers + t = message.trailers
    /\ trailers > 0 => message.fault # "badtrailer"
    /\ IsLine(a) /\ Len(a) <= 2
    /\ Cut(Unread, a \o b)
    /\ \/ t = 0 /\ a = <<Crlf>> /\ b = <<>>
       \/ t > 0 /\ a = TrailerLine(message) /\ b = Ending(message, t - 1)

\* Such a line is ahead while the reader reads trailers.
LEMMA TrailersAhead ==
    ASSUME TypeOK, MInv, pc = "trailer"
    PROVE  \E t, a, b : TrailerAhead(t, a, b)
<1>1. Message(message)
  BY DEF TypeOK
<1>2. PICK t \in 0 .. message.trailers :
        /\ HasRead(Count) /\ body = Content(message)
        /\ message.fault \notin {"nocrlf", "badsize"}
        /\ trailers + t = message.trailers
        /\ trailers > 0 => message.fault # "badtrailer"
        /\ Cut(Unread, Ending(message, t))
  BY DEF MInv, InPlace, AtTrailer
<1>3. message.trailers \in Nat
  BY <1>1, MessageFields
<1>4. CASE t = 0
  <2>1. <<Crlf>> \in Seq(Symbols) /\ IsLine(<<Crlf>>) /\ Len(<<Crlf>>) <= 2
    BY EmptyLineIs
  <2>2. <<Crlf>> \o <<>> = <<Crlf>>
    BY <2>1, EmptyConcat
  <2>3. Ending(message, 0) = <<Crlf>>
    BY <1>1, EndingStep
  <2>4. Cut(Unread, <<Crlf>> \o <<>>)
    BY <1>2, <1>4, <2>2, <2>3
  <2>5. <<>> \in Seq(Symbols)
    BY EmptySeq
  <2>6. TrailerAhead(t, <<Crlf>>, <<>>)
    BY <1>2, <1>4, <2>1, <2>4, <2>5 DEF TrailerAhead
  <2> QED BY <2>6
<1>5. CASE t # 0
  <2>1. t > 0 /\ t - 1 \in Nat /\ (t - 1) + 1 = t
    BY <1>2, <1>3, <1>5
  <2>2. PICK k \in Nat : k = t - 1
    BY <2>1
  <2>3. Ending(message, k + 1) = TrailerLine(message) \o Ending(message, k)
    BY <1>1, EndingStep
  <2>4. Cut(Unread, TrailerLine(message) \o Ending(message, t - 1))
    BY <1>2, <2>1, <2>2, <2>3
  <2>5. Ending(message, t - 1) \in Seq(Symbols)
    BY <1>1, <2>1, Pieces
  <2>6. TrailerLine(message) \in Seq(Symbols) /\ IsLine(TrailerLine(message))
        /\ Len(TrailerLine(message)) = 2
    BY TrailerLineIs
  <2>8. 2 <= 2
    OBVIOUS
  <2>7. TrailerAhead(t, TrailerLine(message), Ending(message, t - 1))
    BY <1>2, <2>1, <2>4, <2>5, <2>6, <2>8 DEF TrailerAhead
  <2> QED BY <2>7
<1> QED BY <1>4, <1>5

\* read_exact reads a piece when it is complete.
LEMMA ExactReads ==
    ASSUME TypeOK, pc \in {"content", "chunk", "crlf"},
           NEW a \in Seq(Symbols), NEW b \in Seq(Symbols), need = Len(a), Cut(Unread, a \o b)
    PROVE  /\ need \in Nat
           /\ ~Ready /\ prefix = <<>> /\ wire = <<>> => Truncated
           /\ Ready => /\ Cut(Joined(Drop(need), prefix, wire), b)
                       /\ SubSeq(buffer, 1, need) = a
                       /\ need <= Len(buffer)
<1>1. Len(buffer) \in Nat
  BY ReaderTyped
<1>2. /\ prefix = <<>> /\ wire = <<>> /\ Len(buffer) < Len(a) => Truncated
      /\ Len(a) <= Len(buffer) => /\ Cut(Joined(Drop(Len(a)), prefix, wire), b)
                                  /\ SubSeq(buffer, 1, Len(a)) = a
  BY Reading
<1>3. Len(a) \in Nat
  BY LenProperties
<1>4. Ready <=> Len(a) <= Len(buffer)
  BY <1>1, <1>3 DEF Ready
<1> QED BY <1>1, <1>2, <1>3, <1>4

-----------------------------------------------------------------------------
(* The steps of the reader. *)

\* A block or line that looks too long is as long as its limit.
LEMMA TooLongStep ==
    ASSUME TypeOK, MInv, RejectTooLong
    PROVE  MInv'
<1>1. Waiting /\ TooLong /\ End("ProtocolError")
  BY DEF RejectTooLong, Reject
<1>2. /\ HeadSize = message.padding + 2 * message.fields + 1
      /\ message.padding \in Nat /\ message.fields \in Nat /\ message.extension \in Nat
      /\ HeadSize \in Nat /\ HeadSize >= 1
      /\ LineSize = message.extension + 1 /\ LineSize \in Nat
  BY HeadSizeIs
<1>3. MaxHeaderSize \in Nat /\ MaxLineSize \in Nat
  BY Limits
<1>4. Message(message)
  BY DEF TypeOK
<1>5. CASE pc = "head"
  <2>1. PICK h, b, type, length, n, p : Ahead(h, b, type, length, n, p)
    BY <1>5, HeadAhead
  <2>2. Len(h) = p + 2 * n + 3 /\ n \in Nat /\ p \in Nat /\ Len(buffer) \in Nat
        /\ Len(buffer) < Len(h)
    BY <1>1, <1>5, <2>1, HeadReads DEF Waiting
  <2>3. Len(buffer) > MaxHeaderSize
    BY <1>1, <1>5 DEF TooLong
  <2>4. (n = 0 /\ p = 0) \/ (n = message.fields /\ p = message.padding)
    BY <2>1 DEF Ahead
  <2>5. HeadSize >= MaxHeaderSize
    <3>1. Len(h) <= HeadSize + 2
      <4>1. CASE n = 0 /\ p = 0
        <5>1. Len(h) = 3
          BY <2>2, <4>1
        <5> QED BY <1>2, <5>1
      <4>2. CASE n = message.fields /\ p = message.padding
        <5>1. Len(h) = message.padding + 2 * message.fields + 3
          BY <2>2, <4>2
        <5> QED BY <1>2, <5>1
      <4> QED BY <2>4, <4>1, <4>2
    <3>2. Len(h) \in Int
      BY <2>2
    <3> QED BY <1>2, <1>3, <2>2, <2>3, <3>1, <3>2
  <2> QED BY <1>1, <2>5, RejectStep DEF Reason, NearLimit
<1>6. CASE pc = "line"
  <2>1. PICK i, size, b : LineAhead(i, size, b)
    BY <1>6, SizeAhead
  <2>2. /\ size \in Nat /\ b \in Seq(Symbols) /\ Cut(Unread, SizeLine(message, size) \o b)
        /\ message.framing = "chunked"
    BY <2>1 DEF LineAhead, HasRead
  <2>3. /\ SizeLine(message, size) \in Seq(Symbols) /\ IsLine(SizeLine(message, size))
        /\ Len(SizeLine(message, size)) = message.extension + 2
    BY <1>4, <2>2, SizeLineIs
  <2>4. pc \in {"line", "trailer"}
    BY <1>6
  <2>5. Len(buffer) \in Nat /\ Len(buffer) < Len(SizeLine(message, size))
    BY <1>1, <2>2, <2>3, <2>4, LineReads DEF Waiting
  <2>6. Len(buffer) > MaxLineSize
    BY <1>1, <1>6 DEF TooLong
  <2>7. LineSize >= MaxLineSize
    BY <1>2, <1>3, <2>3, <2>5, <2>6
  <2> QED BY <1>1, <2>2, <2>7, RejectStep DEF Reason, NearLimit
<1>7. CASE pc = "trailer"
  <2>1. PICK t, a, b : TrailerAhead(t, a, b)
    BY <1>7, TrailersAhead
  <2>2. /\ a \in Seq(Symbols) /\ b \in Seq(Symbols) /\ IsLine(a) /\ Cut(Unread, a \o b)
        /\ Len(a) <= 2 /\ message.framing = "chunked"
    BY <2>1 DEF TrailerAhead, HasRead
  <2>3. pc \in {"line", "trailer"}
    BY <1>7
  <2>4. Len(buffer) \in Nat /\ Len(a) \in Nat /\ Len(buffer) < Len(a)
    BY <1>1, <2>2, <2>3, LineReads DEF Waiting
  <2>5. Len(buffer) > MaxLineSize
    BY <1>1, <1>7 DEF TooLong
  <2>6. LineSize >= MaxLineSize
    BY <1>2, <1>3, <2>2, <2>4, <2>5
  <2> QED BY <1>1, <2>2, <2>6, RejectStep DEF Reason, NearLimit
<1> QED BY <1>1, <1>5, <1>6, <1>7 DEF TooLong

\* Where the server has stopped before the end of the response, the reader finds out.
LEMMA EofReason ==
    ASSUME TypeOK, IInv, MInv, Waiting, prefix = <<>>, wire = <<>>, pc # "close"
    PROVE  Reason
<1>1. Message(message) /\ ~Ready /\ pc # "done"
  BY DEF TypeOK, Waiting
<1>2. CASE pc = "head"
  <2>1. PICK h, b, type, length, n, p : Ahead(h, b, type, length, n, p)
    BY <1>2, HeadAhead
  <2>2. Truncated
    BY <1>1, <1>2, <2>1, HeadReads
  <2> QED BY <2>2 DEF Reason
<1>3. CASE pc = "line"
  <2>1. PICK i, size, b : LineAhead(i, size, b)
    BY <1>3, SizeAhead
  <2>2. size \in Nat /\ b \in Seq(Symbols) /\ Cut(Unread, SizeLine(message, size) \o b)
    BY <2>1 DEF LineAhead
  <2>3. SizeLine(message, size) \in Seq(Symbols) /\ IsLine(SizeLine(message, size))
    BY <1>1, <2>2, SizeLineIs
  <2>4. pc \in {"line", "trailer"}
    BY <1>3
  <2>5. Truncated
    BY <1>1, <2>2, <2>3, <2>4, LineReads
  <2> QED BY <2>5 DEF Reason
<1>4. CASE pc = "trailer"
  <2>1. PICK t, a, b : TrailerAhead(t, a, b)
    BY <1>4, TrailersAhead
  <2>2. a \in Seq(Symbols) /\ b \in Seq(Symbols) /\ IsLine(a) /\ Cut(Unread, a \o b)
    BY <2>1 DEF TrailerAhead
  <2>3. pc \in {"line", "trailer"}
    BY <1>4
  <2>4. Truncated
    BY <1>1, <2>2, <2>3, LineReads
  <2> QED BY <2>4 DEF Reason
<1>5. CASE pc = "content"
  <2>1. need = Len(Content(message)) /\ Cut(Unread, Content(message))
    BY <1>5 DEF MInv, InPlace, AtContent
  <2>2. Content(message) \in Seq(Symbols) /\ <<>> \in Seq(Symbols)
    BY MessageTyped, EmptySeq
  <2>3. Content(message) \o <<>> = Content(message)
    BY <2>2, EmptyConcat
  <2>4. Cut(Unread, Content(message) \o <<>>)
    BY <2>1, <2>3
  <2>5. pc \in {"content", "chunk", "crlf"}
    BY <1>5
  <2>6. Truncated
    BY <1>1, <2>1, <2>2, <2>4, <2>5, ExactReads
  <2> QED BY <2>6 DEF Reason
<1>6. CASE pc = "chunk"
  <2>1. PICK i \in 1 .. Count :
          /\ need = Len(message.chunks[i])
          /\ Cut(Unread, Data(message.chunks[i]) \o (CrlfOf(message) \o Chunks(message, i)))
    BY <1>6 DEF MInv, InPlace, AtChunk
  <2>2. /\ Data(message.chunks[i]) \in Seq(Symbols)
        /\ Len(Data(message.chunks[i])) = Len(message.chunks[i])
        /\ CrlfOf(message) \in Seq(Symbols) /\ Chunks(message, i) \in Seq(Symbols)
    <3>1. i \in 1 .. Len(message.chunks) /\ i \in 0 .. Len(message.chunks)
      BY <1>1, <2>1, Pieces DEF Count
    <3> QED BY <1>1, <3>1, Pieces
  <2>3. CrlfOf(message) \o Chunks(message, i) \in Seq(Symbols)
    BY <2>2, ConcatTyped
  <2>4. pc \in {"content", "chunk", "crlf"} /\ need = Len(Data(message.chunks[i]))
    BY <1>6, <2>1, <2>2
  <2>5. Truncated
    BY <1>1, <2>1, <2>2, <2>3, <2>4, ExactReads
  <2> QED BY <2>5 DEF Reason
<1>7. CASE pc = "crlf"
  <2>1. PICK i \in 1 .. Count : Cut(Unread, CrlfOf(message) \o Chunks(message, i))
    BY <1>7 DEF MInv, InPlace, AtCrlf
  <2>2. CASE message.fault = "nocrlf"
    BY <2>2 DEF Reason
  <2>3. CASE message.fault # "nocrlf"
    <3>1. CrlfOf(message) = <<Crlf>>
      BY <2>3 DEF CrlfOf
    <3>2. <<Crlf>> \in Seq(Symbols) /\ Len(<<Crlf>>) = 1
      BY EmptyLineIs
    <3>3. Chunks(message, i) \in Seq(Symbols)
      <4>1. i \in 0 .. Len(message.chunks)
        BY <1>1, <2>1, Pieces DEF Count
      <4> QED BY <1>1, <4>1, Pieces
    <3>4. need = Len(<<Crlf>>) /\ pc \in {"content", "chunk", "crlf"}
      BY <1>7, <3>2 DEF IInv, Accepted
    <3>5. Cut(Unread, <<Crlf>> \o Chunks(message, i))
      BY <2>1, <3>1
    <3>6. Truncated
      BY <1>1, <3>2, <3>3, <3>4, <3>5, ExactReads
    <3> QED BY <3>6 DEF Reason
  <2> QED BY <2>2, <2>3
<1> QED BY <1>1, <1>2, <1>3, <1>4, <1>5, <1>6, <1>7 DEF TypeOK

\* Everything in front of the body.
LEMMA EncodeLength ==
    ASSUME NEW m, Message(m)
    PROVE  /\ Len(Rest(m)) \in Nat /\ Len(Infos(m.infos)) \in Nat
           /\ Len(Encode(m)) = Len(Infos(m.infos)) + (m.padding + 2 * m.fields + 3) + Len(Rest(m))
<1>1. /\ m.infos \in Nat /\ m.fields \in Nat /\ m.padding \in Nat
  BY MessageFields
<1>2. PICK i \in Seq(Symbols) : i = Infos(m.infos)
  BY <1>1, HeadTyped
<1>3. PICK h \in Seq(Symbols) : h = ResponseHead(m)
  BY HeadTyped
<1>4. PICK r \in Seq(Symbols) : r = Rest(m)
  BY HeadTyped
<1>5. Len(h) = m.padding + 2 * m.fields + 3
  <2>1. HeadType(m) \in SymbolTypes
    BY HeadTypes DEF SymbolTypes
  <2>2. Len(Content(m)) \in Int
    BY Pieces, LenProperties
  <2>3. BlockIs(h, HeadType(m), Len(Content(m)), m.fields, m.padding)
    BY <1>1, <1>3, <2>1, <2>2, HeaderBlockIs DEF ResponseHead
  <2> QED BY <2>3 DEF BlockIs
<1>6. Encode(m) = i \o (h \o r)
  BY <1>1, <1>2, <1>3, <1>4, InfosStep
<1>7. h \o r \in Seq(Symbols) /\ Len(h \o r) = Len(h) + Len(r)
  BY ConcatTyped
<1>8. Len(i \o (h \o r)) = Len(i) + Len(h \o r)
  BY <1>7, ConcatTyped
<1>9. Len(i) \in Nat /\ Len(h) \in Nat /\ Len(r) \in Nat
  BY LenProperties
<1>10. Len(Encode(m)) = Len(i) + Len(h) + Len(r)
  BY <1>6, <1>7, <1>8, <1>9
<1> QED BY <1>2, <1>4, <1>5, <1>9, <1>10

\* Without framing the body is the end of the response.
LEMMA WithoutBody ==
    ASSUME NEW m, Message(m), m.framing = "close"
    PROVE  /\ Len(Content(m)) \in Nat
           /\ Len(Encode(m)) = Len(Encode([m EXCEPT !.chunks = <<>>])) + Len(Content(m))
<1>1. PICK e : e = [m EXCEPT !.chunks = <<>>]
  OBVIOUS
<1>2. /\ e.framing = "close" /\ e.infos = m.infos /\ e.fields = m.fields
      /\ e.padding = m.padding /\ e.chunks = <<>> /\ e.fault = m.fault
  BY <1>1 DEF Message
<1>3. Message(e)
  <2>1. <<>> \in Seq(Seq(Nat \ {0}) \ {<<>>})
    BY EmptySeq
  <2> QED BY <1>1, <2>1 DEF Message
<1>4. /\ Len(Rest(m)) \in Nat /\ Len(Infos(m.infos)) \in Nat
      /\ Len(Encode(m)) = Len(Infos(m.infos)) + (m.padding + 2 * m.fields + 3) + Len(Rest(m))
  BY EncodeLength
<1>5. /\ Len(Rest(e)) \in Nat
      /\ Len(Encode(e)) = Len(Infos(e.infos)) + (e.padding + 2 * e.fields + 3) + Len(Rest(e))
  BY <1>3, EncodeLength
<1>6. Rest(m) = Content(m) /\ Rest(e) = Content(e)
  BY <1>2 DEF Rest
<1>7. Content(e) = <<>>
  <2>1. Len(e.chunks) = 0
    BY <1>2, EmptySeq
  <2>2. Coming(e, 0) = Content(e) /\ Coming(e, Len(e.chunks)) = <<>>
    BY <1>3, ComingEnds
  <2> QED BY <2>1, <2>2
<1>8. Len(Rest(e)) = 0
  BY <1>6, <1>7, EmptySeq
<1>9. m.padding \in Nat /\ m.fields \in Nat
  BY MessageFields
<1>10. Len(Encode(e)) = Len(Infos(m.infos)) + (m.padding + 2 * m.fields + 3)
  BY <1>2, <1>4, <1>5, <1>8, <1>9
<1>11. Len(Encode(m)) = Len(Encode(e)) + Len(Content(m))
  BY <1>4, <1>6, <1>10
<1> QED BY <1>1, <1>4, <1>6, <1>11

\* The faults that are left when the header has been accepted are in chunks.
LEMMA NoFault ==
    ASSUME TypeOK, MInv, HeadFits, message.framing # "chunked"
    PROVE  message.fault = "none"
BY DEF TypeOK, Message, HeadFits, MInv, Server, Faults

\* When the server closes the connection, a body without framing is complete.
LEMMA CloseEnd ==
    ASSUME TypeOK, IInv, MInv, pc = "close", prefix = <<>>, wire = <<>>,
           UNCHANGED <<streamVars, buffer, resultVars>>
    PROVE  RightEnd
<1>1. Message(message)
  BY DEF TypeOK
<1>2. message.framing = "close" /\ HeadFits /\ trailers = 0 /\ Cut(Unread, Content(message))
  BY DEF MInv, InPlace, AtClose
<1>3. message.fault = "none"
  BY <1>2, NoFault
<1>4. body' = body /\ trailers' = 0
  BY <1>2 DEF resultVars
<1>5. body \in Seq(Symbols) /\ Len(body) \in Nat
  BY ReaderTyped
<1>6. Unread = body
  <2>1. Unread = Joined(body, <<>>, <<>>)
    BY DEF Unread, Beginning
  <2>2. <<>> \in Seq(Symbols)
    BY EmptySeq
  <2>3. Joined(body, <<>>, <<>>) = body \o <<>>
    BY <1>5, <2>2, JoinedEmpty
  <2> QED BY <1>5, <2>1, <2>3, EmptyConcat
<1>7. /\ Starts(body, Content(message) \o Extra(message))
      /\ Len(sent) - Len(body) = Len(Encode(message)) - Len(Content(message))
  BY <1>2, <1>6 DEF Cut
<1>8. /\ Len(Content(message)) \in Nat
      /\ Len(Encode(message)) = Len(Encode([message EXCEPT !.chunks = <<>>])) + Len(Content(message))
  BY <1>1, <1>2, WithoutBody
<1>9. Len(sent) \in Nat /\ Len(Encode(message)) \in Nat
  BY MessageTyped
<1>10. Message([message EXCEPT !.chunks = <<>>])
  <2>1. <<>> \in Seq(Seq(Nat \ {0}) \ {<<>>})
    BY EmptySeq
  <2> QED BY <1>1, <1>2, <2>1 DEF Message
<1>11. Len(Encode([message EXCEPT !.chunks = <<>>])) \in Int
  <2>1. PICK e : e = [message EXCEPT !.chunks = <<>>] /\ Message(e)
    BY <1>10
  <2>2. /\ Len(Rest(e)) \in Nat /\ Len(Infos(e.infos)) \in Nat
        /\ Len(Encode(e)) = Len(Infos(e.infos)) + (e.padding + 2 * e.fields + 3) + Len(Rest(e))
    BY <2>1, EncodeLength
  <2>3. e.padding \in Nat /\ e.fields \in Nat
    BY <2>1, MessageFields
  <2>4. Len(Encode(e)) \in Int
    BY <2>2, <2>3
  <2> QED BY <2>1, <2>4
<1>12. Len(sent) = Len(Encode([message EXCEPT !.chunks = <<>>])) + Len(body)
  BY <1>5, <1>7, <1>8, <1>9, <1>11
<1>13. IsPrefix(body, Content(message) \o Extra(message))
  <2>1. PICK s \in Seq(Symbols) : s = Content(message) \o Extra(message)
    BY MessageTyped, ConcatTyped
  <2>2. Starts(body, s)
    BY <1>7, <2>1
  <2>3. Len(s) \in Nat
    BY LenProperties
  <2>4. PICK n \in 0 .. Len(s) : n = Len(body)
    BY <1>5, <2>2, <2>3 DEF Starts
  <2>5. /\ SubSeq(s, 1, n) \in Seq(Symbols) /\ Len(SubSeq(s, 1, n)) = n
        /\ \A i \in 1 .. n : SubSeq(s, 1, n)[i] = s[i]
    BY FirstElements
  <2>6. SubSeq(s, 1, Len(body)) = body
    BY <1>5, <2>2, <2>4, <2>5, SeqEqual DEF Starts
  <2>7. Len(body) <= Len(s)
    BY <2>2 DEF Starts
  <2>8. IsPrefix(body, s)
    BY <2>6, <2>7 DEF IsPrefix
  <2> QED BY <2>1, <2>8
<1>14. Len(body) <= MaxBodySize
  BY DEF IInv, Bounded
<1> QED BY <1>2, <1>3, <1>4, <1>12, <1>13, <1>14 DEF RightEnd

\* The steps of the reader that wait for the server.
LEMMA EofStep ==
    ASSUME TypeOK, IInv, MInv, Eof
    PROVE  MInv'
<1>1. /\ Waiting /\ prefix = <<>> /\ wire = <<>>
      /\ End(IF pc = "close" THEN "response" ELSE "ProtocolError")
      /\ UNCHANGED <<streamVars, buffer, resultVars>>
  BY DEF Eof
<1>2. CASE pc = "close"
  <2>1. RightEnd
    BY <1>1, <1>2, CloseEnd
  <2> QED BY <1>1, <1>2, <2>1, ResponseStep
<1>3. CASE pc # "close"
  <2>1. Reason
    BY <1>1, <1>3, EofReason
  <2> QED BY <1>1, <1>3, <2>1, RejectStep
<1> QED BY <1>2, <1>3

LEMMA RecvFailsStep ==
    ASSUME MInv, RecvFails
    PROVE  MInv'
BY FailStep DEF RecvFails

\* More than the limit is received only if more was sent.
LEMMA TooMuchReceived ==
    ASSUME TypeOK, MInv, Recv, pc = "close", Len(body') > MaxBodySize
    PROVE  Reason
<1>1. message.framing = "close" /\ Cut(Unread, Content(message))
  BY DEF MInv, InPlace, AtClose
<1>2. Joined(body', prefix', wire') = Unread
  BY RecvKeepsUnread
<1>3. TypeOK'
  BY RecvTypeOK
<1>4. body' \in Seq(Symbols) /\ prefix' \in Seq(Symbols) /\ wire' \in Seq(Symbols)
  BY <1>3 DEF TypeOK
<1>5. Len(body') <= Len(Unread) /\ Len(body') \in Nat /\ Len(Unread) \in Nat
  <2>1. PICK u \in Seq(Symbols), p \in Seq(Symbols), w \in Seq(Symbols) :
          u = body' /\ p = prefix' /\ w = wire'
    BY <1>4
  <2>2. 0 \in 0 .. Len(u)
    BY LenProperties
  <2>3. /\ Len(Joined(u, p, w)) = Len(u) + Len(p) + Len(w)
        /\ Len(u) \in Nat /\ Len(p) \in Nat /\ Len(w) \in Nat
    BY <2>2, AfterThree
  <2>4. Len(u) <= Len(Joined(u, p, w)) /\ Len(Joined(u, p, w)) \in Nat
    BY <2>3
  <2> QED BY <1>2, <2>1, <2>3, <2>4
<1>6. Len(Unread) <= Len(Content(message) \o Extra(message))
  BY <1>1 DEF Cut, Starts
<1>7. Len(Content(message) \o Extra(message)) \in Nat
  BY MessageTyped, ConcatTyped
<1>8. MaxBodySize \in Nat
  BY Limits
<1>9. Len(Content(message) \o Extra(message)) > MaxBodySize
  BY <1>5, <1>6, <1>7, <1>8
<1> QED BY <1>1, <1>9 DEF Reason

LEMMA RecvStep ==
    ASSUME TypeOK, MInv, Recv
    PROVE  MInv'
<1>1. /\ pc' = pc => Unread' = Unread
      /\ pc # "close" => body' = body
      /\ message' = message /\ sent' = sent /\ need' = need /\ trailers' = trailers
  BY RecvKeepsUnread
<1>2. pc # "done"
  BY DEF Recv, Waiting
<1>3. CASE pc = "close" /\ Len(body') > MaxBodySize
  <2>1. Reason
    BY <1>3, TooMuchReceived
  <2>2. End("ProtocolError")
    BY <1>3 DEF Recv
  <2> QED BY <2>1, <2>2, RejectStep
<1>4. CASE ~(pc = "close" /\ Len(body') > MaxBodySize)
  <2>1. Continue(pc)
    BY <1>4 DEF Recv
  <2>2. pc' = pc
    BY <2>1 DEF Continue
  <2>3. Unread' = Unread /\ InPlace
    BY <1>1, <2>2 DEF MInv
  <2>4. ASSUME pc = "head" PROVE AtHead'
    BY <1>1, <2>3, <2>4 DEF InPlace, AtHead, Cut
  <2>5. ASSUME pc = "content" PROVE AtContent'
    BY <1>1, <2>3, <2>5 DEF InPlace, AtContent, Cut, HeadFits, HeadSize
  <2>6. ASSUME pc = "close" PROVE AtClose'
    BY <1>1, <2>3, <2>6 DEF InPlace, AtClose, Cut, HeadFits, HeadSize
  <2>7. ASSUME pc = "line" PROVE AtLine'
    BY <1>1, <2>3, <2>7 DEF InPlace, AtLine, Cut, HasRead, HeadFits, HeadSize, Count
  <2>8. ASSUME pc = "chunk" PROVE AtChunk'
    BY <1>1, <2>3, <2>8 DEF InPlace, AtChunk, Cut, HasRead, HeadFits, HeadSize, Count
  <2>9. ASSUME pc = "crlf" PROVE AtCrlf'
    BY <1>1, <2>3, <2>9 DEF InPlace, AtCrlf, Cut, HasRead, HeadFits, HeadSize, Count
  <2>10. ASSUME pc = "trailer" PROVE AtTrailer'
    BY <1>1, <2>3, <2>10 DEF InPlace, AtTrailer, Cut, HasRead, HeadFits, HeadSize, Count
  <2>11. InPlace'
    BY <2>2, <2>4, <2>5, <2>6, <2>7, <2>8, <2>9, <2>10 DEF InPlace
  <2> QED BY <1>2, <2>1, <2>11, PlaceStep
<1> QED BY <1>3, <1>4

\* What the status line says of the message.
LEMMA HeadTypeIs ==
    ASSUME TypeOK
    PROVE  /\ HeadType(message) = "badhead" => message.fault = "badhead"
           /\ HeadType(message) = "badlength" => message.fault = "badlength"
           /\ HeadType(message) \notin {"badhead", "badlength"} =>
                 /\ message.fault \notin {"badhead", "badlength"}
                 /\ message.framing = HeadType(message)
           /\ HeadType(message) # "info"
           /\ HeadType(message) \in {"badhead", "badlength", "chunked", "length", "close", "bodyless"}
<1>1. Message(message)
  BY DEF TypeOK
<1>2. message.framing \in {"chunked", "length", "close", "bodyless"}
  BY <1>1, MessageFields
<1> QED BY <1>2 DEF HeadType

\* The steps that read a header block.
LEMMA RejectHeadStep ==
    ASSUME TypeOK, MInv, RejectHead
    PROVE  MInv'
<1>1. pc = "head" /\ Ready /\ ~HeadAcceptable /\ End("ProtocolError")
  BY DEF RejectHead, Reject
<1>2. PICK h, b, type, length, n, p : Ahead(h, b, type, length, n, p)
  BY <1>1, HeadAhead
<1>3. /\ n \in Nat /\ p \in Nat
      /\ HeaderEnd = p + 2 * n + 2 /\ StatusLine = Symbol(type, length) /\ HeaderLines = n
  BY <1>1, <1>2, HeadReads
<1>4. StatusLine.type = type
  BY <1>3, SymbolsDiffer
<1>5. /\ HeadSize = message.padding + 2 * message.fields + 1
      /\ message.padding \in Nat /\ message.fields \in Nat
      /\ HeadSize \in Nat /\ HeadSize >= 1
  BY HeadSizeIs
<1>6. MaxHeaderSize \in Nat /\ MaxHeaderLines \in Nat
  BY ReaderAssumption
<1>7. HeaderEnd - 1 = p + 2 * n + 1
  BY <1>3
<1>8. CASE type = "info" /\ n = 0 /\ p = 0
  <2>1. HeaderEnd - 1 = 1 /\ 0 <= MaxHeaderLines
    BY <1>6, <1>7, <1>8
  <2>2. ~(1 <= MaxHeaderSize)
    BY <1>1, <1>3, <1>4, <1>8, <2>1 DEF HeadAcceptable
  <2>3. ~(HeadSize <= MaxHeaderSize)
    BY <1>5, <1>6, <2>2
  <2> QED BY <1>1, <2>3, RejectStep DEF Reason, WithinLimits
<1>9. CASE type = HeadType(message) /\ n = message.fields /\ p = message.padding
  <2>1. HeaderEnd - 1 = HeadSize
    BY <1>5, <1>7, <1>9
  <2>2. ~(HeadSize <= MaxHeaderSize) \/ HeadType(message) = "badhead" \/ ~(message.fields <= MaxHeaderLines)
    BY <1>1, <1>3, <1>4, <1>9, <2>1 DEF HeadAcceptable
  <2>3. HeadType(message) = "badhead" => message.fault # "none"
    BY HeadTypeIs
  <2>4. Reason
    BY <2>2, <2>3 DEF Reason, WithinLimits
  <2> QED BY <1>1, <2>4, RejectStep
<1> QED BY <1>2, <1>8, <1>9 DEF Ahead

LEMMA SkipInformationalStep ==
    ASSUME TypeOK, MInv, SkipInformational
    PROVE  MInv'
<1>1. /\ pc = "head" /\ Ready /\ StatusLine.type = "info"
      /\ prefix' = Drop(HeaderEnd + 1) \o prefix /\ buffer' = <<>>
      /\ wire' = wire /\ body' = body /\ trailers' = trailers /\ Continue("head")
  BY DEF SkipInformational, resultVars
<1>2. PICK h, b, type, length, n, p : Ahead(h, b, type, length, n, p)
  BY <1>1, HeadAhead
<1>3. /\ StatusLine = Symbol(type, length)
      /\ Cut(Joined(Drop(HeaderEnd + 1), prefix, wire), b)
  BY <1>1, <1>2, HeadReads
<1>4. type = "info"
  BY <1>1, <1>3, SymbolsDiffer
<1>5. PICK k \in 0 .. message.infos : b = Infos(k) \o (ResponseHead(message) \o Rest(message))
  BY <1>2, <1>4, HeadTypeIs DEF Ahead
<1>6. pc' = "head" /\ message' = message /\ sent' = sent
  BY <1>1 DEF Continue, serverVars
<1>7. Unread' = Joined(Drop(HeaderEnd + 1), prefix, wire)
  <2>1. HeaderEnd + 1 \in Nat
    BY PlacesTyped
  <2>2. Drop(HeaderEnd + 1) \in Seq(Symbols)
    BY <2>1, DropTyped
  <2>3. PICK u \in Seq(Symbols), q \in Seq(Symbols), w \in Seq(Symbols) :
          u = Drop(HeaderEnd + 1) /\ q = prefix /\ w = wire
    BY <2>2, ReaderTyped
  <2>4. Joined(<<>>, u \o q, w) = Joined(u, q, w)
    BY JoinedPutsBack
  <2>5. Unread' = Joined(<<>>, u \o q, w)
    BY <1>1, <1>6, <2>3 DEF Unread, Beginning
  <2> QED BY <2>3, <2>4, <2>5
<1>9. AtHead'
  <2>1. body = <<>> /\ trailers = 0
    BY <1>1 DEF MInv, InPlace, AtHead
  <2> QED BY <1>1, <1>3, <1>5, <1>6, <1>7, <2>1 DEF AtHead, Cut
<1>10. InPlace'
  BY <1>6, <1>9 DEF InPlace
<1> QED BY <1>1, <1>10, PlaceStep

\* What is behind the header block of the response.
Start == Drop(HeaderEnd + 1)

\* A header block that is not informational is the one of the response.
LEMMA ResponseBegins ==
    ASSUME TypeOK, MInv, pc = "head", Ready, HeadAcceptable, StatusLine.type # "info"
    PROVE  /\ StatusLine.type = HeadType(message) /\ StatusLine.value = Len(Content(message))
           /\ Cut(Joined(Start, prefix, wire), Rest(message))
           /\ body = <<>> /\ trailers = 0
           /\ HeadType(message) # "badhead"
           /\ HeadType(message) # "badlength" => HeadFits
           /\ Start \in Seq(Symbols) /\ Len(Start) \in Nat
<1>1. PICK h, b, type, length, n, p : Ahead(h, b, type, length, n, p)
  BY HeadAhead
<1>2. /\ n \in Nat /\ p \in Nat
      /\ HeaderEnd = p + 2 * n + 2 /\ StatusLine = Symbol(type, length) /\ HeaderLines = n
      /\ Cut(Joined(Drop(HeaderEnd + 1), prefix, wire), b)
  BY <1>1, HeadReads
<1>3. StatusLine.type = type /\ StatusLine.value = length
  BY <1>2, SymbolsDiffer
<1>4. /\ type = HeadType(message) /\ length = Len(Content(message))
      /\ n = message.fields /\ p = message.padding /\ b = Rest(message)
  BY <1>1, <1>3 DEF Ahead
<1>5. /\ HeadSize = message.padding + 2 * message.fields + 1
      /\ message.padding \in Nat /\ message.fields \in Nat
  BY HeadSizeIs
<1>6. HeaderEnd - 1 = HeadSize
  <2>1. HeaderEnd - 1 = p + 2 * n + 1
    BY <1>2
  <2> QED BY <1>4, <1>5, <2>1
<1>7. HeadSize <= MaxHeaderSize /\ message.fields <= MaxHeaderLines /\ HeadType(message) # "badhead"
  BY <1>2, <1>3, <1>4, <1>6 DEF HeadAcceptable
<1>8. HeadType(message) # "badlength" => HeadFits
  BY <1>7, HeadTypeIs DEF HeadFits
<1>9. HeaderEnd + 1 \in Nat
  BY PlacesTyped
<1>10. Start \in Seq(Symbols) /\ Len(Start) \in Nat
  BY <1>9, DropTyped, LenProperties DEF Start
<1>11. body = <<>> /\ trailers = 0
  BY DEF MInv, InPlace, AtHead
<1> QED BY <1>2, <1>3, <1>4, <1>7, <1>8, <1>10, <1>11 DEF Start

\* q is what is left behind a response that is complete.
LEMMA CompleteIs ==
    ASSUME TypeOK, MInv, NEW q \in Seq(Symbols), Cut(q, <<>>)
    PROVE  ~Truncated /\ q = After(sent, Len(Encode(message)))
BY NothingLeft DEF MInv, Server

\* The lengths of what has not been used.
LEMMA JoinedTyped ==
    ASSUME TypeOK, NEW u \in Seq(Symbols)
    PROVE  /\ Joined(u, prefix, wire) \in Seq(Symbols)
           /\ Len(u) <= Len(Joined(u, prefix, wire)) /\ Len(Joined(u, prefix, wire)) \in Nat
<1>1. PICK p \in Seq(Symbols), w \in Seq(Symbols) : p = prefix /\ w = wire
  BY ReaderTyped
<1>2. 0 \in 0 .. Len(u)
  BY LenProperties
<1>3. /\ Joined(u, p, w) \in Seq(Symbols)
      /\ Len(Joined(u, p, w)) = Len(u) + Len(p) + Len(w)
      /\ Len(u) \in Nat /\ Len(p) \in Nat /\ Len(w) \in Nat
  BY <1>2, AfterThree
<1>4. Len(u) <= Len(Joined(u, p, w)) /\ Len(Joined(u, p, w)) \in Nat
  BY <1>3
<1> QED BY <1>1, <1>3, <1>4

\* The choice of the framing.
LEMMA SelectFramingStep ==
    ASSUME TypeOK, MInv, SelectFraming
    PROVE  MInv'
<1>1. /\ pc = "head" /\ Ready /\ HeadAcceptable /\ StatusLine.type # "info"
      /\ prefix' = prefix /\ wire' = wire
  BY DEF SelectFraming, streamVars
<1>2. /\ StatusLine.type = HeadType(message) /\ StatusLine.value = Len(Content(message))
      /\ Cut(Joined(Start, prefix, wire), Rest(message))
      /\ body = <<>> /\ trailers = 0
      /\ HeadType(message) # "badhead"
      /\ HeadType(message) # "badlength" => HeadFits
      /\ Start \in Seq(Symbols) /\ Len(Start) \in Nat
  BY <1>1, ResponseBegins
<1>3. HeadType(message) \in {"badlength", "chunked", "length", "close", "bodyless"}
  BY <1>2, HeadTypeIs
<1>4. MaxBodySize \in Nat /\ Len(Content(message)) \in Nat
  BY Limits, MessageTyped
<1>5. CASE HeadType(message) = "badlength"
  <2>1. End("ProtocolError")
    BY <1>2, <1>5 DEF SelectFraming
  <2>2. message.fault # "none"
    BY <1>5, HeadTypeIs
  <2> QED BY <2>1, <2>2, RejectStep DEF Reason
<1>6. CASE HeadType(message) = "bodyless"
  <2>1. End("response") /\ buffer' = Start /\ body' = body /\ trailers' = trailers
    BY <1>2, <1>6 DEF SelectFraming, Start, resultVars
  <2>2. message.framing = "bodyless" /\ HeadFits
    BY <1>2, <1>6, HeadTypeIs
  <2>3. message.fault = "none"
    BY <2>2, NoFault
  <2>4. Rest(message) = <<>>
    BY <2>2 DEF Rest
  <2>5. Joined(Start, prefix, wire) \in Seq(Symbols)
    BY <1>2, JoinedTyped
  <2>6. ~Truncated /\ Joined(Start, prefix, wire) = After(sent, Len(Encode(message)))
    BY <1>2, <2>4, <2>5, CompleteIs
  <2>7. WithinLimits
    BY <2>2 DEF WithinLimits, HeadFits
  <2>8. RightEnd
    BY <1>1, <1>2, <2>1, <2>2, <2>3, <2>6, <2>7 DEF RightEnd
  <2> QED BY <2>1, <2>8, ResponseStep
<1>7. CASE HeadType(message) = "chunked"
  <2>1. Continue("line") /\ buffer' = Start /\ body' = body /\ trailers' = trailers
    BY <1>2, <1>7 DEF SelectFraming, Start, resultVars
  <2>2. message.framing = "chunked" /\ HeadFits
    BY <1>2, <1>7, HeadTypeIs
  <2>3. Rest(message) = Chunks(message, 0)
    BY <2>2 DEF Rest
  <2>4. message' = message /\ sent' = sent /\ pc' = "line"
    BY <2>1 DEF Continue, serverVars
  <2>5. Unread' = Joined(Start, prefix, wire)
    BY <1>1, <2>1, <2>4 DEF Unread, Beginning
  <2>6. Message(message)
    BY DEF TypeOK
  <2>7. body \o Coming(message, 0) = Content(message)
    BY <1>2, <2>6, ComingEnds, MessageTyped, EmptyConcat
  <2>8. HasRead(0)
    BY <2>2, <2>7 DEF HasRead
  <2>9. HasRead(0)'
    BY <2>1, <2>4, <2>8 DEF HasRead, HeadFits, HeadSize
  <2>10. 0 \in 0 .. Count'
    <3>1. Count \in Nat
      BY <2>6, Pieces DEF Count
    <3> QED BY <2>4, <3>1 DEF Count
  <2>11. Cut(Unread, Chunks(message, 0))'
    BY <1>2, <2>3, <2>4, <2>5 DEF Cut
  <2>12. AtLine'
    BY <1>2, <2>1, <2>9, <2>10, <2>11 DEF AtLine
  <2>13. InPlace'
    BY <2>4, <2>12 DEF InPlace
  <2> QED BY <1>1, <2>1, <2>13, PlaceStep
<1>8. CASE HeadType(message) = "length"
  <2>1. message.framing = "length" /\ HeadFits
    BY <1>2, <1>8, HeadTypeIs
  <2>2. CASE Len(Content(message)) <= MaxBodySize
    <3>1. /\ Continue("content") /\ buffer' = Start /\ body' = body /\ trailers' = trailers
          /\ need' = Len(Content(message))
      BY <1>2, <1>8, <2>2 DEF SelectFraming, Start
    <3>2. Rest(message) = Content(message)
      BY <2>1 DEF Rest
    <3>3. message' = message /\ sent' = sent /\ pc' = "content"
      BY <3>1 DEF Continue, serverVars
    <3>4. Unread' = Joined(Start, prefix, wire)
      BY <1>1, <3>1, <3>3 DEF Unread, Beginning
    <3>5. AtContent'
      BY <1>2, <2>1, <3>1, <3>2, <3>3, <3>4 DEF AtContent, Cut, HeadFits, HeadSize
    <3>6. InPlace'
      BY <3>3, <3>5 DEF InPlace
    <3> QED BY <1>1, <3>1, <3>6, PlaceStep
  <2>3. CASE ~(Len(Content(message)) <= MaxBodySize)
    <3>1. End("ProtocolError")
      BY <1>2, <1>8, <2>3 DEF SelectFraming
    <3>2. ~WithinLimits
      BY <2>1, <2>3 DEF WithinLimits
    <3> QED BY <3>1, <3>2, RejectStep DEF Reason
  <2> QED BY <2>2, <2>3
<1>9. CASE HeadType(message) = "close"
  <2>1. message.framing = "close" /\ HeadFits
    BY <1>2, <1>9, HeadTypeIs
  <2>2. Rest(message) = Content(message)
    BY <2>1 DEF Rest
  <2>3. CASE Len(Start) <= MaxBodySize
    <3>1. Continue("close") /\ body' = Start /\ trailers' = trailers
      BY <1>2, <1>9, <2>3 DEF SelectFraming, Start
    <3>2. message' = message /\ sent' = sent /\ pc' = "close"
      BY <3>1 DEF Continue, serverVars
    <3>3. Unread' = Joined(Start, prefix, wire)
      BY <1>1, <3>1, <3>2 DEF Unread, Beginning
    <3>4. AtClose'
      BY <1>2, <2>1, <2>2, <3>1, <3>2, <3>3 DEF AtClose, Cut, HeadFits, HeadSize
    <3>5. InPlace'
      BY <3>2, <3>4 DEF InPlace
    <3> QED BY <1>1, <3>1, <3>5, PlaceStep
  <2>4. CASE ~(Len(Start) <= MaxBodySize)
    <3>1. End("ProtocolError")
      BY <1>2, <1>9, <2>4 DEF SelectFraming, Start
    <3>2. /\ Len(Start) <= Len(Joined(Start, prefix, wire))
          /\ Len(Joined(Start, prefix, wire)) \in Nat
      BY <1>2, JoinedTyped
    <3>3. Len(Joined(Start, prefix, wire)) <= Len(Content(message) \o Extra(message))
      BY <1>2, <2>2 DEF Cut, Starts
    <3>4. Len(Content(message) \o Extra(message)) \in Nat
      BY MessageTyped, ConcatTyped
    <3>5. Len(Content(message) \o Extra(message)) > MaxBodySize
      BY <1>2, <1>4, <2>4, <3>2, <3>3, <3>4
    <3> QED BY <2>1, <3>1, <3>5, RejectStep DEF Reason
  <2> QED BY <2>3, <2>4
<1> QED BY <1>3, <1>5, <1>6, <1>7, <1>8, <1>9

\* The steps that read a body.
LEMMA ReadContentStep ==
    ASSUME TypeOK, IInv, MInv, ReadContent
    PROVE  MInv'
<1>1. /\ pc = "content" /\ Ready /\ End("response")
      /\ body' = body \o SubSeq(buffer, 1, CutAt(need)) /\ buffer' = Drop(CutAt(need))
      /\ prefix' = prefix /\ wire' = wire /\ trailers' = trailers
  BY DEF ReadContent, ReadExact, streamVars
<1>2. /\ message.framing = "length" /\ HeadFits
      /\ need = Len(Content(message)) /\ body = <<>> /\ trailers = 0
      /\ Cut(Unread, Content(message))
  BY <1>1 DEF MInv, InPlace, AtContent
<1>3. message.fault = "none"
  BY <1>2, NoFault
<1>4. Content(message) \in Seq(Symbols) /\ <<>> \in Seq(Symbols)
  BY MessageTyped, EmptySeq
<1>5. Content(message) \o <<>> = Content(message) /\ <<>> \o Content(message) = Content(message)
  BY <1>4, EmptyConcat
<1>6. Cut(Unread, Content(message) \o <<>>)
  BY <1>2, <1>5
<1>7. pc \in {"content", "chunk", "crlf"}
  BY <1>1
<1>8. /\ need \in Nat
      /\ Cut(Joined(Drop(need), prefix, wire), <<>>)
      /\ SubSeq(buffer, 1, need) = Content(message)
  BY <1>1, <1>2, <1>4, <1>6, <1>7, ExactReads
<1>9. CutAt(need) = need
  BY <1>8 DEF CutAt
<1>10. body' = Content(message)
  BY <1>1, <1>2, <1>5, <1>8, <1>9
<1>11. Drop(need) \in Seq(Symbols)
  BY <1>8, DropTyped
<1>12. Joined(Drop(need), prefix, wire) \in Seq(Symbols)
  BY <1>11, JoinedTyped
<1>13. ~Truncated /\ Joined(Drop(need), prefix, wire) = After(sent, Len(Encode(message)))
  BY <1>8, <1>12, CompleteIs
<1>14. Joined(buffer', prefix', wire') = After(sent, Len(Encode(message)))
  BY <1>1, <1>9, <1>13
<1>15. need <= MaxBodySize
  BY <1>1 DEF IInv, Accepted
<1>16. WithinLimits
  BY <1>2, <1>15 DEF WithinLimits, HeadFits
<1>17. RightEnd
  BY <1>1, <1>2, <1>3, <1>10, <1>13, <1>14, <1>16 DEF RightEnd
<1> QED BY <1>1, <1>17, ResponseStep

LEMMA ReadChunkStep ==
    ASSUME TypeOK, MInv, ReadChunk
    PROVE  MInv'
<1>1. /\ pc = "chunk" /\ Ready /\ Continue("crlf")
      /\ body' = body \o SubSeq(buffer, 1, CutAt(need)) /\ buffer' = Drop(CutAt(need))
      /\ prefix' = prefix /\ wire' = wire /\ trailers' = trailers
  BY DEF ReadChunk, ReadExact, streamVars
<1>2. Message(message)
  BY DEF TypeOK
<1>3. PICK i \in 1 .. Count :
        /\ HasRead(i - 1) /\ (i > 1 => message.fault # "nocrlf") /\ trailers = 0
        /\ message.fault # "badsize"
        /\ need = Len(message.chunks[i]) /\ need <= MaxChunkSize
        /\ Cut(Unread, Data(message.chunks[i]) \o (CrlfOf(message) \o Chunks(message, i)))
  BY <1>1 DEF MInv, InPlace, AtChunk
<1>4. i \in 1 .. Len(message.chunks) /\ i \in 0 .. Len(message.chunks) /\ Len(message.chunks) \in Nat
  <2>1. Len(message.chunks) \in Nat
    BY <1>2, Pieces
  <2> QED BY <1>3, <2>1 DEF Count
<1>5. /\ Data(message.chunks[i]) \in Seq(Symbols)
      /\ Len(Data(message.chunks[i])) = Len(message.chunks[i])
      /\ CrlfOf(message) \in Seq(Symbols) /\ Chunks(message, i) \in Seq(Symbols)
  BY <1>2, <1>4, Pieces
<1>6. CrlfOf(message) \o Chunks(message, i) \in Seq(Symbols)
  BY <1>5, ConcatTyped
<1>7. pc \in {"content", "chunk", "crlf"} /\ need = Len(Data(message.chunks[i]))
  BY <1>1, <1>3, <1>5
<1>8. /\ need \in Nat
      /\ Cut(Joined(Drop(need), prefix, wire), CrlfOf(message) \o Chunks(message, i))
      /\ SubSeq(buffer, 1, need) = Data(message.chunks[i])
  BY <1>1, <1>3, <1>5, <1>6, <1>7, ExactReads
<1>9. CutAt(need) = need
  BY <1>8 DEF CutAt
<1>10. message' = message /\ sent' = sent /\ pc' = "crlf"
  BY <1>1 DEF Continue, serverVars
<1>11. Unread' = Joined(Drop(need), prefix, wire)
  BY <1>1, <1>9, <1>10 DEF Unread, Beginning
<1>12. body' = body \o Data(message.chunks[i])
  BY <1>1, <1>8, <1>9
<1>13. body' \o Coming(message, i) = Content(message)
  <2>1. Coming(message, i - 1) = Data(message.chunks[i]) \o Coming(message, i)
        /\ Coming(message, i) \in Seq(Symbols)
    BY <1>2, <1>4, ComingStep
  <2>2. body \o Coming(message, i - 1) = Content(message)
    BY <1>3 DEF HasRead
  <2>3. PICK b \in Seq(Symbols), d \in Seq(Symbols), c \in Seq(Symbols) :
          b = body /\ d = Data(message.chunks[i]) /\ c = Coming(message, i)
    BY <1>5, <2>1, ReaderTyped
  <2>4. (b \o d) \o c = b \o (d \o c)
    BY Assoc3, SMTT(30)
  <2> QED BY <1>12, <2>1, <2>2, <2>3, <2>4
<1>14. \A j \in 1 .. i : Len(message.chunks[j]) <= MaxChunkSize
  <2>1. \A j \in 1 .. (i - 1) : Len(message.chunks[j]) <= MaxChunkSize
    BY <1>3 DEF HasRead
  <2>2. \A j \in 1 .. i : j = i \/ j \in 1 .. (i - 1)
    BY <1>4
  <2> QED BY <1>3, <2>1, <2>2
<1>15. HasRead(i)'
  BY <1>3, <1>10, <1>13, <1>14 DEF HasRead, HeadFits, HeadSize, Coming, Datas
<1>16. Cut(Unread, CrlfOf(message) \o Chunks(message, i))'
  BY <1>8, <1>10, <1>11 DEF Cut
<1>17. i \in 1 .. Count'
  BY <1>3, <1>10 DEF Count
<1>18. AtCrlf'
  BY <1>1, <1>3, <1>15, <1>16, <1>17 DEF AtCrlf
<1>19. InPlace'
  BY <1>10, <1>18 DEF InPlace
<1> QED BY <1>1, <1>19, PlaceStep

\* A chunk begins with its size, not with a CRLF.
LEMMA ChunksBegin ==
    ASSUME NEW m, Message(m), NEW i \in 0 .. Len(m.chunks)
    PROVE  \E size \in Nat, b \in Seq(Symbols) : Chunks(m, i) = SizeLine(m, size) \o b
<1>1. Len(m.chunks) \in Nat /\ m.trailers \in Nat
  BY Pieces
<1>2. CASE i = Len(m.chunks)
  <2>1. Chunks(m, i) = SizeLine(m, 0) \o Ending(m, m.trailers)
    BY <1>2, ChunksEnd
  <2>2. Ending(m, m.trailers) \in Seq(Symbols)
    BY <1>1, Pieces
  <2> QED BY <2>1, <2>2
<1>3. CASE i # Len(m.chunks)
  <2>1. i + 1 \in 1 .. Len(m.chunks) /\ i + 1 \in 0 .. Len(m.chunks) /\ (i + 1) - 1 = i
    BY <1>1, <1>3
  <2>2. PICK j \in 1 .. Len(m.chunks) : j = i + 1 /\ j \in 0 .. Len(m.chunks)
    BY <2>1
  <2>3. Chunks(m, j - 1) =
             SizeLine(m, Len(m.chunks[j])) \o (Data(m.chunks[j]) \o (CrlfOf(m) \o Chunks(m, j)))
    BY ChunksStep
  <2>4. /\ Data(m.chunks[j]) \in Seq(Symbols) /\ CrlfOf(m) \in Seq(Symbols)
        /\ Chunks(m, j) \in Seq(Symbols) /\ Len(m.chunks[j]) \in Nat
    BY <2>2, Pieces
  <2>5. CrlfOf(m) \o Chunks(m, j) \in Seq(Symbols)
    BY <2>4, ConcatTyped
  <2>6. Data(m.chunks[j]) \o (CrlfOf(m) \o Chunks(m, j)) \in Seq(Symbols)
    BY <2>4, <2>5, ConcatTyped
  <2>7. Chunks(m, i) =
             SizeLine(m, Len(m.chunks[j])) \o (Data(m.chunks[j]) \o (CrlfOf(m) \o Chunks(m, j)))
    BY <2>1, <2>2, <2>3
  <2> QED BY <2>4, <2>6, <2>7
<1> QED BY <1>2, <1>3

LEMMA ReadCrlfStep ==
    ASSUME TypeOK, IInv, MInv, ReadCrlf
    PROVE  MInv'
<1>1. pc = "crlf" /\ Ready
  BY DEF ReadCrlf
<1>2. Message(message)
  BY DEF TypeOK
<1>3. PICK i \in 1 .. Count :
        /\ HasRead(i) /\ trailers = 0
        /\ Cut(Unread, CrlfOf(message) \o Chunks(message, i))
  BY <1>1 DEF MInv, InPlace, AtCrlf
<1>4. i \in 0 .. Len(message.chunks)
  BY <1>2, <1>3, Pieces DEF Count
<1>5. Chunks(message, i) \in Seq(Symbols)
  BY <1>2, <1>4, Pieces
<1>6. need = 1
  BY <1>1 DEF IInv, Accepted
<1>7. Len(buffer) >= 1 /\ Len(buffer) \in Nat /\ buffer \in Seq(Symbols)
  BY <1>1, <1>6, ReaderTyped DEF Ready
<1>8. CASE message.fault = "nocrlf"
  <2>1. CrlfOf(message) \o Chunks(message, i) = Chunks(message, i)
    BY <1>5, <1>8, EmptyConcat DEF CrlfOf
  <2>2. PICK size \in Nat, b \in Seq(Symbols) : Chunks(message, i) = SizeLine(message, size) \o b
    BY <1>2, <1>4, ChunksBegin
  <2>3. /\ SizeLine(message, size) \in Seq(Symbols) /\ IsLine(SizeLine(message, size))
        /\ SizeLine(message, size)[1] = SizeSymbol(message, size)
    BY <1>2, SizeLineIs
  <2>4. pc # "close" /\ Cut(Unread, SizeLine(message, size) \o b)
    BY <1>1, <1>3, <2>1, <2>2
  <2>5. \A j \in 1 .. Len(buffer) : j <= Len(SizeLine(message, size)) => buffer[j] = SizeLine(message, size)[j]
    BY <2>3, <2>4, Reading
  <2>6. 1 \in 1 .. Len(buffer) /\ 1 <= Len(SizeLine(message, size))
    BY <1>7, <2>3 DEF IsLine
  <2>7. buffer[1] = SizeSymbol(message, size)
    BY <2>3, <2>5, <2>6
  <2>8. SizeSymbol(message, size) # Crlf
    BY SymbolsDiffer DEF SizeSymbol
  <2>9. End("ProtocolError")
    BY <2>7, <2>8 DEF ReadCrlf, Reject
  <2> QED BY <1>8, <2>9, RejectStep DEF Reason
<1>9. CASE message.fault # "nocrlf"
  <2>1. CrlfOf(message) = <<Crlf>>
    BY <1>9 DEF CrlfOf
  <2>2. <<Crlf>> \in Seq(Symbols) /\ Len(<<Crlf>>) = 1 /\ <<Crlf>>[1] = Crlf
    BY EmptyLineIs
  <2>3. Cut(Unread, <<Crlf>> \o Chunks(message, i)) /\ pc # "close"
    BY <1>1, <1>3, <2>1
  <2>4. /\ \A j \in 1 .. Len(buffer) : j <= Len(<<Crlf>>) => buffer[j] = <<Crlf>>[j]
        /\ Len(<<Crlf>>) <= Len(buffer) => Cut(Joined(Drop(Len(<<Crlf>>)), prefix, wire), Chunks(message, i))
    BY <1>5, <2>2, <2>3, Reading
  <2>5. 1 \in 1 .. Len(buffer) /\ 1 <= 1
    BY <1>7
  <2>6. buffer[1] = Crlf
    BY <2>2, <2>4, <2>5
  <2>7. Cut(Joined(Drop(1), prefix, wire), Chunks(message, i))
    BY <1>7, <2>2, <2>4
  <2>8. /\ Continue("line") /\ buffer' = Drop(1) /\ prefix' = prefix /\ wire' = wire
        /\ body' = body /\ trailers' = trailers
    BY <2>6 DEF ReadCrlf, streamVars, resultVars
  <2>9. message' = message /\ sent' = sent /\ pc' = "line"
    BY <2>8 DEF Continue, serverVars
  <2>10. Unread' = Joined(Drop(1), prefix, wire)
    BY <2>8, <2>9 DEF Unread, Beginning
  <2>11. Cut(Unread, Chunks(message, i))'
    BY <2>7, <2>9, <2>10 DEF Cut
  <2>12. HasRead(i)'
    BY <1>3, <2>8, <2>9 DEF HasRead, HeadFits, HeadSize
  <2>13. i \in 0 .. Count'
    BY <1>4, <2>9 DEF Count
  <2>14. AtLine'
    BY <1>3, <1>9, <2>8, <2>9, <2>11, <2>12, <2>13 DEF AtLine
  <2>15. InPlace'
    BY <2>9, <2>14 DEF InPlace
  <2> QED BY <1>1, <2>8, <2>15, PlaceStep
<1> QED BY <1>8, <1>9

\* The size of a chunk: accepted, or rejected for a limit or a fault.
LEMMA ReadSizeStep ==
    ASSUME TypeOK, IInv, MInv, ReadSize
    PROVE  MInv'
<1>1. pc = "line" /\ Ready
  BY DEF ReadSize
<1>2. Message(message)
  BY DEF TypeOK
<1>3. PICK i, size, b : LineAhead(i, size, b)
  BY <1>1, SizeAhead
<1>4. /\ i \in 0 .. Count /\ size \in Nat /\ b \in Seq(Symbols)
      /\ HasRead(i) /\ (i > 0 => message.fault # "nocrlf") /\ trailers = 0
      /\ Cut(Unread, SizeLine(message, size) \o b)
      /\ message.framing = "chunked" /\ message.fault # "negative"
  BY <1>3 DEF LineAhead, HasRead, MInv, Server
<1>5. /\ SizeLine(message, size) \in Seq(Symbols) /\ IsLine(SizeLine(message, size))
      /\ SizeLine(message, size)[1] = SizeSymbol(message, size)
  BY <1>2, <1>4, SizeLineIs
<1>6. pc \in {"line", "trailer"}
  BY <1>1
<1>7. /\ LineEnd = Len(SizeLine(message, size)) /\ buffer[1] = SizeLine(message, size)[1]
      /\ Cut(Joined(Drop(LineEnd), prefix, wire), b)
  BY <1>1, <1>4, <1>5, <1>6, LineReads
<1>8. /\ buffer[1].value = size
      /\ buffer[1].type = IF message.fault = "badsize" THEN "badsize" ELSE "size"
  BY <1>4, <1>5, <1>7, SymbolsDiffer DEF SizeSymbol
<1>9. MaxBodySize \in Nat /\ MaxChunkSize \in Nat
  BY Limits
<1>10. Len(message.chunks) \in Nat /\ Count = Len(message.chunks)
  <2>1. Len(message.chunks) \in Nat
    BY <1>2, Pieces
  <2> QED BY <2>1 DEF Count
<1>11. ASSUME i < Count
       PROVE  /\ i + 1 \in 1 .. Len(message.chunks) /\ (i + 1) - 1 = i
              /\ size = Len(message.chunks[i + 1])
              /\ b = Data(message.chunks[i + 1]) \o (CrlfOf(message) \o Chunks(message, i + 1))
              /\ size > 0
  <2>1. i + 1 \in 1 .. Len(message.chunks) /\ (i + 1) - 1 = i /\ i # Count
    BY <1>4, <1>10, <1>11
  <2> QED BY <1>3, <2>1 DEF LineAhead
<1>12. CASE SizeAcceptable
  <2>1. message.fault # "badsize" /\ size <= MaxChunkSize
    BY <1>8, <1>12 DEF SizeAcceptable
  <2>2. /\ Continue(IF size = 0 THEN "trailer" ELSE "chunk") /\ need' = size
        /\ buffer' = Drop(LineEnd) /\ prefix' = prefix /\ wire' = wire
        /\ body' = body /\ trailers' = trailers
    BY <1>8, <1>12 DEF ReadSize, streamVars
  <2>3. message' = message /\ sent' = sent /\ pc' = IF size = 0 THEN "trailer" ELSE "chunk"
    BY <2>2 DEF Continue, serverVars
  <2>4. Unread' = Joined(Drop(LineEnd), prefix, wire)
    BY <1>1, <2>2, <2>3 DEF Unread, Beginning
  <2>5. HasRead(i)'
    BY <1>4, <2>2, <2>3 DEF HasRead, HeadFits, HeadSize
  <2>6. CASE size = 0
    <3>1. i = Count /\ b = Ending(message, message.trailers)
      BY <1>3, <2>6 DEF LineAhead
    <3>2. message.fault # "nocrlf"
      <4>1. CASE i > 0
        BY <1>4, <4>1
      <4>2. CASE ~(i > 0)
        <5>1. Len(message.chunks) = 0
          BY <1>4, <1>10, <3>1, <4>2
        <5>2. message.chunks = <<>>
          <6>1. message.chunks \in Seq(Seq(Nat \ {0}))
            BY <1>2, MessageFields
          <6> QED BY <5>1, <6>1, EmptySeq
        <5> QED BY <1>2, <5>2 DEF Message
      <4> QED BY <4>1, <4>2
    <3>3. body = Content(message)
      <4>1. body \o Coming(message, Count) = Content(message)
        BY <1>4, <3>1 DEF HasRead
      <4>2. Coming(message, Count) = <<>>
        BY <1>2, <1>10, ComingEnds
      <4>3. body \in Seq(Symbols)
        BY ReaderTyped
      <4> QED BY <4>1, <4>2, <4>3, EmptyConcat
    <3>4. Cut(Unread, Ending(message, message.trailers))'
      BY <1>7, <2>3, <2>4, <3>1 DEF Cut
    <3>5. message.trailers \in Nat
      BY <1>2, MessageFields
    <3>6. message.trailers \in 0 .. message.trailers /\ 0 + message.trailers = message.trailers
      BY <3>5
    <3>7. HasRead(Count)'
      BY <2>3, <2>5, <3>1 DEF Count
    <3>8. AtTrailer'
      BY <1>4, <2>1, <2>2, <2>3, <3>2, <3>3, <3>4, <3>6, <3>7 DEF AtTrailer
    <3>9. InPlace'
      BY <2>3, <2>6, <3>8 DEF InPlace
    <3> QED BY <1>1, <2>2, <3>9, PlaceStep
  <2>7. CASE size # 0
    <3>1. i < Count
      BY <1>3, <2>7 DEF LineAhead
    <3>2. PICK k \in 1 .. Count : k = i + 1 /\ k - 1 = i
      BY <1>10, <1>11, <3>1
    <3>3. /\ size = Len(message.chunks[k])
          /\ b = Data(message.chunks[k]) \o (CrlfOf(message) \o Chunks(message, k))
      BY <1>11, <3>1, <3>2
    <3>4. Cut(Unread, Data(message.chunks[k]) \o (CrlfOf(message) \o Chunks(message, k)))'
      BY <1>7, <2>3, <2>4, <3>3 DEF Cut
    <3>5. k \in 1 .. Count'
      BY <2>3, <3>2 DEF Count
    <3>6. k > 1 => message.fault # "nocrlf"
      BY <1>4, <3>2
    <3>7. HasRead(k - 1)'
      BY <2>5, <3>2
    <3>8. need' = Len(message'.chunks[k]) /\ need' <= MaxChunkSize
      BY <2>1, <2>2, <2>3, <3>3
    <3>9. AtChunk'
      BY <1>4, <2>1, <2>2, <2>3, <3>4, <3>5, <3>6, <3>7, <3>8 DEF AtChunk
    <3>10. InPlace'
      BY <2>3, <2>7, <3>9 DEF InPlace
    <3> QED BY <1>1, <2>2, <3>10, PlaceStep
  <2> QED BY <2>6, <2>7
<1>13. CASE ~SizeAcceptable
  <2>1. End("ProtocolError")
    BY <1>13 DEF ReadSize, Reject
  <2>2. CASE message.fault = "badsize"
    BY <2>1, <2>2, RejectStep DEF Reason
  <2>3. CASE message.fault # "badsize"
    <3>1. ~(size <= MaxChunkSize) \/ (size # 0 /\ ~(Len(body) + size <= MaxBodySize))
      BY <1>8, <1>13, <2>3 DEF SizeAcceptable, BodyFits
    <3>2. size # 0
      BY <1>9, <3>1
    <3>3. i < Count
      BY <1>3, <3>2 DEF LineAhead
    <3>4. PICK k \in 1 .. Len(message.chunks) : k = i + 1 /\ k - 1 = i
      BY <1>11, <3>3
    <3>5. size = Len(message.chunks[k])
      BY <1>11, <3>3, <3>4
    <3>6. CASE ~(size <= MaxChunkSize)
      <4>1. k \in DOMAIN message.chunks
        BY <1>2, <3>4, MessageFields
      <4>2. ~WithinLimits
        BY <1>4, <3>5, <3>6, <4>1 DEF WithinLimits
      <4> QED BY <2>1, <4>2, RejectStep DEF Reason
    <3>7. CASE ~(Len(body) + size <= MaxBodySize)
      <4>1. Coming(message, k - 1) = Data(message.chunks[k]) \o Coming(message, k)
            /\ Coming(message, k) \in Seq(Symbols)
        BY <1>2, ComingStep
      <4>2. body \o Coming(message, k - 1) = Content(message)
        BY <1>4, <3>4 DEF HasRead
      <4>3. Data(message.chunks[k]) \in Seq(Symbols) /\ Len(Data(message.chunks[k])) = size
        BY <1>2, <3>5, Pieces
      <4>4. PICK d \in Seq(Symbols), c \in Seq(Symbols) :
              d = Data(message.chunks[k]) /\ c = Coming(message, k)
        BY <4>1, <4>3
      <4>5. d \o c \in Seq(Symbols) /\ Len(d \o c) = Len(d) + Len(c)
        BY ConcatTyped
      <4>6. body \in Seq(Symbols)
        BY ReaderTyped
      <4>7. Len(body \o (d \o c)) = Len(body) + Len(d \o c)
        BY <4>5, <4>6, ConcatTyped
      <4>8. Len(body) \in Nat /\ Len(d) \in Nat /\ Len(c) \in Nat /\ Len(d) = size
        BY <4>3, <4>4, <4>6, LenProperties
      <4>9. Len(Content(message)) = Len(body) + (Len(d) + Len(c))
        BY <4>1, <4>2, <4>4, <4>5, <4>7
      <4>10. ~(Len(Content(message)) <= MaxBodySize)
        BY <1>9, <3>7, <4>8, <4>9
      <4>11. ~WithinLimits
        BY <1>4, <4>10 DEF WithinLimits
      <4> QED BY <2>1, <4>11, RejectStep DEF Reason
    <3> QED BY <3>1, <3>6, <3>7
  <2> QED BY <2>2, <2>3
<1> QED BY <1>12, <1>13

\* The steps that read trailers.
LEMMA LastTrailerStep ==
    ASSUME TypeOK, IInv, MInv, LastTrailer
    PROVE  MInv'
<1>1. /\ pc = "trailer" /\ Ready /\ LineEnd = 1 /\ End("response") /\ buffer' = Drop(1)
      /\ prefix' = prefix /\ wire' = wire /\ body' = body /\ trailers' = trailers
  BY DEF LastTrailer, streamVars, resultVars
<1>2. Message(message)
  BY DEF TypeOK
<1>3. PICK t, a, b : TrailerAhead(t, a, b)
  BY <1>1, TrailersAhead
<1>4. /\ a \in Seq(Symbols) /\ b \in Seq(Symbols) /\ IsLine(a) /\ Cut(Unread, a \o b)
      /\ HasRead(Count) /\ body = Content(message) /\ message.framing = "chunked" /\ HeadFits
      /\ message.fault \notin {"nocrlf", "badsize"}
      /\ trailers + t = message.trailers
      /\ trailers > 0 => message.fault # "badtrailer"
  BY <1>3 DEF TrailerAhead, HasRead
<1>5. pc \in {"line", "trailer"}
  BY <1>1
<1>6. LineEnd = Len(a) /\ Cut(Joined(Drop(LineEnd), prefix, wire), b)
  BY <1>1, <1>4, <1>5, LineReads
<1>7. t = 0 /\ b = <<>>
  <2>1. Len(TrailerLine(message)) = 2
    BY TrailerLineIs
  <2>2. a # TrailerLine(message)
    BY <1>1, <1>6, <2>1
  <2> QED BY <1>3, <2>2 DEF TrailerAhead
<1>8. 1 \in Nat
  OBVIOUS
<1>9. Drop(1) \in Seq(Symbols)
  BY <1>8, DropTyped
<1>10. Joined(Drop(1), prefix, wire) \in Seq(Symbols)
  BY <1>9, JoinedTyped
<1>11. Cut(Joined(Drop(1), prefix, wire), <<>>)
  BY <1>1, <1>6, <1>7
<1>12. ~Truncated /\ Joined(Drop(1), prefix, wire) = After(sent, Len(Encode(message)))
  BY <1>10, <1>11, CompleteIs
<1>13. trailers \in 0 .. MaxTrailers /\ MaxTrailers \in Nat
  BY Limits DEF TypeOK
<1>14. trailers = message.trailers
  <2>1. trailers + 0 = trailers
    BY <1>13
  <2> QED BY <1>4, <1>7, <2>1
<1>15. message.fault = "none"
  <2>1. message.fault \notin {"nocrlf", "badsize", "badhead", "badlength", "negative"}
    BY <1>4 DEF HeadFits, MInv, Server
  <2>2. message.fault # "badtrailer"
    <3>1. message.trailers > 0 => message.fault # "badtrailer"
      BY <1>4, <1>14
    <3> QED BY <1>2, <3>1 DEF Message
  <2>3. message.fault \in Faults
    BY <1>2, MessageFields
  <2> QED BY <2>1, <2>2, <2>3 DEF Faults
<1>16. WithinLimits
  <2>1. Len(Content(message)) <= MaxBodySize
    BY <1>1, <1>4 DEF IInv, Bounded
  <2>2. DOMAIN message.chunks = 1 .. Count
    BY <1>2, MessageFields DEF Count
  <2>3. \A i \in DOMAIN message.chunks : Len(message.chunks[i]) <= MaxChunkSize
    BY <1>4, <2>2 DEF HasRead
  <2>4. message.trailers <= MaxTrailers
    BY <1>13, <1>14
  <2> QED BY <1>4, <2>1, <2>3, <2>4 DEF WithinLimits, HeadFits
<1>17. RightEnd
  BY <1>1, <1>4, <1>12, <1>14, <1>15, <1>16 DEF RightEnd
<1> QED BY <1>1, <1>17, ResponseStep

LEMMA ReadTrailerStep ==
    ASSUME TypeOK, MInv, ReadTrailer
    PROVE  MInv'
<1>1. pc = "trailer" /\ Ready /\ LineEnd > 1
  BY DEF ReadTrailer
<1>2. Message(message)
  BY DEF TypeOK
<1>3. PICK t, a, b : TrailerAhead(t, a, b)
  BY <1>1, TrailersAhead
<1>4. /\ t \in 0 .. message.trailers
      /\ a \in Seq(Symbols) /\ b \in Seq(Symbols) /\ IsLine(a) /\ Cut(Unread, a \o b)
      /\ HasRead(Count) /\ body = Content(message) /\ message.framing = "chunked"
      /\ message.fault \notin {"nocrlf", "badsize"}
      /\ trailers + t = message.trailers
  BY <1>3 DEF TrailerAhead, HasRead
<1>5. pc \in {"line", "trailer"}
  BY <1>1
<1>6. LineEnd = Len(a) /\ buffer[1] = a[1] /\ Cut(Joined(Drop(LineEnd), prefix, wire), b)
  BY <1>1, <1>4, <1>5, LineReads
<1>7. t > 0 /\ a = TrailerLine(message) /\ b = Ending(message, t - 1)
  <2>1. Len(<<Crlf>>) = 1
    BY EmptyLineIs
  <2>2. a # <<Crlf>>
    BY <1>1, <1>6, <2>1
  <2> QED BY <1>3, <2>2 DEF TrailerAhead
<1>8. buffer[1].type = IF message.fault = "badtrailer" THEN "badtrailer" ELSE "trailer"
  BY <1>6, <1>7, TrailerLineIs
<1>9. trailers \in 0 .. MaxTrailers /\ MaxTrailers \in Nat /\ message.trailers \in Nat
  BY <1>2, Limits, MessageFields DEF TypeOK
<1>10. CASE buffer[1].type = "trailer" /\ TrailerFits
  <2>1. /\ Continue("trailer") /\ trailers' = trailers + 1 /\ buffer' = Drop(LineEnd)
        /\ prefix' = prefix /\ wire' = wire /\ body' = body
    BY <1>10 DEF ReadTrailer, streamVars
  <2>2. message' = message /\ sent' = sent /\ pc' = "trailer"
    BY <2>1 DEF Continue, serverVars
  <2>3. Unread' = Joined(Drop(LineEnd), prefix, wire)
    BY <1>1, <2>1, <2>2 DEF Unread, Beginning
  <2>4. Cut(Unread, Ending(message, t - 1))'
    BY <1>6, <1>7, <2>2, <2>3 DEF Cut
  <2>5. HasRead(Count)'
    BY <1>4, <2>1, <2>2 DEF HasRead, HeadFits, HeadSize, Count
  <2>6. message.fault # "badtrailer"
    BY <1>8, <1>10
  <2>7. t - 1 \in 0 .. message.trailers /\ (trailers + 1) + (t - 1) = message.trailers
    BY <1>4, <1>7, <1>9
  <2>8. AtTrailer'
    BY <1>4, <2>1, <2>2, <2>4, <2>5, <2>6, <2>7 DEF AtTrailer
  <2>9. InPlace'
    BY <2>2, <2>8 DEF InPlace
  <2> QED BY <1>1, <2>1, <2>9, PlaceStep
<1>11. CASE ~(buffer[1].type = "trailer" /\ TrailerFits)
  <2>1. End("ProtocolError")
    BY <1>11 DEF ReadTrailer, Reject
  <2>2. CASE message.fault = "badtrailer"
    BY <2>1, <2>2, RejectStep DEF Reason
  <2>3. CASE message.fault # "badtrailer"
    <3>1. ~(trailers < MaxTrailers)
      BY <1>8, <1>11, <2>3 DEF TrailerFits
    <3>2. ~(message.trailers <= MaxTrailers)
      BY <1>4, <1>7, <1>9, <3>1
    <3>3. ~WithinLimits
      BY <1>4, <3>2 DEF WithinLimits
    <3> QED BY <2>1, <3>3, RejectStep DEF Reason
  <2> QED BY <2>2, <2>3
<1> QED BY <1>10, <1>11

LEMMA StutterMInv ==
    ASSUME MInv, UNCHANGED vars
    PROVE  MInv'
<1>1. /\ message' = message /\ sent' = sent /\ wire' = wire /\ prefix' = prefix
      /\ buffer' = buffer /\ pc' = pc /\ need' = need /\ body' = body
      /\ trailers' = trailers /\ outcome' = outcome
  BY DEF vars, serverVars, streamVars, resultVars
<1>2. Unread' = Unread
  BY <1>1 DEF Unread, Beginning
<1>3. Server'
  BY <1>1 DEF MInv, Server, SentIsCut, Truncated
<1>4. InPlace'
  <2>1. HeadFits' = HeadFits /\ Count' = Count
    BY <1>1 DEF HeadFits, HeadSize, Count
  <2>2. InPlace
    BY DEF MInv
  <2>3. ASSUME pc = "head" PROVE AtHead'
    BY <1>1, <1>2, <2>2, <2>3 DEF InPlace, AtHead, Cut
  <2>4. ASSUME pc = "content" PROVE AtContent'
    BY <1>1, <1>2, <2>1, <2>2, <2>4 DEF InPlace, AtContent, Cut
  <2>5. ASSUME pc = "close" PROVE AtClose'
    BY <1>1, <1>2, <2>1, <2>2, <2>5 DEF InPlace, AtClose, Cut
  <2>6. ASSUME pc = "line" PROVE AtLine'
    BY <1>1, <1>2, <2>1, <2>2, <2>6 DEF InPlace, AtLine, Cut, HasRead
  <2>7. ASSUME pc = "chunk" PROVE AtChunk'
    BY <1>1, <1>2, <2>1, <2>2, <2>7 DEF InPlace, AtChunk, Cut, HasRead
  <2>8. ASSUME pc = "crlf" PROVE AtCrlf'
    BY <1>1, <1>2, <2>1, <2>2, <2>8 DEF InPlace, AtCrlf, Cut, HasRead
  <2>9. ASSUME pc = "trailer" PROVE AtTrailer'
    BY <1>1, <1>2, <2>1, <2>2, <2>9 DEF InPlace, AtTrailer, Cut, HasRead
  <2> QED BY <1>1, <2>3, <2>4, <2>5, <2>6, <2>7, <2>8, <2>9 DEF InPlace
<1>5. RightResponse' /\ RejectsForAReason' /\ StopsAtTheEnd'
  BY <1>1 DEF MInv, RightResponse, RejectsForAReason, StopsAtTheEnd,
              Truncated, WithinLimits, NearLimit, HeadSize, LineSize
<1> QED BY <1>3, <1>4, <1>5 DEF MInv

\* Every step keeps the invariant.
LEMMA NextMInv ==
    ASSUME TypeOK, IInv, MInv, [Next]_vars
    PROVE  MInv'
BY TooLongStep, RecvStep, EofStep, RecvFailsStep, RejectHeadStep, SkipInformationalStep,
   SelectFramingStep, ReadContentStep, ReadSizeStep, ReadChunkStep, ReadCrlfStep,
   LastTrailerStep, ReadTrailerStep, StutterMInv DEF Next

\* The invariants together.
LEMMA ReadsMessages ==
    ASSUME NoneSigned
    PROVE  Spec => [](TypeOK /\ IInv /\ MInv)
<1>1. Init => TypeOK /\ IInv /\ MInv
  BY InitTypeOK, InitIInv, InitMInv
<1>2. TypeOK /\ IInv /\ MInv /\ [Next]_vars => (TypeOK /\ IInv /\ MInv)'
  BY NextTypeOK, NextInv, NextMInv
<1> QED BY <1>1, <1>2, PTL DEF Spec

\* A response is returned only for a complete response within the limits, with the body
\* that was sent, however recv cut it: for every message, every place where the server
\* stops, and all limits.
THEOREM OnlyRightResponses ==
    ASSUME NoneSigned
    PROVE  Spec => []RightResponse
<1>1. TypeOK /\ IInv /\ MInv => RightResponse
  BY DEF MInv
<1> QED BY <1>1, ReadsMessages, PTL

\* A ProtocolError means that the server stopped early, made a mistake or exceeded a
\* limit.
THEOREM RejectionsHaveAReason ==
    ASSUME NoneSigned
    PROVE  Spec => []RejectsForAReason
<1>1. TypeOK /\ IInv /\ MInv => RejectsForAReason
  BY DEF MInv
<1> QED BY <1>1, ReadsMessages, PTL

\* Behind a response that was returned, the stream holds exactly what the server sent
\* behind it.
THEOREM StopsWhereTheResponseEnds ==
    ASSUME NoneSigned
    PROVE  Spec => []StopsAtTheEnd
<1>1. TypeOK /\ IInv /\ MInv => StopsAtTheEnd
  BY DEF MInv
<1> QED BY <1>1, ReadsMessages, PTL

=============================================================================
