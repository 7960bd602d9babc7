---------------------------- MODULE Lists_proofs ----------------------------
(***************************************************************************)
(* Proofs about Lists: Kept(s, I) is what its comment says, for every      *)
(* sequence.  Induction on its length is needed; since the library's       *)
(* theorem of induction takes a predicate, which no prover instantiates,   *)
(* it is stated for sets and proved from the well-foundedness of "<".      *)
(***************************************************************************)
EXTENDS Lists, SequenceTheorems, WellFoundedInduction, TLAPS

------------------------------------------------------------------------------
(* Induction *)

Less == {p \in Nat \X Nat : p[1] < p[2]}

\* A set of natural numbers has a smallest one.
LEMMA Least ==
    ASSUME NEW T, T \subseteq Nat, T # {}
    PROVE  \E x \in T : \A y \in T : x <= y
<1>1. IsWellFoundedOn(Less, Nat)
  BY NatLessThanWellFounded DEF OpToRel, Less
<1>2. PICK x \in T : \A y \in T : ~ (<<y, x>> \in Less)
  BY <1>1, WFMin
<1>3. ASSUME NEW y \in T PROVE x <= y
  <2>1. x \in Nat /\ y \in Nat /\ <<y, x>> \notin Less
    BY <1>2
  <2>2. ~ (y < x)
    BY <2>1 DEF Less
  <2> QED BY <2>1, <2>2
<1> QED BY <1>3

\* Induction, for a set of numbers instead of a predicate.
LEMMA SetInduction ==
    ASSUME NEW S, S \subseteq Nat, 0 \in S, \A n \in S : n + 1 \in S
    PROVE  S = Nat
<1> SUFFICES ASSUME S # Nat PROVE FALSE
  OBVIOUS
<1>1. PICK x \in Nat \ S : \A y \in Nat \ S : x <= y
  BY Least
<1>2. x # 0 /\ x - 1 \in Nat
  BY <1>1
<1>3. x - 1 \in S
  BY <1>1, <1>2
<1> QED BY <1>1, <1>3

------------------------------------------------------------------------------
(* The recursive function *)

KeptStep(s, I, c, n) ==
    IF n = 0 THEN <<>>
    ELSE IF n \in I THEN Append(c[n - 1], s[n]) ELSE c[n - 1]

\* c[n] is what is kept of the first n elements of s, for n up to m.
IsKept(s, I, m, c) == c = [n \in 0 .. m |-> KeptStep(s, I, c, n)]

\* There is such a function, so that CHOOSE finds it.
LEMMA KeptExists ==
    ASSUME NEW s, NEW I, NEW m \in Nat
    PROVE  \E c : IsKept(s, I, m, c)
<1> DEFINE S == {k \in Nat : \E c : IsKept(s, I, k, c)}
<1>1. 0 \in S
  <2> DEFINE c == [n \in 0 .. 0 |-> <<>>]
  <2>1. IsKept(s, I, 0, c)
    BY DEF IsKept, KeptStep
  <2> QED BY <2>1
<1>2. ASSUME NEW k \in S PROVE k + 1 \in S
  <2>1. PICK c : IsKept(s, I, k, c)
    OBVIOUS
  <2> DEFINE d == [n \in 0 .. k + 1 |-> IF n = k + 1 THEN KeptStep(s, I, c, n) ELSE c[n]]
  <2>2. \A n \in 0 .. k : d[n] = c[n]
    OBVIOUS
  <2>3. ASSUME NEW n \in 0 .. k + 1 PROVE d[n] = KeptStep(s, I, d, n)
    <3>1. CASE n = k + 1
      BY <3>1, <2>2 DEF KeptStep
    <3>2. CASE n \in 0 .. k
      <4>1. d[n] = KeptStep(s, I, c, n)
        BY <3>2, <2>1 DEF IsKept
      <4>2. n # 0 => d[n - 1] = c[n - 1]
        BY <3>2, <2>2
      <4> QED BY <4>1, <4>2 DEF KeptStep
    <3> QED BY <3>1, <3>2
  <2>4. IsKept(s, I, k + 1, d)
    BY <2>3 DEF IsKept
  <2> QED BY <2>4
<1>3. S = Nat
  <2> HIDE DEF S
  <2>1. S \subseteq Nat
    BY DEF S
  <2> QED BY <1>1, <1>2, <2>1, SetInduction
<1> QED BY <1>3

LEMMA KeptIs ==
    ASSUME NEW s, NEW I, Len(s) \in Nat
    PROVE  \E c : IsKept(s, I, Len(s), c) /\ Kept(s, I) = c[Len(s)]
<1> DEFINE c == CHOOSE k : IsKept(s, I, Len(s), k)
<1>1. IsKept(s, I, Len(s), c)
  BY KeptExists
<1>2. Kept(s, I) = c[Len(s)]
  BY DEF Kept, IsKept, KeptStep
<1> QED BY <1>1, <1>2

------------------------------------------------------------------------------
(* What is kept *)

\* What is kept of the first n elements: f tells where each came from.
Picks(s, I, n, k, f) ==
    /\ f \in [1 .. Len(k) -> (1 .. n) \cap I]
    /\ \A a \in 1 .. Len(k) : k[a] = s[f[a]]
    /\ \A a, b \in 1 .. Len(k) : a < b => f[a] < f[b]
    /\ \A i \in (1 .. n) \cap I : \E a \in 1 .. Len(k) : f[a] = i

LEMMA PickedOneMore ==
    ASSUME NEW S, NEW s \in Seq(S), NEW I, NEW n \in Nat, n + 1 \in 1 .. Len(s), n + 1 \in I,
           NEW k \in Seq(S), Len(k) <= n, NEW f, Picks(s, I, n, k, f)
    PROVE  /\ Append(k, s[n + 1]) \in Seq(S)
           /\ Len(Append(k, s[n + 1])) <= n + 1
           /\ \E g : Picks(s, I, n + 1, Append(k, s[n + 1]), g)
<1> DEFINE l == Append(k, s[n + 1])
           g == [a \in 1 .. Len(k) + 1 |-> IF a = Len(k) + 1 THEN n + 1 ELSE f[a]]
<1>1. s[n + 1] \in S
  BY ElementOfSeq
<1>2. /\ l \in Seq(S) /\ Len(l) = Len(k) + 1
      /\ \A a \in 1 .. Len(k) : l[a] = k[a]
      /\ l[Len(k) + 1] = s[n + 1]
  BY <1>1, AppendProperties
<1>3. /\ \A a \in 1 .. Len(k) : g[a] = f[a] /\ f[a] \in (1 .. n) \cap I
      /\ g[Len(k) + 1] = n + 1 /\ Len(k) \in Nat
  BY DEF Picks
<1> HIDE DEF l, g
<1>4. g \in [1 .. Len(l) -> (1 .. n + 1) \cap I]
  <2>1. ASSUME NEW a \in 1 .. Len(l) PROVE g[a] \in (1 .. n + 1) \cap I
    <3>1. CASE a = Len(k) + 1
      BY <3>1, <1>3
    <3>2. CASE a \in 1 .. Len(k)
      <4>1. g[a] \in 1 .. n /\ g[a] \in I
        BY <3>2, <1>3
      <4> QED BY <4>1
    <3> QED BY <3>1, <3>2, <1>2, <1>3
  <2>2. g = [a \in 1 .. Len(l) |-> g[a]]
    BY <1>2 DEF g
  <2> HIDE DEF l
  <2> QED BY <2>1, <2>2
<1>5. \A a \in 1 .. Len(l) : l[a] = s[g[a]]
  BY <1>2, <1>3 DEF Picks
<1>6. \A a, b \in 1 .. Len(l) : a < b => g[a] < g[b]
  <2> SUFFICES ASSUME NEW a \in 1 .. Len(l), NEW b \in 1 .. Len(l), a < b PROVE g[a] < g[b]
    OBVIOUS
  <2>1. a \in 1 .. Len(k)
    BY <1>2, <1>3
  <2>2. CASE b = Len(k) + 1
    BY <2>1, <2>2, <1>3
  <2>3. CASE b \in 1 .. Len(k)
    BY <2>1, <2>3, <1>3 DEF Picks
  <2> QED BY <2>2, <2>3, <1>2, <1>3
<1>7. \A i \in (1 .. n + 1) \cap I : \E a \in 1 .. Len(l) : g[a] = i
  <2> SUFFICES ASSUME NEW i \in (1 .. n + 1) \cap I PROVE \E a \in 1 .. Len(l) : g[a] = i
    OBVIOUS
  <2>1. CASE i = n + 1
    BY <2>1, <1>2, <1>3
  <2>2. CASE i \in (1 .. n) \cap I
    <3>1. PICK a \in 1 .. Len(k) : f[a] = i
      BY <2>2 DEF Picks
    <3>2. a \in 1 .. Len(l)
      BY <1>2, <1>3
    <3> QED BY <3>1, <3>2, <1>3
  <2>3. i = n + 1 \/ i \in 1 .. n
    OBVIOUS
  <2> QED BY <2>1, <2>2, <2>3
<1>8. Picks(s, I, n + 1, l, g)
  BY <1>4, <1>5, <1>6, <1>7 DEF Picks
<1> QED BY <1>2, <1>8 DEF l

\* Kept(s, I) holds the elements of s at I, in their order, and nothing else.
THEOREM KeptIsSubsequence ==
    ASSUME NEW S, NEW s \in Seq(S), NEW I
    PROVE  /\ Kept(s, I) \in Seq(S)
           /\ Len(Kept(s, I)) <= Len(s)
           /\ \E f : Picks(s, I, Len(s), Kept(s, I), f)
<1>1. Len(s) \in Nat
  OBVIOUS
<1>2. PICK c : IsKept(s, I, Len(s), c) /\ Kept(s, I) = c[Len(s)]
  BY <1>1, KeptIs
<1> DEFINE Good(n) == /\ c[n] \in Seq(S) /\ Len(c[n]) <= n
                      /\ \E f : Picks(s, I, n, c[n], f)
           G == {n \in Nat : n <= Len(s) => Good(n)}
<1>3. 0 \in G
  <2>1. c[0] = <<>>
    BY <1>1, <1>2 DEF IsKept, KeptStep
  <2> DEFINE f == [a \in 1 .. 0 |-> a]
  <2>2. Picks(s, I, 0, <<>>, f)
    BY DEF Picks
  <2>3. Good(0)
    <3>1. <<>> \in Seq(S) /\ Len(<<>>) <= 0
      OBVIOUS
    <3> QED BY <2>1, <2>2, <3>1
  <2> QED BY <2>3
<1>4. ASSUME NEW n \in G PROVE n + 1 \in G
  <2> SUFFICES ASSUME n + 1 <= Len(s) PROVE Good(n + 1)
    OBVIOUS
  <2>1. Good(n) /\ n \in Nat /\ n + 1 \in 1 .. Len(s)
    BY <1>1
  <2>2. c[n + 1] = IF n + 1 \in I THEN Append(c[n], s[n + 1]) ELSE c[n]
    <3>1. n + 1 \in 0 .. Len(s) /\ n + 1 # 0 /\ (n + 1) - 1 = n
      BY <2>1, <1>1
    <3>2. c[n + 1] = KeptStep(s, I, c, n + 1)
      BY <1>2, <3>1 DEF IsKept
    <3> HIDE DEF G
    <3> QED BY <3>1, <3>2 DEF KeptStep
  <2> HIDE DEF G
  <2>3. PICK f : Picks(s, I, n, c[n], f)
    BY <2>1
  <2>4. CASE n + 1 \in I
    BY <2>1, <2>2, <2>3, <2>4, PickedOneMore
  <2>5. CASE n + 1 \notin I
    <3>1. (1 .. n + 1) \cap I = (1 .. n) \cap I
      BY <2>1, <2>5
    <3>2. Picks(s, I, n + 1, c[n], f)
      BY <2>3, <3>1 DEF Picks
    <3> QED BY <2>1, <2>2, <2>5, <3>2
  <2> QED BY <2>4, <2>5
<1>5. G = Nat
  <2> HIDE DEF G
  <2>1. G \subseteq Nat
    BY DEF G
  <2> QED BY <1>3, <1>4, <2>1, SetInduction
<1>6. Good(Len(s))
  BY <1>1, <1>5
<1> QED BY <1>2, <1>6

------------------------------------------------------------------------------
(* Queues and stacks *)

LEMMA Pushed ==
    ASSUME NEW S, NEW s \in Seq(S), NEW x \in S
    PROVE  /\ Append(s, x) \in Seq(S) /\ Len(Append(s, x)) = Len(s) + 1
           /\ DOMAIN Append(s, x) = 1 .. Len(s) + 1 /\ Append(s, x)[Len(s) + 1] = x
           /\ \A i \in 1 .. Len(s) : Append(s, x)[i] = s[i]
           /\ DOMAIN s = 1 .. Len(s) /\ Len(s) \in Nat
BY AppendProperties

LEMMA Dequeued ==
    ASSUME NEW S, NEW s \in Seq(S), s # <<>>
    PROVE  /\ Tail(s) \in Seq(S) /\ Len(Tail(s)) = Len(s) - 1 /\ Head(s) = s[1] /\ s[1] \in S
           /\ DOMAIN Tail(s) = 1 .. Len(s) - 1 /\ DOMAIN s = 1 .. Len(s)
           /\ Len(s) \in Nat /\ 1 <= Len(s)
           /\ \A i \in 1 .. Len(s) - 1 : Tail(s)[i] = s[i + 1]
BY HeadTailProperties

LEMMA Popped ==
    ASSUME NEW S, NEW s \in Seq(S), s # <<>>
    PROVE  /\ SubSeq(s, 1, Len(s) - 1) \in Seq(S) /\ Len(SubSeq(s, 1, Len(s) - 1)) = Len(s) - 1
           /\ \A i \in 1 .. Len(s) - 1 : SubSeq(s, 1, Len(s) - 1)[i] = s[i]
           /\ s[Len(s)] \in S /\ Len(s) \in Nat /\ 1 <= Len(s) /\ DOMAIN s = 1 .. Len(s)
<1>1. Len(s) \in Nat /\ 1 <= Len(s) /\ DOMAIN s = 1 .. Len(s)
  BY EmptySeq
<1>2. s[Len(s)] \in S
  BY <1>1, ElementOfSeq
<1> QED BY <1>1, <1>2, SubSeqProperties

=============================================================================
