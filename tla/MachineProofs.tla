--------------------------- MODULE MachineProofs ---------------------------
(***************************************************************************)
(* Lemmas about the words of Machine, for every size of a byte and every   *)
(* length of a word.                                                       *)
(***************************************************************************)
EXTENDS Machine, SequenceTheorems, WellFoundedInduction, TLAPS

-----------------------------------------------------------------------------
(***************************************************************************)
(* Natural numbers: a smallest one, induction in terms of sets, and        *)
(* functions defined by recursion.                                         *)
(***************************************************************************)
LEMMA Smallest ==
  ASSUME NEW S \in SUBSET Nat, S # {}
  PROVE  \E n \in S : \A m \in S : n <= m
<1> DEFINE less == {ss \in Nat \X Nat : ss[1] < ss[2]}
<1>1. PICK n \in S : \A m \in S : ~(<<m, n>> \in less)
  <2>1. IsWellFoundedOn(less, Nat)
    BY NatLessThanWellFounded DEF OpToRel
  <2> HIDE DEF less
  <2> QED BY <2>1, WFMin
<1>2. \A m \in S : n <= m
  <2>1. \A m, k \in Nat : ~(<<m, k>> \in less) => k <= m
    OBVIOUS
  <2> HIDE DEF less
  <2> QED BY <1>1, <2>1
<1> QED BY <1>2

LEMMA SetInduction ==
  ASSUME NEW n \in Nat, NEW T, 0 \in T,
         \A k \in 1 .. n : k - 1 \in T => k \in T
  PROVE  0 .. n \subseteq T
<1> SUFFICES ASSUME ~(0 .. n \subseteq T) PROVE FALSE
  OBVIOUS
<1> DEFINE S == {k \in 0 .. n : k \notin T}
<1>1. PICK k \in S : \A m \in S : k <= m
  <2>1. S \in SUBSET Nat /\ S # {}
    OBVIOUS
  <2> HIDE DEF S
  <2> QED BY <2>1, Smallest
<1>2. k \in 1 .. n /\ k - 1 \in 0 .. n
  OBVIOUS
<1>3. k - 1 \in T
  BY <1>1, <1>2
<1> QED BY <1>2, <1>3

\* The functions on 0 .. n given by their first value and a step: there is one.
Recursion(n, S, b, G) ==
    {f \in [0 .. n -> S] : f[0] = b /\ \A k \in 1 .. n : f[k] = G[<<k, f[k - 1]>>]}

LEMMA FiniteRecursion ==
  ASSUME NEW n \in Nat, NEW S, NEW b \in S, NEW G \in [(1 .. n) \X S -> S]
  PROVE  Recursion(n, S, b, G) # {}
<1> DEFINE Upto(k, f) == f[0] = b /\ \A i \in 1 .. k : f[i] = G[<<i, f[i - 1]>>]
           T == {k \in 0 .. n : \E f \in [0 .. n -> S] : Upto(k, f)}
<1>1. 0 \in T
  <2> DEFINE f == [i \in 0 .. n |-> b]
  <2>1. f \in [0 .. n -> S] /\ f[0] = b
    OBVIOUS
  <2>2. Upto(0, f)
    BY <2>1
  <2> HIDE DEF Upto, f
  <2> QED BY <2>1, <2>2
<1>2. ASSUME NEW k \in 1 .. n, k - 1 \in T PROVE k \in T
  <2>1. PICK f \in [0 .. n -> S] : Upto(k - 1, f)
    BY <1>2
  <2>2. <<k, f[k - 1]>> \in (1 .. n) \X S
    OBVIOUS
  <2> DEFINE g == [i \in 0 .. n |-> IF i = k THEN G[<<k, f[k - 1]>>] ELSE f[i]]
  <2>3. g \in [0 .. n -> S]
    BY <2>2
  <2>4. Upto(k, g)
    <3>1. g[0] = b
      BY <2>1
    <3>2. ASSUME NEW i \in 1 .. k PROVE g[i] = G[<<i, g[i - 1]>>]
      <4>1. CASE i = k
        <5>1. k \in 0 .. n /\ k - 1 \in 0 .. n /\ k - 1 # k
          OBVIOUS
        <5>2. g[k] = G[<<k, f[k - 1]>>] /\ g[k - 1] = f[k - 1]
          BY <5>1
        <5> QED BY <4>1, <5>2
      <4>2. CASE i # k
        <5>1. i \in 1 .. k - 1 /\ i - 1 # k
          BY <4>2
        <5> QED BY <2>1, <4>2, <5>1
      <4> QED BY <4>1, <4>2
    <3> QED BY <3>1, <3>2
  <2> HIDE DEF Upto, g
  <2> QED BY <2>3, <2>4
<1>3. 0 .. n \subseteq T
  <2> HIDE DEF T
  <2> QED BY <1>1, <1>2, SetInduction
<1>4. n \in T
  <2> HIDE DEF T
  <2> QED BY <1>3
<1> QED BY <1>4 DEF Recursion

-----------------------------------------------------------------------------
(***************************************************************************)
(* Sequences.                                                              *)
(***************************************************************************)
LEMMA FirstMatch ==
  ASSUME NEW n \in Nat, NEW I \in SUBSET (1 .. n)
  PROVE  /\ (IF I # {} THEN Min(I) ELSE 0) \in 0 .. n
         /\ I # {} => Min(I) \in I /\ \A i \in I : Min(I) <= i
<1>1. CASE I = {}
  BY <1>1
<1>2. CASE I # {}
  <2>1. \E x \in I : \A y \in I : x <= y
    BY <1>2, Smallest
  <2>2. Min(I) \in I /\ \A i \in I : Min(I) <= i
    BY <2>1 DEF Min
  <2>3. Min(I) \in 0 .. n
    <3>1. I \subseteq 0 .. n
      OBVIOUS
    <3> QED BY ONLY <2>2, <3>1, Zenon
  <2> QED BY <1>2, <2>2, <2>3
<1> QED BY <1>1, <1>2

LEMMA TwoParts ==
  ASSUME NEW S, NEW u \in Seq(S), NEW v \in Seq(S)
  PROVE  /\ u \o v \in Seq(S)
         /\ Len(u \o v) = Len(u) + Len(v)
         /\ \A k \in 1 .. Len(u) : (u \o v)[k] = u[k]
         /\ \A k \in 1 .. Len(v) : (u \o v)[Len(u) + k] = v[k]
<1> DEFINE x == u \o v
<1>1. /\ x \in Seq(S) /\ Len(x) = Len(u) + Len(v)
      /\ \A k \in 1 .. Len(u) + Len(v) :
           x[k] = IF k <= Len(u) THEN u[k] ELSE v[k - Len(u)]
  BY ConcatProperties
<1>2. Len(u) \in Nat /\ Len(v) \in Nat
  OBVIOUS
<1> HIDE DEF x
<1>3. /\ \A k \in 1 .. Len(u) : x[k] = u[k]
      /\ \A k \in 1 .. Len(v) : x[Len(u) + k] = v[k]
  BY <1>1, <1>2
<1> QED BY <1>1, <1>3 DEF x

LEMMA ThreeParts ==
  ASSUME NEW S, NEW u \in Seq(S), NEW v \in Seq(S), NEW w \in Seq(S)
  PROVE  /\ u \o v \o w \in Seq(S)
         /\ Len(u \o v \o w) = Len(u) + Len(v) + Len(w)
         /\ \A k \in 1 .. Len(u) : (u \o v \o w)[k] = u[k]
         /\ \A k \in 1 .. Len(v) : (u \o v \o w)[Len(u) + k] = v[k]
         /\ \A k \in 1 .. Len(w) : (u \o v \o w)[Len(u) + Len(v) + k] = w[k]
<1>1. Len(u) \in Nat /\ Len(v) \in Nat /\ Len(w) \in Nat
  OBVIOUS
<1> DEFINE x == u \o v
           y == x \o w
<1>2. /\ x \in Seq(S) /\ Len(x) = Len(u) + Len(v)
      /\ \A k \in 1 .. Len(u) : x[k] = u[k]
      /\ \A k \in 1 .. Len(v) : x[Len(u) + k] = v[k]
  BY TwoParts
<1> HIDE DEF x
<1>3. x \in Seq(S)
  BY <1>2
<1>4. /\ y \in Seq(S) /\ Len(y) = Len(x) + Len(w)
      /\ \A k \in 1 .. Len(x) : y[k] = x[k]
      /\ \A k \in 1 .. Len(w) : y[Len(x) + k] = w[k]
  BY <1>3, TwoParts
<1> HIDE DEF y
<1>5. /\ \A k \in 1 .. Len(u) : y[k] = u[k]
      /\ \A k \in 1 .. Len(v) : y[Len(u) + k] = v[k]
      /\ \A k \in 1 .. Len(w) : y[Len(u) + Len(v) + k] = w[k]
  <2>1. \A k \in 1 .. Len(u) : k \in 1 .. Len(x)
    BY <1>1, <1>2
  <2>2. \A k \in 1 .. Len(v) : Len(u) + k \in 1 .. Len(x)
    BY <1>1, <1>2
  <2> QED BY <1>2, <1>4, <2>1, <2>2
<1> QED BY <1>2, <1>4, <1>5 DEF x, y

LEMMA ConcatContains ==
  ASSUME NEW S, NEW u \in Seq(S), NEW v \in Seq(S), NEW x
  PROVE  Contains(u \o v, x) <=> Contains(u, x) \/ Contains(v, x)
<1> DEFINE w == u \o v
<1>1. /\ Len(w) = Len(u) + Len(v)
      /\ \A k \in 1 .. Len(u) : w[k] = u[k]
      /\ \A k \in 1 .. Len(v) : w[Len(u) + k] = v[k]
  BY TwoParts
<1>2. Len(u) \in Nat /\ Len(v) \in Nat
  OBVIOUS
<1> HIDE DEF w
<1>3. ASSUME Contains(w, x) PROVE Contains(u, x) \/ Contains(v, x)
  <2>1. PICK k \in 1 .. Len(w) : w[k] = x
    BY <1>3 DEF Contains
  <2>2. CASE k \in 1 .. Len(u)
    BY <1>1, <2>1, <2>2 DEF Contains
  <2>3. CASE k \notin 1 .. Len(u)
    <3>1. k - Len(u) \in 1 .. Len(v) /\ Len(u) + (k - Len(u)) = k
      BY <1>1, <1>2, <2>3
    <3>2. v[k - Len(u)] = x
      BY <1>1, <2>1, <3>1
    <3> QED BY <3>1, <3>2 DEF Contains
  <2> QED BY <2>2, <2>3
<1>4. ASSUME Contains(u, x) PROVE Contains(w, x)
  <2>1. PICK k \in 1 .. Len(u) : u[k] = x
    BY <1>4 DEF Contains
  <2>2. k \in 1 .. Len(w) /\ w[k] = x
    BY <1>1, <1>2, <2>1
  <2> QED BY <2>2 DEF Contains
<1>5. ASSUME Contains(v, x) PROVE Contains(w, x)
  <2>1. PICK k \in 1 .. Len(v) : v[k] = x
    BY <1>5 DEF Contains
  <2>2. Len(u) + k \in 1 .. Len(w) /\ w[Len(u) + k] = x
    BY <1>1, <1>2, <2>1
  <2> QED BY <2>2 DEF Contains
<1> QED BY <1>3, <1>4, <1>5 DEF w

\* No element twice in u followed by v.
LEMMA ConcatInjective ==
  ASSUME NEW S, NEW u \in Seq(S), NEW v \in Seq(S),
         IsInjective(u), IsInjective(v),
         \A x : ~(Contains(u, x) /\ Contains(v, x))
  PROVE  IsInjective(u \o v)
<1> DEFINE w == u \o v
<1>1. /\ w \in Seq(S) /\ Len(w) = Len(u) + Len(v)
      /\ \A k \in 1 .. Len(u) : w[k] = u[k]
      /\ \A k \in 1 .. Len(v) : w[Len(u) + k] = v[k]
  BY TwoParts
<1>2. /\ Len(u) \in Nat /\ Len(v) \in Nat
      /\ DOMAIN u = 1 .. Len(u) /\ DOMAIN v = 1 .. Len(v)
  OBVIOUS
<1>3. \A i \in 1 .. Len(u), j \in 1 .. Len(v) : u[i] # v[j]
  BY DEF Contains
<1> HIDE DEF w
<1>4. DOMAIN w = 1 .. Len(w)
  BY <1>1
<1>5. ASSUME NEW a \in DOMAIN w, NEW b \in DOMAIN w, w[a] = w[b] PROVE a = b
  <2>1. ASSUME NEW k \in DOMAIN w, k \notin 1 .. Len(u)
        PROVE  k - Len(u) \in 1 .. Len(v) /\ w[k] = v[k - Len(u)]
    <3>1. k - Len(u) \in 1 .. Len(v) /\ Len(u) + (k - Len(u)) = k
      BY <1>1, <1>2, <1>4, <2>1
    <3> QED BY <1>1, <3>1
  <2>2. CASE a \in 1 .. Len(u) /\ b \in 1 .. Len(u)
    BY <1>1, <1>2, <1>5, <2>2 DEF IsInjective
  <2>3. CASE a \in 1 .. Len(u) /\ b \notin 1 .. Len(u)
    BY <1>1, <1>3, <1>5, <2>1, <2>3
  <2>4. CASE a \notin 1 .. Len(u) /\ b \in 1 .. Len(u)
    BY <1>1, <1>3, <1>5, <2>1, <2>4
  <2>5. CASE a \notin 1 .. Len(u) /\ b \notin 1 .. Len(u)
    <3>1. a - Len(u) = b - Len(u)
      BY <1>2, <1>5, <2>1, <2>5 DEF IsInjective
    <3> QED BY <1>2, <1>4, <3>1
  <2> QED BY <2>2, <2>3, <2>4, <2>5
<1> QED BY <1>5 DEF IsInjective, w

\* The first k elements of s without those of X.
Filtered(out, s, X, T, k) ==
    /\ out \in Seq(T) /\ Len(out) <= k
    /\ (\E i \in 1 .. k : s[i] \in X) => Len(out) < k
    /\ \A i \in 1 .. k : s[i] \notin X => \E j \in 1 .. Len(out) : out[j] = s[i]
    /\ \A j \in 1 .. Len(out) : out[j] \notin X /\ \E i \in 1 .. k : out[j] = s[i]
    /\ IsInjective(s) => IsInjective(out)

LEMMA WithoutFacts ==
  ASSUME NEW T, NEW s \in Seq(T), NEW X
  PROVE  /\ Without(s, X) \in Seq(T)
         /\ Filtered(Without(s, X), s, X, T, Len(s))
<1> DEFINE n == Len(s)
           step(k, x) == IF s[k] \in X THEN x ELSE Append(x, s[k])
           G == [x \in (1 .. n) \X Seq(T) |-> step(x[1], x[2])]
           Out(g) == g = [k \in 0 .. n |-> IF k = 0 THEN <<>> ELSE step(k, g[k - 1])]
<1>1. n \in Nat
  OBVIOUS
<1>2. \A k \in 1 .. n, x \in Seq(T) : step(k, x) \in Seq(T)
  <2> SUFFICES ASSUME NEW k \in 1 .. n, NEW x \in Seq(T) PROVE step(k, x) \in Seq(T)
    OBVIOUS
  <2>1. s[k] \in T
    BY ElementOfSeq
  <2>2. Append(x, s[k]) \in Seq(T)
    BY <2>1, AppendProperties
  <2> QED BY <2>2
<1>3. PICK f \in [0 .. n -> Seq(T)] : Out(f)
  <2> HIDE DEF n, step
  <2>1. G \in [(1 .. n) \X Seq(T) -> Seq(T)] /\ <<>> \in Seq(T)
    BY <1>2
  <2> HIDE DEF G
  <2>2. Recursion(n, Seq(T), <<>>, G) # {}
    BY <1>1, <2>1, FiniteRecursion
  <2>3. PICK f \in [0 .. n -> Seq(T)] :
           f[0] = <<>> /\ \A k \in 1 .. n : f[k] = G[<<k, f[k - 1]>>]
    BY <2>2 DEF Recursion
  <2>4. \A k \in 1 .. n : f[k] = step(k, f[k - 1])
    <3> SUFFICES ASSUME NEW k \in 1 .. n PROVE f[k] = step(k, f[k - 1])
      OBVIOUS
    <3>1. f[k - 1] \in Seq(T)
      BY <1>1
    <3>2. G[<<k, f[k - 1]>>] = step(k, f[k - 1])
      BY <3>1 DEF G
    <3> QED BY <2>3, <3>2
  <2>5. Out(f)
    BY <1>1, <2>3, <2>4
  <2> QED BY <2>5
<1>4. PICK g : Out(g) /\ Without(s, X) = g[n]
  <2> HIDE DEF G
  <2> QED BY ONLY <1>3, Zenon DEF Without
<1> HIDE DEF n, G, step
<1>5. g[0] = <<>> /\ \A k \in 1 .. n : g[k] = step(k, g[k - 1])
  BY <1>1, <1>4
<1> DEFINE I == {k \in 0 .. n : Filtered(g[k], s, X, T, k)}
<1>6. 0 \in I
  <2>1. g[0] \in Seq(T) /\ Len(g[0]) = 0 /\ 0 \in 0 .. n
    BY <1>1, <1>5
  <2>2. (\A i \in 1 .. 0 : FALSE) /\ (\A j \in 1 .. Len(g[0]) : FALSE)
    BY <2>1
  <2>3. IsInjective(g[0])
    BY <2>1 DEF IsInjective
  <2>4. Filtered(g[0], s, X, T, 0)
    BY ONLY <2>1, <2>2, <2>3 DEF Filtered
  <2> QED BY <2>1, <2>4
<1>7. ASSUME NEW k \in 1 .. n, k - 1 \in I PROVE k \in I
  <2> DEFINE x == g[k - 1]
             y == g[k]
  <2>1. k \in 0 .. n /\ Filtered(x, s, X, T, k - 1)
    BY <1>1, <1>7
  <2>2. y = (IF s[k] \in X THEN x ELSE Append(x, s[k])) /\ s[k] \in T
    BY <1>1, <1>5, ElementOfSeq DEF step, n
  <2> HIDE DEF x, y
  <2>3. ASSUME s[k] \in X PROVE Filtered(y, s, X, T, k)
    <3>1. y = x /\ x \in Seq(T) /\ Len(x) \in Nat /\ Len(x) <= k - 1
      BY <2>1, <2>2, <2>3 DEF Filtered
    <3>2. Len(y) <= k /\ Len(y) < k
      BY <3>1
    <3>3. ASSUME NEW i \in 1 .. k, s[i] \notin X
          PROVE  \E j \in 1 .. Len(y) : y[j] = s[i]
      <4>1. i \in 1 .. k - 1
        BY <2>3, <3>3
      <4> QED BY <2>1, <3>1, <3>3, <4>1 DEF Filtered
    <3>4. ASSUME NEW j \in 1 .. Len(y)
          PROVE  y[j] \notin X /\ \E i \in 1 .. k : y[j] = s[i]
      <4>1. x[j] \notin X /\ \E i \in 1 .. k - 1 : x[j] = s[i]
        BY <2>1, <3>1 DEF Filtered
      <4> QED BY <3>1, <4>1
    <3>5. IsInjective(s) => IsInjective(y)
      BY <2>1, <3>1 DEF Filtered
    <3> QED BY ONLY <3>1, <3>2, <3>3, <3>4, <3>5, Zenon DEF Filtered
  <2>4. ASSUME s[k] \notin X PROVE Filtered(y, s, X, T, k)
    <3>1. /\ y \in Seq(T) /\ Len(y) = Len(x) + 1 /\ Len(x) \in Nat
          /\ \A j \in 1 .. Len(x) : y[j] = x[j]
          /\ y[Len(x) + 1] = s[k]
      BY <2>1, <2>2, <2>4, AppendProperties DEF Filtered
    <3>2. (\E i \in 1 .. k : s[i] \in X) => Len(y) < k
      BY <2>1, <2>4, <3>1 DEF Filtered
    <3>3. ASSUME NEW i \in 1 .. k, s[i] \notin X
          PROVE  \E j \in 1 .. Len(y) : y[j] = s[i]
      <4>1. CASE i = k
        <5>1. Len(x) + 1 \in 1 .. Len(y)
          BY <3>1
        <5> QED BY <3>1, <4>1, <5>1
      <4>2. CASE i # k
        <5>1. PICK j \in 1 .. Len(x) : x[j] = s[i]
          BY <2>1, <3>3, <4>2 DEF Filtered
        <5>2. j \in 1 .. Len(y) /\ y[j] = s[i]
          BY <3>1, <5>1
        <5> QED BY <5>2
      <4> QED BY <4>1, <4>2
    <3>4. Len(y) <= k
      BY <2>1, <3>1 DEF Filtered
    <3>5. ASSUME NEW j \in 1 .. Len(y)
          PROVE  y[j] \notin X /\ \E i \in 1 .. k : y[j] = s[i]
      <4>1. CASE j \in 1 .. Len(x)
        <5>1. x[j] \notin X /\ \E i \in 1 .. k - 1 : x[j] = s[i]
          BY <2>1, <4>1 DEF Filtered
        <5>2. y[j] = x[j]
          BY <3>1, <4>1
        <5> QED BY <5>1, <5>2
      <4>2. CASE j \notin 1 .. Len(x)
        <5>1. j = Len(x) + 1
          BY <3>1, <4>2
        <5> QED BY <2>4, <3>1, <5>1
      <4> QED BY <4>1, <4>2
    <3>6. ASSUME IsInjective(s) PROVE IsInjective(y)
      <4>1. IsInjective(x) /\ DOMAIN x = 1 .. Len(x)
        BY <2>1, <3>6 DEF Filtered
      <4>2. DOMAIN s = 1 .. n
        BY <1>1 DEF n
      <4>3. ASSUME NEW j \in 1 .. Len(x) PROVE x[j] # s[k]
        <5>1. PICK i \in 1 .. k - 1 : x[j] = s[i]
          BY <2>1 DEF Filtered
        <5>2. i \in DOMAIN s /\ k \in DOMAIN s /\ i # k
          BY <1>1, <4>2
        <5> QED BY <3>6, <5>1, <5>2 DEF IsInjective
      <4>4. DOMAIN y = 1 .. Len(x) + 1
        BY <3>1
      <4>5. ASSUME NEW a \in DOMAIN y, NEW b \in DOMAIN y, y[a] = y[b] PROVE a = b
        <5>1. CASE a \in 1 .. Len(x) /\ b \in 1 .. Len(x)
          BY <3>1, <4>1, <4>5, <5>1 DEF IsInjective
        <5>2. CASE a \in 1 .. Len(x) /\ b \notin 1 .. Len(x)
          <6>1. b = Len(x) + 1
            BY <3>1, <4>4, <5>2
          <6> QED BY <3>1, <4>3, <4>5, <5>2, <6>1
        <5>3. CASE a \notin 1 .. Len(x) /\ b \in 1 .. Len(x)
          <6>1. a = Len(x) + 1
            BY <3>1, <4>4, <5>3
          <6> QED BY <3>1, <4>3, <4>5, <5>3, <6>1
        <5>4. CASE a \notin 1 .. Len(x) /\ b \notin 1 .. Len(x)
          BY <3>1, <4>4, <5>4
        <5> QED BY <5>1, <5>2, <5>3, <5>4
      <4> QED BY <4>5 DEF IsInjective
    <3> QED BY ONLY <3>1, <3>2, <3>3, <3>4, <3>5, <3>6, Zenon DEF Filtered
  <2>5. Filtered(y, s, X, T, k)
    BY ONLY <2>3, <2>4, Zenon
  <2> QED BY <2>1, <2>5 DEF y
<1>8. 0 .. n \subseteq I
  <2> HIDE DEF I
  <2> QED BY <1>1, <1>6, <1>7, SetInduction
<1>9. Filtered(g[n], s, X, T, n)
  BY <1>1, <1>8
<1> QED BY <1>4, <1>9 DEF Filtered, n

\* The pieces of a sequence of sequences, put together one after the other.
Pieces(g, s, S) ==
    /\ \A k \in 1 .. Len(s) : g[k] \in Seq(S)
    /\ g[1] = s[1]
    /\ \A k \in 2 .. Len(s) : g[k] = g[k - 1] \o s[k]

LEMMA FlattenSteps ==
  ASSUME NEW S, NEW s \in Seq(Seq(S)), s # <<>>
  PROVE  \E g : Pieces(g, s, S) /\ FlattenSeq(s) = g[Len(s)]
<1> DEFINE n == Len(s)
           G == [x \in (1 .. n) \X Seq(S) |-> x[2] \o s[x[1]]]
           Out(g) == g = [k \in 1 .. n |-> IF k = 1 THEN s[k] ELSE g[k - 1] \o s[k]]
<1>1. n \in Nat /\ n # 0 /\ \A k \in 1 .. n : s[k] \in Seq(S)
  BY ElementOfSeq
<1>2. PICK h \in [0 .. n -> Seq(S)] :
         h[0] = <<>> /\ \A k \in 1 .. n : h[k] = h[k - 1] \o s[k]
  <2>1. G \in [(1 .. n) \X Seq(S) -> Seq(S)]
    <3>1. \A k \in 1 .. n, x \in Seq(S) : x \o s[k] \in Seq(S)
      BY <1>1, ConcatProperties
    <3> HIDE DEF n
    <3> QED BY <3>1
  <2>2. <<>> \in Seq(S)
    OBVIOUS
  <2> HIDE DEF n, G
  <2>3. Recursion(n, Seq(S), <<>>, G) # {}
    BY <1>1, <2>1, <2>2, FiniteRecursion
  <2>4. PICK h \in [0 .. n -> Seq(S)] :
           h[0] = <<>> /\ \A k \in 1 .. n : h[k] = G[<<k, h[k - 1]>>]
    BY <2>3 DEF Recursion
  <2>5. ASSUME NEW k \in 1 .. n PROVE h[k] = h[k - 1] \o s[k]
    <3>1. h[k - 1] \in Seq(S)
      BY <1>1
    <3>2. G[<<k, h[k - 1]>>] = h[k - 1] \o s[k]
      BY <3>1 DEF G
    <3> QED BY <2>4, <3>2
  <2> QED BY <2>4, <2>5
<1> HIDE DEF G
<1> DEFINE f == [k \in 1 .. n |-> h[k]]
<1>3. Out(f)
  <2>1. ASSUME NEW k \in 1 .. n
        PROVE  f[k] = IF k = 1 THEN s[k] ELSE f[k - 1] \o s[k]
    <3>1. CASE k = 1
      <4>1. h[k] = h[k - 1] \o s[k] /\ k - 1 = 0 /\ h[0] = <<>>
        <5> HIDE DEF n
        <5>1. k - 1 = 0
          BY <3>1
        <5>2. h[k] = h[k - 1] \o s[k] /\ h[0] = <<>>
          BY <1>2, Zenon
        <5> QED BY <5>1, <5>2
      <4>2. <<>> \o s[k] = s[k]
        BY <1>1, ConcatEmptySeq
      <4> QED BY <3>1, <4>1, <4>2
    <3>2. CASE k # 1
      <4>1. k - 1 \in 1 .. n
        BY <1>1, <3>2
      <4> QED BY <1>2, <3>2, <4>1
    <3> QED BY <3>1, <3>2
  <2> HIDE DEF n
  <2> QED BY <2>1
<1> HIDE DEF f
<1>4. PICK g : Out(g) /\ FlattenSeq(s) = g[n]
  <2>1. \E g : Out(g) /\ FlattenSeq(s) = g[n]
    <3>1. Len(s) # 0
      BY <1>1
    <3> QED BY ONLY <1>3, <3>1, Zenon DEF FlattenSeq
  <2> QED BY <2>1
<1> HIDE DEF n
<1> DEFINE I == {k \in 0 .. n : k # 0 => g[k] \in Seq(S)}
<1>5. 0 \in I
  BY <1>1
<1>6. ASSUME NEW k \in 1 .. n, k - 1 \in I PROVE k \in I
  <2>1. CASE k = 1
    <3>1. g[1] = s[1] /\ s[1] \in Seq(S)
      BY <1>1, <1>4, <2>1
    <3> QED BY <1>1, <2>1, <3>1
  <2>2. CASE k # 1
    <3>1. g[k] = g[k - 1] \o s[k] /\ s[k] \in Seq(S)
      BY <1>1, <1>4, <2>2
    <3>2. g[k - 1] \in Seq(S)
      BY <1>1, <1>6, <2>2
    <3>3. g[k] \in Seq(S)
      BY <3>1, <3>2, ConcatProperties
    <3> QED BY <1>1, <3>3
  <2> QED BY <2>1, <2>2
<1>7. 0 .. n \subseteq I
  <2> HIDE DEF I
  <2> QED BY <1>1, <1>5, <1>6, SetInduction
<1>8. ASSUME NEW k \in 1 .. n PROVE g[k] \in Seq(S)
  <2>1. k \in 0 .. n /\ k # 0
    OBVIOUS
  <2> QED BY <1>7, <2>1
<1>9. g[1] = s[1] /\ \A k \in 2 .. n : g[k] = g[k - 1] \o s[k]
  <2>1. \A k \in 1 .. n : g[k] = IF k = 1 THEN s[k] ELSE g[k - 1] \o s[k]
    BY <1>4
  <2>2. 1 \in 1 .. n /\ \A k \in 2 .. n : k \in 1 .. n /\ k # 1
    BY <1>1
  <2> QED BY <2>1, <2>2, Zenon
<1>10. Pieces(g, s, S)
  BY <1>8, <1>9 DEF Pieces, n
<1> QED BY <1>4, <1>10 DEF n

LEMMA FlattenType ==
  ASSUME NEW S, NEW s \in Seq(Seq(S))
  PROVE  FlattenSeq(s) \in Seq(S)
<1>1. CASE s = <<>>
  <2>1. FlattenSeq(s) = <<>>
    BY <1>1 DEF FlattenSeq
  <2> QED BY <2>1
<1>2. CASE s # <<>>
  <2>1. PICK g : Pieces(g, s, S) /\ FlattenSeq(s) = g[Len(s)]
    BY <1>2, FlattenSteps
  <2>2. Len(s) \in 1 .. Len(s)
    BY <1>2
  <2> QED BY <2>1, <2>2 DEF Pieces
<1> QED BY <1>1, <1>2

\* Pieces without repetitions that have nothing in common.
LEMMA FlattenInjective ==
  ASSUME NEW S, NEW s \in Seq(Seq(S)),
         \A k \in 1 .. Len(s) : IsInjective(s[k]),
         \A k, m \in 1 .. Len(s) :
            k # m => \A x : ~(Contains(s[k], x) /\ Contains(s[m], x))
  PROVE  IsInjective(FlattenSeq(s))
<1>1. CASE s = <<>>
  <2>1. FlattenSeq(s) = <<>>
    BY <1>1 DEF FlattenSeq
  <2> QED BY <2>1 DEF IsInjective
<1>2. CASE s # <<>>
  <2> DEFINE n == Len(s)
  <2>1. PICK g : Pieces(g, s, S) /\ FlattenSeq(s) = g[n]
    BY <1>2, FlattenSteps
  <2>2. /\ \A k \in 1 .. n : g[k] \in Seq(S)
        /\ g[1] = s[1]
        /\ \A k \in 2 .. n : g[k] = g[k - 1] \o s[k]
    BY <2>1 DEF Pieces
  <2>3. n \in Nat /\ n # 0 /\ \A k \in 1 .. n : s[k] \in Seq(S)
    BY <1>2, ElementOfSeq
  <2> DEFINE Good(k) == /\ IsInjective(g[k])
                        /\ \A x : Contains(g[k], x) => \E m \in 1 .. k : Contains(s[m], x)
             I == {k \in 0 .. n : k # 0 => Good(k)}
  <2>4. 0 \in I
    BY <2>3
  <2>5. ASSUME NEW k \in 1 .. n, k - 1 \in I PROVE k \in I
    <3>1. k \in 0 .. n /\ k # 0
      OBVIOUS
    <3>2. CASE k = 1
      <4>1. g[k] = s[k] /\ IsInjective(s[k]) /\ k \in 1 .. k
        BY <2>2, <3>2
      <4>2. Good(k)
        BY <4>1
      <4> QED BY <3>1, <4>2
    <3>3. CASE k # 1
      <4> DEFINE u == g[k - 1]
                 v == s[k]
      <4>1. k - 1 \in 1 .. n /\ k \in 2 .. n
        BY <2>3, <3>3
      <4>2. Good(k - 1)
        BY <2>5, <4>1
      <4>3. u \in Seq(S) /\ v \in Seq(S) /\ g[k] = u \o v
        BY <2>2, <2>3, <4>1
      <4>4. IsInjective(u) /\ IsInjective(v)
        BY <4>2
      <4>5. \A x : Contains(u, x) => \E m \in 1 .. k - 1 : Contains(s[m], x)
        BY <4>2
      <4>6. ASSUME NEW x PROVE ~(Contains(u, x) /\ Contains(v, x))
        <5> SUFFICES ASSUME Contains(u, x), Contains(v, x) PROVE FALSE
          OBVIOUS
        <5>1. PICK m \in 1 .. k - 1 : Contains(s[m], x)
          BY <4>5
        <5>2. m \in 1 .. n /\ m # k
          BY <2>3
        <5> QED BY <5>1, <5>2
      <4>7. \A x : Contains(v, x) => \E m \in 1 .. k : Contains(s[m], x)
        BY <4>1
      <4> HIDE DEF u, v
      <4>8. IsInjective(u \o v)
        BY <4>3, <4>4, <4>6, ConcatInjective
      <4>9. ASSUME NEW x, Contains(u \o v, x)
            PROVE  \E m \in 1 .. k : Contains(s[m], x)
        <5>1. Contains(u, x) \/ Contains(v, x)
          BY <4>3, <4>9, ConcatContains
        <5>2. 1 .. k - 1 \subseteq 1 .. k
          BY <4>1
        <5> QED BY <4>5, <4>7, <5>1, <5>2
      <4>10. Good(k)
        BY <4>3, <4>8, <4>9
      <4> HIDE DEF Good
      <4> QED BY <3>1, <4>10
    <3> QED BY <3>2, <3>3
  <2>6. 0 .. n \subseteq I
    <3> HIDE DEF n, I
    <3> QED BY <2>3, <2>4, <2>5, SetInduction
  <2>7. Good(n)
    <3>1. n \in 0 .. n /\ n # 0
      BY <2>3
    <3> HIDE DEF n, Good
    <3> QED BY <2>6, <3>1
  <2> QED BY <2>1, <2>7
<1> QED BY <1>1, <1>2

-----------------------------------------------------------------------------
(***************************************************************************)
(* Division.                                                               *)
(***************************************************************************)
LEMMA DivMod ==
  ASSUME NEW w \in Int, NEW d \in Nat \ {0}
  PROVE  /\ w \div d \in Int /\ w % d \in 0 .. d - 1
         /\ w = d * (w \div d) + (w % d)
<1>1. w \div d \in Int /\ w % d \in 0 .. d - 1
  OBVIOUS
<1>2. w = d * (w \div d) + (w % d)
  OBVIOUS
<1> QED BY <1>1, <1>2

LEMMA DivModUnique ==
  ASSUME NEW d \in Nat \ {0}, NEW q \in Int, NEW r \in 0 .. d - 1,
         NEW w \in Int, w = d * q + r
  PROVE  w \div d = q /\ w % d = r
<1> DEFINE p == w \div d
           s == w % d
<1>1. p \in Int /\ s \in 0 .. d - 1 /\ w = d * p + s
  BY DivMod
<1> HIDE DEF p, s
<1>2. d * (p - q) = r - s
  BY <1>1
<1>3. CASE p - q >= 1
  <2>1. d * (p - q - 1) >= 0
    BY <1>1, <1>3
  <2> QED BY <2>1, <1>1, <1>2
<1>4. CASE q - p >= 1
  <2>1. d * (q - p - 1) >= 0
    BY <1>1, <1>4
  <2> QED BY <2>1, <1>1, <1>2
<1>5. p = q /\ r = s
  BY <1>1, <1>2, <1>3, <1>4
<1> QED BY <1>5 DEF p, s

\* The digits of w below P, and its next digit to the base B.
LEMMA NextDigit ==
  ASSUME NEW w \in Int, NEW P \in Nat \ {0}, NEW B \in Nat \ {0}
  PROVE  (w % P) + ((w \div P) % B) * P = w % (P * B)
<1> DEFINE q == w \div P
           r == w % P
           t == q \div B
           s == q % B
<1>1. q \in Int /\ r \in 0 .. P - 1 /\ w = P * q + r
  BY DivMod
<1>2. t \in Int /\ s \in 0 .. B - 1 /\ q = B * t + s
  <2> HIDE DEF q, r
  <2> QED BY <1>1, DivMod
<1> HIDE DEF q, r, s, t
<1> DEFINE D == P * B
           x == s * P + r
<1>3. D \in Nat \ {0} /\ x \in Int /\ w = D * t + x
  BY <1>1, <1>2
<1>4. s * P >= 0 /\ (B - 1 - s) * P >= 0
  BY <1>2
<1>5. x \in 0 .. D - 1
  BY <1>1, <1>2, <1>4
<1> HIDE DEF D, x
<1>6. w % D = x
  BY <1>2, <1>3, <1>5, DivModUnique
<1> QED BY <1>1, <1>2, <1>6 DEF q, r, s, D, x

-----------------------------------------------------------------------------
(***************************************************************************)
(* Words.                                                                  *)
(***************************************************************************)
LEMMA WeightFacts ==
  /\ \A k \in 0 .. WordLen : Weight[k] \in Nat \ {0}
  /\ Weight[0] = 1
  /\ \A k \in 1 .. WordLen : Weight[k] = Weight[k - 1] * ByteMod
<1> USE MachineAssumption
<1> DEFINE S == Nat \ {0}
           G == [x \in (1 .. WordLen) \X S |-> x[2] * ByteMod]
<1>1. /\ G \in [(1 .. WordLen) \X S -> S]
      /\ 1 \in S /\ WordLen \in Nat
  OBVIOUS
<1>2. PICK f \in [0 .. WordLen -> S] :
         f[0] = 1 /\ \A k \in 1 .. WordLen : f[k] = G[<<k, f[k - 1]>>]
  <2>1. Recursion(WordLen, S, 1, G) # {}
    <3> HIDE DEF G, S
    <3> QED BY <1>1, FiniteRecursion
  <2> HIDE DEF G, S
  <2> QED BY <2>1 DEF Recursion
<1>3. \A k \in 1 .. WordLen : f[k] = f[k - 1] * ByteMod
  <2> SUFFICES ASSUME NEW k \in 1 .. WordLen PROVE f[k] = f[k - 1] * ByteMod
    OBVIOUS
  <2>1. f[k - 1] \in Nat \ {0}
    OBVIOUS
  <2> QED BY <1>2, <2>1
<1>4. f = [k \in 0 .. WordLen |-> IF k = 0 THEN 1 ELSE f[k - 1] * ByteMod]
  BY <1>2, <1>3
<1>5. Weight = [k \in 0 .. WordLen |-> IF k = 0 THEN 1 ELSE Weight[k - 1] * ByteMod]
  BY <1>4 DEF Weight
<1> HIDE DEF G
<1>6. Weight[0] = 1 /\ \A k \in 1 .. WordLen : Weight[k] = Weight[k - 1] * ByteMod
  BY <1>5
<1> DEFINE T == {k \in 0 .. WordLen : Weight[k] \in Nat \ {0}}
<1>7. 0 .. WordLen \subseteq T
  <2>1. 0 \in T
    BY <1>6
  <2>2. ASSUME NEW k \in 1 .. WordLen, k - 1 \in T PROVE k \in T
    <3>1. k \in 0 .. WordLen /\ Weight[k - 1] \in Nat \ {0}
      BY <2>2
    <3>2. Weight[k - 1] * ByteMod \in Nat \ {0}
      BY <3>1
    <3> QED BY <1>6, <3>1, <3>2
  <2> HIDE DEF T
  <2> QED BY <2>1, <2>2, SetInduction
<1> QED BY <1>6, <1>7

LEMMA WordModFacts ==
  /\ WordMod \in Nat \ {0} /\ WordLen \in Nat \ {0} /\ ByteMod \in Nat \ {0}
  /\ InstrLen \in Nat \ {0} /\ WordMod > Len(Mnemonics)
BY WeightFacts, MachineAssumption DEF WordMod, InstrLen

\* The recursion in WordOf defines a function, whatever integers b holds.
LEMMA WordOfFacts ==
  ASSUME NEW b \in [1 .. WordLen -> Int]
  PROVE  \E low \in [0 .. WordLen -> Int] :
            /\ low[0] = 0
            /\ \A k \in 1 .. WordLen : low[k] = low[k - 1] + b[k] * Weight[k - 1]
            /\ WordOf(b) = low[WordLen]
<1>a. WordLen \in Nat \ {0} /\ \A k \in 0 .. WordLen : Weight[k] \in Int
  BY WordModFacts, WeightFacts
<1> DEFINE G == [x \in (1 .. WordLen) \X Int |-> x[2] + b[x[1]] * Weight[x[1] - 1]]
<1>1. /\ G \in [(1 .. WordLen) \X Int -> Int]
      /\ 0 \in Int /\ WordLen \in Nat
  <2>1. ASSUME NEW x \in (1 .. WordLen) \X Int
        PROVE  x[2] + b[x[1]] * Weight[x[1] - 1] \in Int
    <3>1. x[1] \in 1 .. WordLen /\ x[2] \in Int /\ x[1] - 1 \in 0 .. WordLen
      BY <1>a
    <3>2. b[x[1]] \in Int /\ Weight[x[1] - 1] \in Int
      BY <1>a, <3>1
    <3> QED BY ONLY <3>1, <3>2
  <2> QED BY <1>a, <2>1
<1>2. PICK f \in [0 .. WordLen -> Int] :
         f[0] = 0 /\ \A k \in 1 .. WordLen : f[k] = G[<<k, f[k - 1]>>]
  <2> HIDE DEF G
  <2>1. Recursion(WordLen, Int, 0, G) # {}
    BY <1>1, FiniteRecursion
  <2> QED BY <2>1 DEF Recursion
<1>3. \A k \in 1 .. WordLen : f[k] = f[k - 1] + b[k] * Weight[k - 1]
  <2> SUFFICES ASSUME NEW k \in 1 .. WordLen
               PROVE  f[k] = f[k - 1] + b[k] * Weight[k - 1]
    OBVIOUS
  <2> HIDE DEF G
  <2>1. f[k - 1] \in Int /\ <<k, f[k - 1]>> \in (1 .. WordLen) \X Int
    BY <1>a
  <2>2. f[k] = G[<<k, f[k - 1]>>]
    BY <1>2
  <2> QED BY ONLY <2>1, <2>2 DEF G
<1> HIDE DEF G
<1> DEFINE Low(g) == g = [k \in 0 .. WordLen |->
                            IF k = 0 THEN 0 ELSE g[k - 1] + b[k] * Weight[k - 1]]
<1>4. Low(f)
  BY <1>2, <1>3
<1>5. PICK g : Low(g) /\ WordOf(b) = g[WordLen]
  BY ONLY <1>4, Zenon DEF WordOf
<1>6. g[0] = 0 /\ \A k \in 1 .. WordLen : g[k] = g[k - 1] + b[k] * Weight[k - 1]
  BY <1>a, <1>5
<1> DEFINE T == {k \in 0 .. WordLen : g[k] \in Int}
<1>7. 0 .. WordLen \subseteq T
  <2>1. 0 \in T
    BY <1>a, <1>6
  <2>2. ASSUME NEW k \in 1 .. WordLen, k - 1 \in T PROVE k \in T
    <3>1. k \in 0 .. WordLen /\ g[k - 1] \in Int
      BY <1>a, <2>2
    <3>2. b[k] \in Int /\ Weight[k - 1] \in Int
      BY <1>a
    <3>3. b[k] * Weight[k - 1] \in Int
      BY ONLY <3>2
    <3>4. g[k] = g[k - 1] + b[k] * Weight[k - 1]
      BY <1>6
    <3>5. g[k] \in Int
      <4> HIDE DEF T
      <4> QED BY ONLY <3>1, <3>3, <3>4
    <3> QED BY <3>1, <3>5
  <2> HIDE DEF T
  <2> QED BY <1>a, <2>1, <2>2, SetInduction
<1>8. g \in [0 .. WordLen -> Int]
  BY <1>5, <1>7
<1> QED BY <1>5, <1>6, <1>8

\* Bytes make a word.
LEMMA WordOfBytes ==
  ASSUME NEW b \in [1 .. WordLen -> Byte]
  PROVE  WordOf(b) \in 0 .. WordMod - 1
<1>1. b \in [1 .. WordLen -> Int]
  BY WordModFacts DEF Byte
<1>2. PICK low \in [0 .. WordLen -> Int] :
        /\ low[0] = 0
        /\ \A k \in 1 .. WordLen : low[k] = low[k - 1] + b[k] * Weight[k - 1]
        /\ WordOf(b) = low[WordLen]
  BY <1>1, WordOfFacts
<1> DEFINE T == {k \in 0 .. WordLen : low[k] \in 0 .. Weight[k] - 1}
<1>3. 0 \in T
  BY <1>2, WeightFacts, WordModFacts
<1>4. ASSUME NEW k \in 1 .. WordLen, k - 1 \in T PROVE k \in T
  <2> DEFINE P == Weight[k - 1]
             c == b[k]
             l == low[k - 1]
  <2>1. k - 1 \in 0 .. WordLen /\ k \in 0 .. WordLen
    BY WordModFacts
  <2>2. P \in Nat \ {0} /\ Weight[k] = P * ByteMod /\ ByteMod \in Nat \ {0}
    BY <2>1, WeightFacts, WordModFacts
  <2>3. low[k] = l + c * P /\ l \in 0 .. P - 1 /\ c \in 0 .. ByteMod - 1
    BY <1>2, <1>4 DEF Byte
  <2> HIDE DEF P, c, l
  <2>4. c * P >= 0 /\ (ByteMod - 1 - c) * P >= 0
    BY <2>2, <2>3
  <2>5. (ByteMod - 1 - c) * P = P * ByteMod - P - c * P
    BY <2>2, <2>3
  <2>6. l + c * P \in 0 .. P * ByteMod - 1
    BY <2>2, <2>3, <2>4, <2>5
  <2> QED BY <2>1, <2>2, <2>3, <2>6
<1>5. WordLen \in T
  <2> HIDE DEF T
  <2>1. 0 .. WordLen \subseteq T
    BY <1>3, <1>4, SetInduction, WordModFacts
  <2> QED BY <2>1, WordModFacts
<1> QED BY <1>2, <1>5 DEF WordMod

LEMMA BytesOfType ==
  ASSUME NEW w \in Int
  PROVE  /\ BytesOf(w) \in [1 .. WordLen -> Byte]
         /\ \A k \in 1 .. WordLen : BytesOf(w)[k] = (w \div Weight[k - 1]) % ByteMod
<1>1. ASSUME NEW k \in 1 .. WordLen PROVE (w \div Weight[k - 1]) % ByteMod \in Byte
  <2>1. Weight[k - 1] \in Nat \ {0}
    BY WeightFacts, WordModFacts
  <2>2. w \div Weight[k - 1] \in Int
    BY <2>1, DivMod
  <2> QED BY <2>2, DivMod, WordModFacts DEF Byte
<1> QED BY <1>1 DEF BytesOf

\* What emit32 and write32 take apart, read32 puts together again: the word
\* that comes back is the number cut to the width of a word.
THEOREM WordRoundTrip == \A w \in Int : WordOf(BytesOf(w)) = AsUint32(w)
<1> SUFFICES ASSUME NEW w \in Int PROVE WordOf(BytesOf(w)) = AsUint32(w)
  OBVIOUS
<1> DEFINE b == BytesOf(w)
<1>1. b \in [1 .. WordLen -> Int]
  <2>1. b \in [1 .. WordLen -> Byte]
    BY BytesOfType
  <2>2. Byte \subseteq Int
    BY DEF Byte
  <2> HIDE DEF b
  <2> QED BY <2>1, <2>2
<1>2. \A k \in 1 .. WordLen : b[k] = (w \div Weight[k - 1]) % ByteMod
  BY BytesOfType
<1> HIDE DEF b
<1>3. PICK low \in [0 .. WordLen -> Int] :
        /\ low[0] = 0
        /\ \A k \in 1 .. WordLen : low[k] = low[k - 1] + b[k] * Weight[k - 1]
        /\ WordOf(b) = low[WordLen]
  BY <1>1, WordOfFacts
<1> DEFINE T == {k \in 0 .. WordLen : low[k] = w % Weight[k]}
<1>4. 0 \in T
  BY <1>3, WeightFacts, WordModFacts
<1>5. ASSUME NEW k \in 1 .. WordLen, k - 1 \in T PROVE k \in T
  <2> DEFINE P == Weight[k - 1]
  <2>1. k - 1 \in 0 .. WordLen /\ k \in 0 .. WordLen
    BY WordModFacts
  <2>2. P \in Nat \ {0} /\ Weight[k] = P * ByteMod
    BY <2>1, WeightFacts
  <2>3. low[k] = low[k - 1] + b[k] * P
    BY <1>3
  <2>4. low[k - 1] = w % P /\ b[k] = (w \div P) % ByteMod
    BY <1>2, <1>5
  <2> HIDE DEF P
  <2>5. (w % P) + ((w \div P) % ByteMod) * P = w % (P * ByteMod)
    BY <2>2, NextDigit, WordModFacts
  <2>6. low[k] = w % Weight[k]
    BY <2>2, <2>3, <2>4, <2>5
  <2> QED BY <2>1, <2>6
<1>6. WordLen \in T
  <2> HIDE DEF T
  <2>1. 0 .. WordLen \subseteq T
    BY <1>4, <1>5, SetInduction, WordModFacts
  <2> QED BY <2>1, WordModFacts
<1> QED BY <1>3, <1>6 DEF AsUint32, WordMod, b

LEMMA Word ==
  ASSUME NEW w \in 0 .. WordMod - 1
  PROVE  AsUint32(w) = w
<1>1. w = WordMod * 0 + w /\ w \in Int
  BY WordModFacts
<1> QED BY <1>1, DivModUnique, WordModFacts DEF AsUint32

LEMMA ModPlus ==
  ASSUME NEW n \in Int, NEW h \in Int, NEW d \in Nat \ {0}
  PROVE  ((n % d) + h) % d = (n + h) % d
<1> DEFINE q == n \div d
           r == n % d
           t == (r + h) \div d
           s == (r + h) % d
<1>1. q \in Int /\ r \in 0 .. d - 1 /\ n = d * q + r
  BY DivMod
<1>2. t \in Int /\ s \in 0 .. d - 1 /\ r + h = d * t + s
  <2> HIDE DEF q, r
  <2>1. r + h \in Int
    BY <1>1
  <2> QED BY <2>1, DivMod
<1> HIDE DEF q, r, s, t
<1>3. n + h = d * (q + t) + s
  BY <1>1, <1>2
<1>4. (n + h) % d = s
  <2> DEFINE x == n + h
             y == q + t
  <2>1. x \in Int /\ y \in Int /\ x = d * y + s
    BY <1>1, <1>2, <1>3
  <2> HIDE DEF x, y
  <2>2. x % d = s
    BY <2>1, <1>2, DivModUnique
  <2> QED BY <2>2 DEF x
<1> QED BY <1>4 DEF r, s

\* A word that was cut out of a number has the number's value as an int32_t.
LEMMA CastFacts ==
  ASSUME NEW n \in Int
  PROVE  /\ AsUint32(n) \in 0 .. WordMod - 1
         /\ AsInt32(n) \in Int
         /\ AsInt32(AsUint32(n)) = AsInt32(n)
<1>1. WordMod \div 2 \in Int
  BY WordModFacts
<1>2. AsUint32(n) \in 0 .. WordMod - 1
  BY DivMod, WordModFacts DEF AsUint32
<1>3. ((n % WordMod) + (WordMod \div 2)) % WordMod = (n + (WordMod \div 2)) % WordMod
  BY <1>1, ModPlus, WordModFacts
<1>4. (n + (WordMod \div 2)) % WordMod \in Int
  BY <1>1, DivMod, WordModFacts
<1> QED BY <1>1, <1>2, <1>3, <1>4 DEF AsInt32, AsUint32

=============================================================================
