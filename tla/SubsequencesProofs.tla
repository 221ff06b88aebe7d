-------------------------- MODULE SubsequencesProofs --------------------------
(***************************************************************************)
(* What a filtered sequence has, and induction over the naturals, which    *)
(* the proofs about recursive functions rest on.                           *)
(***************************************************************************)
EXTENDS Subsequences, SequencesExt, NaturalsInduction, WellFoundedInduction, TLAPS

(***************************************************************************)
(* Induction over the naturals, of a set instead of a formula.             *)
(***************************************************************************)
LEMMA NatSetInduction ==
    ASSUME NEW B, 0 \in B, \A n \in Nat : n \in B => n + 1 \in B
    PROVE  Nat \subseteq B
<1> DEFINE R == OpToRel(<, Nat)
           S == {n \in Nat : n \notin B}
<1> SUFFICES ASSUME S # {} PROVE FALSE
  OBVIOUS
<1>1. PICK k \in S : \A j \in S : ~(<<j, k>> \in R)
  <2>1. IsWellFoundedOn(R, Nat) /\ S \subseteq Nat
    BY NatLessThanWellFounded
  <2> HIDE DEF R, S
  <2> QED BY <2>1, WFMin
<1>2. k \in Nat /\ k # 0
  OBVIOUS
<1>3. k - 1 \in Nat /\ k - 1 < k
  BY <1>2
<1>4. <<k - 1, k>> \in R
  BY <1>2, <1>3 DEF OpToRel
<1>5. k - 1 \in B
  BY <1>1, <1>3, <1>4
<1> QED BY <1>2, <1>3, <1>5

(***************************************************************************)
(* The members of a set that a sequence has, in its order.                 *)
(***************************************************************************)
LEMMA AmongEquation ==
    ASSUME NEW T, NEW s \in Seq(T), NEW S
    PROVE  \E f :
        /\ f = [n \in 0 .. Len(s) |-> IF n = 0 THEN <<>>
                      ELSE IF s[n] \in S THEN Append(f[n - 1], s[n]) ELSE f[n - 1]]
        /\ Among(s, S) = f[Len(s)]
<1> DEFINE N == Len(s)
           Grown(n, q) == IF s[n] \in S THEN Append(q, s[n]) ELSE q
           Eq(f, n) == f = [i \in 0 .. n |-> IF i = 0 THEN <<>> ELSE Grown(i, f[i - 1])]
           B == {n \in Nat : \E f : Eq(f, n)}
<1>1. 0 \in B
  <2> DEFINE f == [i \in 0 .. 0 |-> <<>>]
  <2>1. Eq(f, 0)
    OBVIOUS
  <2> QED BY <2>1
<1>2. ASSUME NEW n \in Nat, n \in B PROVE n + 1 \in B
  <2>1. PICK f : Eq(f, n)
    BY <1>2
  <2> DEFINE g == [i \in 0 .. n + 1 |-> IF i = n + 1 THEN Grown(n + 1, f[n]) ELSE f[i]]
  <2>2. Eq(g, n + 1)
    <3>1. \A i \in 0 .. n : g[i] = f[i]
      OBVIOUS
    <3>2. \A i \in 0 .. n : g[i] = IF i = 0 THEN <<>> ELSE Grown(i, g[i - 1])
      <4> SUFFICES ASSUME NEW i \in 0 .. n PROVE g[i] = IF i = 0 THEN <<>> ELSE Grown(i, g[i - 1])
        OBVIOUS
      <4>1. f[i] = IF i = 0 THEN <<>> ELSE Grown(i, f[i - 1])
        BY <2>1
      <4>2. i # 0 => i - 1 \in 0 .. n
        OBVIOUS
      <4> HIDE DEF g, Grown
      <4> QED BY <3>1, <4>1, <4>2
    <3>3. g[n + 1] = Grown(n + 1, g[n])
      <4>1. n \in 0 .. n
        OBVIOUS
      <4>2. g[n + 1] = Grown(n + 1, f[n])
        OBVIOUS
      <4> HIDE DEF g, Grown
      <4> QED BY <3>1, <4>1, <4>2
    <3>4. \A i \in 0 .. n + 1 : g[i] = IF i = 0 THEN <<>> ELSE Grown(i, g[i - 1])
      <4> SUFFICES ASSUME NEW i \in 0 .. n + 1 PROVE g[i] = IF i = 0 THEN <<>> ELSE Grown(i, g[i - 1])
        OBVIOUS
      <4>1. i \in 0 .. n \/ (i = n + 1 /\ i # 0 /\ i - 1 = n)
        OBVIOUS
      <4> HIDE DEF g, Grown
      <4>2. CASE i \in 0 .. n
        BY <3>2, <4>2
      <4>3. CASE i = n + 1 /\ i # 0 /\ i - 1 = n
        BY <3>3, <4>3
      <4> QED BY <4>1, <4>2, <4>3
    <3>5. g = [i \in 0 .. n + 1 |-> g[i]]
      OBVIOUS
    <3> DEFINE h == [i \in 0 .. n + 1 |-> IF i = 0 THEN <<>> ELSE Grown(i, g[i - 1])]
    <3>6. \A i \in 0 .. n + 1 : h[i] = IF i = 0 THEN <<>> ELSE Grown(i, g[i - 1])
      <4> HIDE DEF g, Grown
      <4> QED OBVIOUS
    <3>7. h = [i \in 0 .. n + 1 |-> h[i]]
      <4> HIDE DEF g, Grown
      <4> QED OBVIOUS
    <3>8. g = h
      <4> HIDE DEF g, Grown, h
      <4>1. \A i \in 0 .. n + 1 : g[i] = h[i]
        BY <3>4, <3>6
      <4> QED BY <3>5, <3>7, <4>1
    <3> QED BY <3>8
  <2> HIDE DEF g, Eq
  <2> QED BY <2>2
<1>3. N \in B
  <2>1. N \in Nat
    OBVIOUS
  <2> HIDE DEF B
  <2> QED BY <1>1, <1>2, <2>1, NatSetInduction
<1>4. \E f : Eq(f, N)
  BY <1>3
<1> DEFINE F == CHOOSE f : Eq(f, N)
<1>5. Eq(F, N)
  BY <1>4
<1>6. Among(s, S) = F[N]
  BY DEF Among
<1> HIDE DEF F
<1> QED BY <1>5, <1>6

Distinct(s) == \A i, j \in 1 .. Len(s) : s[i] = s[j] => i = j

LEMMA Appended ==
    ASSUME NEW T, NEW q \in Seq(T), NEW x \in T
    PROVE  /\ Append(q, x) \in Seq(T) /\ ToSet(Append(q, x)) = ToSet(q) \cup {x}
           /\ Distinct(q) /\ x \notin ToSet(q) => Distinct(Append(q, x))
<1> DEFINE r == Append(q, x)
           n == Len(q)
<1>1. /\ r \in Seq(T) /\ Len(r) = n + 1 /\ n \in Nat
      /\ r[n + 1] = x /\ \A i \in 1 .. n : r[i] = q[i]
  OBVIOUS
<1>2. DOMAIN q = 1 .. n /\ DOMAIN r = 1 .. n + 1
  BY <1>1
<1> HIDE DEF r, n
<1>3. ToSet(r) = ToSet(q) \cup {x}
  <2>1. \A i : i \in 1 .. n + 1 <=> i \in 1 .. n \/ i = n + 1
    BY <1>1
  <2> QED BY <1>1, <1>2, <2>1 DEF ToSet
<1>4. ASSUME Distinct(q), x \notin ToSet(q) PROVE Distinct(r)
  <2>1. \A i \in 1 .. n : q[i] # x
    BY <1>2, <1>4 DEF ToSet
  <2>2. \A i \in 1 .. n + 1 : i \in 1 .. n \/ i = n + 1
    BY <1>1
  <2>3. \A i, j \in 1 .. n : q[i] = q[j] => i = j
    BY <1>4 DEF Distinct, n
  <2> SUFFICES ASSUME NEW i \in 1 .. n + 1, NEW j \in 1 .. n + 1, r[i] = r[j] PROVE i = j
    BY <1>1 DEF Distinct
  <2> QED BY <1>1, <2>1, <2>2, <2>3
<1> QED BY <1>1, <1>3, <1>4 DEF r

LEMMA AmongRight ==
    ASSUME NEW T, NEW s \in Seq(T), NEW S
    PROVE  /\ Among(s, S) \in Seq(T) /\ ToSet(Among(s, S)) = ToSet(s) \cap S
           /\ Distinct(s) => Distinct(Among(s, S))
<1> DEFINE N == Len(s)
           Before(n) == {s[i] : i \in 1 .. n}
<1>1. PICK f : /\ f = [n \in 0 .. N |-> IF n = 0 THEN <<>>
                         ELSE IF s[n] \in S THEN Append(f[n - 1], s[n]) ELSE f[n - 1]]
               /\ Among(s, S) = f[N]
  BY AmongEquation
<1>2. N \in Nat /\ (\A i \in 1 .. N : s[i] \in T) /\ Before(N) = ToSet(s)
  BY DEF ToSet
<1> HIDE DEF N
<1>3. \A n \in 0 .. N : f[n] = IF n = 0 THEN <<>>
                               ELSE IF s[n] \in S THEN Append(f[n - 1], s[n]) ELSE f[n - 1]
  BY <1>1
<1>4. f[0] = <<>>
  BY <1>2, <1>3
<1>5. \A n \in Nat : n + 1 <= N => f[n + 1] = IF s[n + 1] \in S THEN Append(f[n], s[n + 1]) ELSE f[n]
  <2> SUFFICES ASSUME NEW n \in Nat, n + 1 <= N
               PROVE  f[n + 1] = IF s[n + 1] \in S THEN Append(f[n], s[n + 1]) ELSE f[n]
    OBVIOUS
  <2>1. n + 1 \in 0 .. N /\ n + 1 # 0 /\ n + 1 - 1 = n
    BY <1>2
  <2> QED BY <1>3, <2>1
<1> DEFINE Holds(n) == /\ f[n] \in Seq(T) /\ ToSet(f[n]) = Before(n) \cap S
                       /\ Distinct(s) => Distinct(f[n])
           B == {n \in Nat : n <= N => Holds(n)}
<1>6. 0 \in B
  <2>1. <<>> \in Seq(T) /\ ToSet(<<>>) = {} /\ Distinct(<<>>) /\ Before(0) = {}
    BY DEF ToSet, Distinct
  <2> QED BY <1>4, <2>1
<1>7. ASSUME NEW n \in Nat, n \in B PROVE n + 1 \in B
  <2> SUFFICES ASSUME n + 1 <= N PROVE Holds(n + 1)
    OBVIOUS
  <2>1. Holds(n)
    BY <1>2, <1>7
  <2>2. n + 1 \in 1 .. N /\ n + 1 > n /\ 1 .. n \subseteq 1 .. N
    BY <1>2
  <2> DEFINE x == s[n + 1]
  <2>3. x \in T /\ Before(n + 1) = Before(n) \cup {x}
    <3>1. \A i : i \in 1 .. n + 1 <=> i \in 1 .. n \/ i = n + 1
      OBVIOUS
    <3> QED BY <1>2, <2>2, <3>1
  <2>4. Distinct(s) => x \notin Before(n)
    <3> SUFFICES ASSUME Distinct(s), NEW i \in 1 .. n, s[i] = x PROVE FALSE
      OBVIOUS
    <3>1. i \in 1 .. N /\ n + 1 # i
      BY <2>2
    <3> QED BY <2>2, <3>1 DEF Distinct, N
  <2>5. f[n + 1] = IF x \in S THEN Append(f[n], x) ELSE f[n]
    BY <1>5
  <2> HIDE DEF Before, x
  <2>6. CASE x \in S
    <3>1. f[n + 1] = Append(f[n], x)
      BY <2>5, <2>6
    <3>2. /\ Append(f[n], x) \in Seq(T) /\ ToSet(Append(f[n], x)) = ToSet(f[n]) \cup {x}
          /\ Distinct(f[n]) /\ x \notin ToSet(f[n]) => Distinct(Append(f[n], x))
      BY <2>1, <2>3, Appended
    <3> QED BY <2>1, <2>3, <2>4, <2>6, <3>1, <3>2
  <2>7. CASE x \notin S
    <3>1. f[n + 1] = f[n]
      BY <2>5, <2>7
    <3> QED BY <2>1, <2>3, <2>7, <3>1
  <2> QED BY <2>6, <2>7
<1>8. Holds(N)
  <2>1. N \in B
    <3> HIDE DEF B
    <3> QED BY <1>2, <1>6, <1>7, NatSetInduction
  <2> QED BY <1>2, <2>1
<1> QED BY <1>1, <1>2, <1>8

\* It has them in the order of the sequence.
LEMMA AmongOrder ==
    ASSUME NEW T, NEW s \in Seq(T), NEW S, NEW i \in DOMAIN Among(s, S), NEW j \in DOMAIN Among(s, S), i < j
    PROVE  \E a, b \in DOMAIN s : a < b /\ Among(s, S)[i] = s[a] /\ Among(s, S)[j] = s[b]
<1> DEFINE N == Len(s)
<1>1. PICK f : /\ f = [n \in 0 .. N |-> IF n = 0 THEN <<>>
                         ELSE IF s[n] \in S THEN Append(f[n - 1], s[n]) ELSE f[n - 1]]
               /\ Among(s, S) = f[N]
  BY AmongEquation
<1>2. N \in Nat /\ DOMAIN s = 1 .. N /\ \A k \in 1 .. N : s[k] \in T
  OBVIOUS
<1> HIDE DEF N
<1>9. \A n \in 0 .. N : f[n] = IF n = 0 THEN <<>>
                               ELSE IF s[n] \in S THEN Append(f[n - 1], s[n]) ELSE f[n - 1]
  BY <1>1
<1>3. f[0] = <<>>
  BY <1>2, <1>9
<1>4. ASSUME NEW n \in Nat, n + 1 <= N
      PROVE  f[n + 1] = IF s[n + 1] \in S THEN Append(f[n], s[n + 1]) ELSE f[n]
  <2>1. n + 1 \in 0 .. N /\ n + 1 # 0 /\ n + 1 - 1 = n
    BY <1>2, <1>4
  <2> QED BY <1>9, <2>1
<1> DEFINE From(n, x) == \E a \in 1 .. n : x = s[a]
           InOrder(n) == \A k, l \in 1 .. Len(f[n]) :
               k < l => \E a, b \in 1 .. n : a < b /\ f[n][k] = s[a] /\ f[n][l] = s[b]
           Holds(n) == f[n] \in Seq(T) /\ (\A k \in 1 .. Len(f[n]) : From(n, f[n][k])) /\ InOrder(n)
           B == {n \in Nat : n <= N => Holds(n)}
<1>5. 0 \in B
  <2>1. <<>> \in Seq(T) /\ Len(<<>>) = 0
    OBVIOUS
  <2>2. Holds(0)
    BY <1>3, <2>1
  <2> QED BY <2>2
<1>6. ASSUME NEW n \in Nat, n \in B PROVE n + 1 \in B
  <2> SUFFICES ASSUME n + 1 <= N PROVE Holds(n + 1)
    OBVIOUS
  <2>1. Holds(n)
    BY <1>2, <1>6
  <2>2. n + 1 \in 1 .. N /\ 1 .. n \subseteq 1 .. n + 1 /\ n + 1 \in 1 .. n + 1
    BY <1>2
  <2>3. CASE s[n + 1] \notin S
    <3>1. f[n + 1] = f[n]
      BY <1>4, <2>3
    <3> QED BY <2>1, <2>2, <3>1
  <2>4. CASE s[n + 1] \in S
    <3>1. PICK q, r, x, m : /\ q = f[n] /\ r = f[n + 1] /\ x = s[n + 1] /\ x \in T /\ r = Append(q, x)
                            /\ m = Len(q) /\ q \in Seq(T)
      BY <1>2, <1>4, <2>1, <2>2, <2>4
    <3>2. /\ r \in Seq(T) /\ Len(r) = m + 1 /\ m \in Nat /\ r[m + 1] = x
          /\ \A k \in 1 .. m : r[k] = q[k]
      BY <3>1
    <3>3. \A k \in 1 .. m : From(n, q[k])
      BY <2>1, <3>1
    <3>4. \A k \in 1 .. m + 1 : From(n + 1, r[k])
      <4> SUFFICES ASSUME NEW k \in 1 .. m + 1 PROVE From(n + 1, r[k])
        OBVIOUS
      <4>1. CASE k \in 1 .. m
        BY <2>2, <3>2, <3>3, <4>1
      <4>2. CASE k = m + 1
        BY <2>2, <3>1, <3>2, <4>2
      <4> QED BY <3>2, <4>1, <4>2
    <3>5. \A k, l \in 1 .. m + 1 :
             k < l => \E a, b \in 1 .. n + 1 : a < b /\ r[k] = s[a] /\ r[l] = s[b]
      <4> SUFFICES ASSUME NEW k \in 1 .. m + 1, NEW l \in 1 .. m + 1, k < l
                   PROVE  \E a, b \in 1 .. n + 1 : a < b /\ r[k] = s[a] /\ r[l] = s[b]
        OBVIOUS
      <4>1. k \in 1 .. m /\ r[k] = q[k]
        BY <3>2
      <4>2. CASE l = m + 1
        <5>1. PICK a \in 1 .. n : q[k] = s[a]
          BY <3>3, <4>1
        <5>2. a < n + 1 /\ a \in 1 .. n + 1
          BY <2>2
        <5> QED BY <2>2, <3>1, <3>2, <4>1, <4>2, <5>1, <5>2
      <4>3. CASE l \in 1 .. m
        <5>1. r[l] = q[l]
          BY <3>2, <4>3
        <5>2. PICK a, b \in 1 .. n : a < b /\ q[k] = s[a] /\ q[l] = s[b]
          BY <2>1, <3>1, <4>1, <4>3
        <5> QED BY <2>2, <4>1, <5>1, <5>2
      <4> QED BY <3>2, <4>2, <4>3
    <3>6. Len(r) = m + 1 /\ r = f[n + 1] /\ r \in Seq(T)
      BY <3>1, <3>2
    <3>7. InOrder(n + 1)
      BY <3>5, <3>6, SMTT(30)
    <3>8. \A k \in 1 .. Len(f[n + 1]) : From(n + 1, f[n + 1][k])
      BY <3>4, <3>6
    <3> HIDE DEF InOrder, From
    <3> QED BY <3>6, <3>7, <3>8
  <2> QED BY <2>3, <2>4
<1>7. Holds(N)
  <2>1. N \in B
    <3> HIDE DEF B
    <3> QED BY <1>2, <1>5, <1>6, NatSetInduction
  <2> QED BY <1>2, <2>1
<1>8. i \in 1 .. Len(f[N]) /\ j \in 1 .. Len(f[N])
  <2>1. PICK q : q = f[N] /\ q \in Seq(T) /\ q = Among(s, S)
    BY <1>1, <1>7
  <2> QED BY <2>1
<1>10. \E a, b \in 1 .. N : a < b /\ f[N][i] = s[a] /\ f[N][j] = s[b]
  BY <1>7, <1>8
<1> QED BY <1>1, <1>2, <1>10, Zenon

(***************************************************************************)
(* A recursive function of how many elements have been gone through.       *)
(***************************************************************************)
RunsOn(f, D, N, b, G) ==
    f \in [0 .. N -> D] /\ f[0] = b /\ \A n \in 1 .. N : f[n] = G[<<n, f[n - 1]>>]

LEMMA Recursion ==
    ASSUME NEW D, NEW N \in Nat, NEW b \in D, NEW G, \A n \in 1 .. N, q \in D : G[<<n, q>>] \in D
    PROVE  \E f : RunsOn(f, D, N, b, G)
<1> DEFINE Solves(f, n) == f[0] = b /\ \A k \in 1 .. n : f[k] = G[<<k, f[k - 1]>>]
           B == {n \in Nat : n <= N => \E f \in [0 .. n -> D] : Solves(f, n)}
<1>1. 0 \in B
  <2>1. [k \in 0 .. 0 |-> b] \in [0 .. 0 -> D] /\ Solves([k \in 0 .. 0 |-> b], 0)
    OBVIOUS
  <2> QED BY <2>1
<1>2. ASSUME NEW n \in Nat, n \in B PROVE n + 1 \in B
  <2> SUFFICES ASSUME n + 1 <= N PROVE \E f \in [0 .. n + 1 -> D] : Solves(f, n + 1)
    OBVIOUS
  <2>1. PICK f \in [0 .. n -> D] : Solves(f, n)
    BY <1>2
  <2> DEFINE x == G[<<n + 1, f[n]>>]
             g == [k \in 0 .. n + 1 |-> IF k = n + 1 THEN x ELSE f[k]]
  <2>2. n \in 0 .. n /\ n + 1 \in 1 .. N /\ f[n] \in D /\ x \in D
    <3>1. n \in 0 .. n /\ n + 1 \in 1 .. N /\ f[n] \in D
      OBVIOUS
    <3> QED BY <3>1
  <2> HIDE DEF x
  <2>3. g \in [0 .. n + 1 -> D] /\ g[n + 1] = x /\ \A k \in 0 .. n : g[k] = f[k]
    BY <2>2
  <2> HIDE DEF g
  <2>4. g[0] = b
    BY <2>1, <2>3
  <2>5. \A k \in 1 .. n + 1 : g[k] = G[<<k, g[k - 1]>>]
    <3> SUFFICES ASSUME NEW k \in 1 .. n + 1 PROVE g[k] = G[<<k, g[k - 1]>>]
      OBVIOUS
    <3>1. CASE k = n + 1
      <4>1. k - 1 = n /\ g[n] = f[n]
        BY <2>2, <2>3, <3>1
      <4> QED BY <2>3, <3>1, <4>1 DEF x
    <3>2. CASE k \in 1 .. n
      <4>1. k \in 0 .. n /\ k - 1 \in 0 .. n
        BY <3>2
      <4>2. g[k] = f[k] /\ g[k - 1] = f[k - 1]
        BY <2>3, <4>1
      <4> QED BY <2>1, <3>2, <4>2
    <3> QED BY <3>1, <3>2
  <2> QED BY <2>3, <2>4, <2>5
<1>3. N \in B
  <2> HIDE DEF B
  <2> QED BY <1>1, <1>2, NatSetInduction
<1> QED BY <1>3 DEF RunsOn

\* What one gets by putting sequences one after the other.
Joins(f, s) ==
    /\ FlattenSeq(s) = f[Len(s)]
    /\ \A i \in 1 .. Len(s) : f[i] = IF i = 1 THEN s[i] ELSE f[i - 1] \o s[i]

LEMMA FlattenEquation ==
    ASSUME NEW T, NEW s \in Seq(Seq(T)), s # <<>>
    PROVE  \E f : Joins(f, s)
<1> DEFINE N == Len(s)
           D == Seq(T)
           Eq(f) == f = [i \in 1 .. N |-> IF i = 1 THEN s[i] ELSE f[i - 1] \o s[i]]
           F == CHOOSE f : Eq(f)
<1>1. N \in Nat /\ N # 0 /\ \A i \in 1 .. N : s[i] \in D
  OBVIOUS
<1>2. FlattenSeq(s) = F[N]
  BY <1>1 DEF FlattenSeq
<1>3. <<>> \in D /\ \A a, b \in D : a \o b \in D
  OBVIOUS
<1> HIDE DEF N, D
<1> DEFINE Next(i, q) == IF i = 1 THEN s[i] ELSE q \o s[i]
           G == [p \in (1 .. N) \X D |-> Next(p[1], p[2])]
<1>5. \A i \in 1 .. N, q \in D : G[<<i, q>>] \in D
  BY <1>1, <1>3
<1>6. \A i \in 1 .. N, q \in D : G[<<i, q>>] = Next(i, q)
  OBVIOUS
<1> HIDE DEF G, Next
<1>4. PICK b \in D : b = <<>>
  BY <1>3
<1>7. PICK f : RunsOn(f, D, N, b, G)
  BY <1>1, <1>5, Recursion
<1>8. \A i \in 1 .. N : i - 1 \in 0 .. N /\ f[i - 1] \in D /\ f[i] = Next(i, f[i - 1])
  <2> SUFFICES ASSUME NEW i \in 1 .. N
               PROVE  i - 1 \in 0 .. N /\ f[i - 1] \in D /\ f[i] = Next(i, f[i - 1])
    OBVIOUS
  <2>1. i - 1 \in 0 .. N
    BY <1>1
  <2>2. f[i - 1] \in D
    BY <1>7, <2>1 DEF RunsOn
  <2>3. f[i] = G[<<i, f[i - 1]>>]
    BY <1>7 DEF RunsOn
  <2> QED BY <1>6, <2>1, <2>2, <2>3
<1> DEFINE g == [i \in 1 .. N |-> f[i]]
           h == [i \in 1 .. N |-> IF i = 1 THEN s[i] ELSE g[i - 1] \o s[i]]
<1>9. \A i \in 1 .. N : g[i] = h[i]
  <2> SUFFICES ASSUME NEW i \in 1 .. N PROVE g[i] = h[i]
    OBVIOUS
  <2>1. f[i] = IF i = 1 THEN s[i] ELSE f[i - 1] \o s[i]
    BY <1>8 DEF Next
  <2>2. i # 1 => i - 1 \in 1 .. N
    BY <1>1
  <2>3. g[i] = f[i] /\ (i # 1 => g[i - 1] = f[i - 1])
    BY <2>2
  <2> HIDE DEF g
  <2> QED BY <2>1, <2>3
<1>10. Eq(g)
  <2>1. g = h
    <3>1. g = [i \in 1 .. N |-> g[i]] /\ h = [i \in 1 .. N |-> h[i]]
      <4> HIDE DEF g
      <4>1. h = [i \in 1 .. N |-> h[i]]
        OBVIOUS
      <4>2. g = [i \in 1 .. N |-> g[i]]
        BY DEF g
      <4> QED BY <4>1, <4>2
    <3> HIDE DEF g, h
    <3> QED BY <1>9, <3>1
  <2> HIDE DEF g
  <2> QED BY <2>1
<1>11. Eq(F)
  <2> HIDE DEF g, Eq
  <2> QED BY <1>10
<1> HIDE DEF F
<1>12. \A i \in 1 .. N : F[i] = IF i = 1 THEN s[i] ELSE F[i - 1] \o s[i]
  BY <1>11
<1> QED BY <1>2, <1>12 DEF Joins, N

\* Once in a set, a sequence stays in it; and so does a sequence of blocks.
LateIn(q, C) == \A k, l \in DOMAIN q : k < l /\ q[k] \in C => q[l] \in C
LateBlocks(s, C) == \A i, j \in DOMAIN s :
    i <= j /\ ToSet(s[i]) \cap C # {} => ToSet(s[j]) \subseteq C

LEMMA JoinedStays ==
    ASSUME NEW T, NEW a \in Seq(T), NEW b \in Seq(T)
    PROVE  /\ a \o b \in Seq(T) /\ ToSet(a \o b) = ToSet(a) \cup ToSet(b)
           /\ \A C : /\ LateIn(a, C) /\ LateIn(b, C)
                     /\ ToSet(a) \cap C # {} => ToSet(b) \subseteq C
                     => LateIn(a \o b, C)
<1>0. a \o b \in Seq(T)
  OBVIOUS
<1>1. PICK q \in Seq(T) : q = a \o b
  BY <1>0, Zenon
<1>2. PICK m \in Nat, n \in Nat :
         /\ m = Len(a) /\ n = Len(b) /\ DOMAIN a = 1 .. m /\ DOMAIN b = 1 .. n /\ DOMAIN q = 1 .. m + n
         /\ (\A k \in 1 .. m : q[k] = a[k]) /\ \A k \in m + 1 .. m + n : q[k] = b[k - m]
  BY <1>1, SMTT(30)
<1>3. ToSet(q) = ToSet(a) \cup ToSet(b)
  <2>1. \A k \in 1 .. n : m + k \in 1 .. m + n /\ q[m + k] = b[k]
    <3> SUFFICES ASSUME NEW k \in 1 .. n PROVE m + k \in 1 .. m + n /\ q[m + k] = b[k]
      OBVIOUS
    <3>1. m + k \in m + 1 .. m + n /\ m + k \in 1 .. m + n /\ m + k - m = k
      BY <1>2, SMTT(30)
    <3>2. q[m + k] = b[m + k - m]
      BY <1>2, <3>1, SMTT(30)
    <3> QED BY <3>1, <3>2
  <2>2. \A k \in 1 .. m + n : k \in 1 .. m \/ (k \in m + 1 .. m + n /\ k - m \in 1 .. n)
    BY <1>2
  <2>3. \A k \in 1 .. m : k \in 1 .. m + n
    BY <1>2
  <2>4. ASSUME NEW k \in 1 .. m + n PROVE q[k] \in ToSet(a) \cup ToSet(b)
    <3>1. CASE k \in 1 .. m
      <4>1. q[k] = a[k] /\ k \in DOMAIN a
        BY <1>2, <3>1, Zenon
      <4> QED BY <4>1, Zenon DEF ToSet
    <3>2. CASE k \in m + 1 .. m + n /\ k - m \in 1 .. n
      <4>1. q[k] = b[k - m] /\ k - m \in DOMAIN b
        BY <1>2, <3>2, Zenon
      <4> QED BY <4>1, Zenon DEF ToSet
    <3> QED BY <2>2, <3>1, <3>2
  <2>5. ToSet(q) \subseteq ToSet(a) \cup ToSet(b)
    BY <1>2, <2>4, ZenonT(60) DEF ToSet
  <2>6. ToSet(a) \subseteq ToSet(q)
    BY <1>2, <2>3 DEF ToSet
  <2>7. ToSet(b) \subseteq ToSet(q)
    <3> SUFFICES ASSUME NEW k \in 1 .. n PROVE b[k] \in ToSet(q)
      BY <1>2 DEF ToSet
    <3>1. m + k \in 1 .. m + n /\ q[m + k] = b[k]
      BY <2>1
    <3>2. q[m + k] \in ToSet(q)
      BY <1>2, <3>1 DEF ToSet
    <3> QED BY <3>1, <3>2
  <2> QED BY <2>5, <2>6, <2>7
<1>4. ASSUME NEW C, LateIn(a, C), LateIn(b, C), ToSet(a) \cap C # {} => ToSet(b) \subseteq C
      PROVE  LateIn(q, C)
  <2> SUFFICES ASSUME NEW k \in 1 .. m + n, NEW l \in 1 .. m + n, k < l, q[k] \in C
               PROVE  q[l] \in C
    BY <1>2 DEF LateIn
  <2>1. CASE l \in 1 .. m
    <3>1. k \in 1 .. m
      BY <1>2, <2>1
    <3> QED BY <1>2, <1>4, <2>1, <3>1 DEF LateIn
  <2>2. CASE k \in 1 .. m /\ l \notin 1 .. m
    <3>1. l \in m + 1 .. m + n /\ l - m \in 1 .. n
      BY <1>2, <2>2
    <3>2. q[k] \in ToSet(a) /\ q[l] \in ToSet(b)
      BY <1>2, <2>2, <3>1 DEF ToSet
    <3> QED BY <1>4, <3>2
  <2>3. CASE k \notin 1 .. m /\ l \notin 1 .. m
    <3>1. /\ k \in m + 1 .. m + n /\ l \in m + 1 .. m + n
          /\ k - m \in 1 .. n /\ l - m \in 1 .. n /\ k - m < l - m
      BY <1>2, <2>3
    <3>2. q[k] = b[k - m] /\ q[l] = b[l - m]
      BY <1>2, <3>1
    <3> QED BY <1>2, <1>4, <3>1, <3>2 DEF LateIn
  <2> QED BY <2>1, <2>2, <2>3
<1> QED BY <1>1, <1>3, <1>4

LEMMA Flattened ==
    ASSUME NEW T, NEW s \in Seq(Seq(T))
    PROVE  /\ FlattenSeq(s) \in Seq(T)
           /\ \A x \in ToSet(FlattenSeq(s)) : \E i \in DOMAIN s : x \in ToSet(s[i])
           /\ \A C : LateBlocks(s, C) => LateIn(FlattenSeq(s), C)
<1>1. PICK N \in Nat : N = Len(s) /\ DOMAIN s = 1 .. N /\ \A i \in 1 .. N : s[i] \in Seq(T)
  OBVIOUS
<1>2. CASE s = <<>>
  <2>1. FlattenSeq(s) = <<>>
    BY <1>2 DEF FlattenSeq
  <2>2. <<>> \in Seq(T) /\ ToSet(<<>>) = {} /\ \A C : LateIn(<<>>, C)
    BY DEF ToSet, LateIn
  <2> QED BY <2>1, <2>2
<1>3. CASE s # <<>>
  <2>1. PICK f : Joins(f, s)
    BY <1>3, FlattenEquation
  <2>2. N # 0
    BY <1>1, <1>3
  <2> DEFINE From(q, n) == \A x \in ToSet(q) : \E i \in 1 .. n : x \in ToSet(s[i])
             Late(q) == \A C : LateBlocks(s, C) => LateIn(q, C)
             Holds(n) == f[n] \in Seq(T) /\ From(f[n], n) /\ Late(f[n])
             B == {n \in Nat : n + 1 <= N => Holds(n + 1)}
  <2>3. ASSUME NEW i \in 1 .. N, NEW C, LateBlocks(s, C) PROVE LateIn(s[i], C)
    <3>0. i \in DOMAIN s /\ i <= i
      BY <1>1
    <3>1. ToSet(s[i]) \cap C # {} => ToSet(s[i]) \subseteq C
      BY <2>3, <3>0, Zenon DEF LateBlocks
    <3> QED BY <3>1 DEF LateIn, ToSet
  <2>4. Holds(1)
    <3>1. 1 \in 1 .. N /\ 1 \in 1 .. 1
      BY <1>1, <2>2
    <3>2. f[1] = s[1]
      BY <1>1, <2>1, <3>1 DEF Joins
    <3> QED BY <1>1, <2>3, <3>1, <3>2
  <2>5. ASSUME NEW n \in Nat, n \in B PROVE n + 1 \in B
    <3> SUFFICES ASSUME n + 1 + 1 <= N PROVE Holds(n + 1 + 1)
      OBVIOUS
    <3>1. PICK k \in 1 .. N, l \in 1 .. N :
             k = n + 1 /\ l = n + 1 + 1 /\ l # 1 /\ l - 1 = k /\ 1 .. k \subseteq 1 .. l /\ l \in 1 .. l
             /\ \A i \in 1 .. k : i \in 1 .. N /\ i <= l
      BY <1>1
    <3>2. Holds(k)
      BY <1>1, <2>5, <3>1
    <3>3. PICK a \in Seq(T), b \in Seq(T) : a = f[k] /\ b = s[l] /\ f[l] = a \o b
      <4>1. f[l] = f[l - 1] \o s[l]
        BY <1>1, <2>1, <3>1 DEF Joins
      <4> QED BY <1>1, <3>1, <3>2, <4>1
    <3>4. ASSUME NEW C, LateBlocks(s, C) PROVE LateIn(a \o b, C)
      <4>1. LateIn(a, C) /\ LateIn(b, C)
        BY <2>3, <3>2, <3>3, <3>4
      <4>2. ASSUME ToSet(a) \cap C # {} PROVE ToSet(b) \subseteq C
        <5>1. PICK x \in ToSet(a), i \in 1 .. k : x \in C /\ x \in ToSet(s[i])
          BY <3>2, <3>3, <4>2
        <5>2. i \in 1 .. N /\ i <= l /\ ToSet(s[i]) \cap C # {}
          BY <3>1, <5>1
        <5> QED BY <1>1, <3>3, <3>4, <5>2 DEF LateBlocks
      <4> QED BY <4>1, <4>2, JoinedStays
    <3>5. ToSet(a \o b) = ToSet(a) \cup ToSet(b) /\ a \o b \in Seq(T)
      BY JoinedStays
    <3>6. From(f[l], l)
      BY <3>1, <3>2, <3>3, <3>5
    <3>7. Late(f[l]) /\ f[l] \in Seq(T)
      BY <3>3, <3>4, <3>5
    <3> HIDE DEF From, Late
    <3> QED BY <3>1, <3>6, <3>7
  <2>6. 0 \in B
    BY <2>4
  <2>7. N - 1 \in B
    <3>1. N - 1 \in Nat
      BY <1>1, <2>2
    <3> HIDE DEF B
    <3> QED BY <2>5, <2>6, <3>1, NatSetInduction
  <2>8. Holds(N)
    <3>1. N - 1 + 1 = N
      BY <1>1
    <3> HIDE DEF Holds
    <3> QED BY <1>1, <2>7, <3>1
  <2>9. FlattenSeq(s) = f[N]
    BY <1>1, <2>1 DEF Joins
  <2> QED BY <1>1, <2>8, <2>9
<1> QED BY <1>2, <1>3

\* One-element sequences join to the sequence of their elements.
LEMMA FlattenSingles ==
    ASSUME NEW T, NEW b \in Seq(T), NEW s \in Seq(Seq(T)), Len(s) = Len(b),
           \A i \in 1 .. Len(b) : Len(s[i]) = 1 /\ s[i][1] = b[i]
    PROVE  FlattenSeq(s) = b
<1>1. PICK N \in Nat : /\ N = Len(s) /\ N = Len(b) /\ DOMAIN b = 1 .. N
                       /\ \A i \in 1 .. N : s[i] \in Seq(T) /\ b[i] \in T
  <2>1. Len(b) \in Nat /\ DOMAIN b = 1 .. Len(b) /\ \A i \in 1 .. Len(b) : b[i] \in T
    OBVIOUS
  <2>2. \A i \in 1 .. Len(s) : s[i] \in Seq(T)
    OBVIOUS
  <2> QED BY <2>1, <2>2
<1>2. CASE N = 0
  <2>1. s = <<>> /\ b = <<>>
    BY <1>1, <1>2
  <2> QED BY <2>1 DEF FlattenSeq
<1>3. CASE N # 0
  <2>1. PICK f : Joins(f, s)
    <3>1. s # <<>>
      BY <1>1, <1>3
    <3> QED BY <3>1, FlattenEquation
  <2>2. \A i \in 1 .. N : Len(s[i]) = 1 /\ s[i][1] = b[i]
    BY <1>1
  <2> DEFINE Begins(q, n) == q \in Seq(T) /\ Len(q) = n /\ \A k \in 1 .. n : q[k] = b[k]
             B == {n \in Nat : n + 1 <= N => Begins(f[n + 1], n + 1)}
  <2>3. 0 \in B
    <3>1. 1 \in 1 .. N /\ 0 + 1 = 1
      BY <1>1, <1>3
    <3>2. f[1] = s[1]
      BY <1>1, <2>1, <3>1 DEF Joins
    <3> QED BY <1>1, <2>2, <3>1, <3>2
  <2>4. ASSUME NEW n \in Nat, n \in B PROVE n + 1 \in B
    <3> SUFFICES ASSUME n + 1 + 1 <= N PROVE Begins(f[n + 1 + 1], n + 1 + 1)
      OBVIOUS
    <3>1. PICK k \in 1 .. N, l \in 1 .. N :
             k = n + 1 /\ l = n + 1 + 1 /\ l # 1 /\ l - 1 = k /\ l = k + 1
      BY <1>1
    <3>2. Begins(f[k], k)
      BY <1>1, <2>4, <3>1
    <3>3. PICK p \in Seq(T), q \in Seq(T) : p = f[k] /\ q = s[l] /\ f[l] = p \o q
      <4>1. f[l] = f[l - 1] \o s[l]
        BY <1>1, <2>1, <3>1 DEF Joins
      <4> QED BY <1>1, <3>1, <3>2, <4>1
    <3>4. Len(p) = k /\ Len(q) = 1 /\ q[1] = b[l] /\ \A j \in 1 .. k : p[j] = b[j]
      BY <2>2, <3>2, <3>3
    <3>5. PICK r \in Seq(T) : r = p \o q
      <4>1. p \o q \in Seq(T)
        OBVIOUS
      <4> QED BY <4>1, Zenon
    <3>6. Len(r) = l /\ (\A j \in 1 .. k : r[j] = p[j]) /\ r[l] = q[1]
      <4>1. Len(r) = Len(p) + Len(q)
        BY <3>5
      <4>2. \A j \in 1 .. Len(r) : r[j] = IF j <= Len(p) THEN p[j] ELSE q[j - Len(p)]
        BY <3>5
      <4>3. l \in 1 .. l /\ ~(l <= k) /\ l - k = 1 /\ \A j \in 1 .. k : j \in 1 .. l /\ j <= k
        BY <3>1
      <4>4. Len(r) = l
        BY <3>1, <3>4, <4>1
      <4>5. r[l] = q[l - k]
        BY <3>4, <4>2, <4>3, <4>4
      <4> QED BY <3>4, <4>2, <4>3, <4>4, <4>5
    <3>7. \A j \in 1 .. l : j \in 1 .. k \/ j = l
      BY <3>1
    <3>8. Begins(r, l)
      BY <3>4, <3>6, <3>7
    <3> QED BY <3>1, <3>3, <3>5, <3>8
  <2>5. N - 1 \in B
    <3>1. N - 1 \in Nat
      BY <1>1, <1>3
    <3> HIDE DEF B
    <3> QED BY <2>3, <2>4, <3>1, NatSetInduction
  <2>6. Begins(f[N], N)
    <3>1. N - 1 + 1 = N
      BY <1>1
    <3> HIDE DEF Begins
    <3> QED BY <1>1, <2>5, <3>1
  <2>7. PICK q \in Seq(T) : q = f[N] /\ Len(q) = N /\ \A k \in 1 .. N : q[k] = b[k]
    BY <2>6
  <2>8. q = b
    BY <1>1, <2>7, SMTT(30)
  <2>9. FlattenSeq(s) = f[N]
    BY <1>1, <2>1 DEF Joins
  <2> QED BY <2>7, <2>8, <2>9
<1> QED BY <1>2, <1>3
===============================================================================
