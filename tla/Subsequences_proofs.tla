------------------------ MODULE Subsequences_proofs ------------------------
(***************************************************************************)
(* What Pick returns, for every sequence and every set of positions.  The  *)
(* induction is a minimum argument: the library's induction theorems take  *)
(* an operator as a parameter, its theorem on minimal elements takes a set.*)
(***************************************************************************)
EXTENDS Subsequences, WellFoundedInduction, TLAPS

\* A set of natural numbers with an element has a least one.
LEMMA LeastElement ==
  ASSUME NEW T \in SUBSET Nat, T # {}
  PROVE  \E n \in T : \A m \in T : n <= m
PROOF
<1> DEFINE R == OpToRel(<, Nat)
<1>1. \A x, y \in Nat : <<y, x>> \in R <=> y < x
  BY DEF OpToRel
<1>2. IsWellFoundedOn(R, Nat)
  BY NatLessThanWellFounded
<1> HIDE DEF R
<1>3. PICK x \in T : \A y \in T : ~ (<<y, x>> \in R)
  BY <1>2, WFMin
<1>4. \A y \in T : ~ (y < x)
  BY <1>1, <1>3
<1>5. \A y \in T : x <= y
  BY <1>4
<1> QED
  BY <1>5

-----------------------------------------------------------------------------
(* The recursive function in the definition of Pick exists. *)

\* One more position is looked at.
Longer(s, I, n, before) == IF n \in I THEN Append(before, s[n]) ELSE before
\* g is the function in the definition of Pick, up to position m.
Scan(s, I, m, g) ==
  g = [n \in 0 .. m |-> IF n = 0 THEN <<>> ELSE IF n \in I THEN Append(g[n - 1], s[n]) ELSE g[n - 1]]

\* What the equation says of each position.
Scanned(s, I, m, g) == g[0] = <<>> /\ \A n \in 1 .. m : g[n] = Longer(s, I, n, g[n - 1])

\* One step of the equation, spelled out for a value of its own.
LEMMA ScanStep ==
  ASSUME NEW s, NEW I, NEW m \in Nat, NEW g, Scan(s, I, m, g)
  PROVE  Scanned(s, I, m, g)
PROOF
<1> DEFINE h == [n \in 0 .. m |-> IF n = 0 THEN <<>> ELSE IF n \in I THEN Append(g[n - 1], s[n]) ELSE g[n - 1]]
<1>1. h[0] = <<>> /\ \A n \in 1 .. m : h[n] = Longer(s, I, n, g[n - 1])
  BY DEF Longer
<1>2. g = h
  BY DEF Scan
<1> HIDE DEF h
<1> QED
  BY <1>1, <1>2 DEF Scanned

\* A scan of m - 1 positions extends to one of m.
LEMMA ScanExtends ==
  ASSUME NEW s, NEW I, NEW m \in Nat \ {0}, NEW g, Scan(s, I, m - 1, g)
  PROVE  \E f : Scan(s, I, m, f)
PROOF
<1> DEFINE f == [n \in 0 .. m |-> IF n = m THEN Longer(s, I, m, g[m - 1]) ELSE g[n]]
<1>1. g[0] = <<>> /\ \A n \in 1 .. m - 1 : g[n] = Longer(s, I, n, g[n - 1])
  <2>1. m - 1 \in Nat
    OBVIOUS
  <2>2. Scanned(s, I, m - 1, g)
    BY <2>1, ScanStep
  <2> QED
    BY <2>2 DEF Scanned
<1>2. \A n \in 0 .. m - 1 : f[n] = g[n]
  OBVIOUS
<1>3. f[m] = Longer(s, I, m, g[m - 1])
  OBVIOUS
<1>4. f = [n \in 0 .. m |-> f[n]]
  OBVIOUS
<1> HIDE DEF f
<1>5. f[0] = <<>>
  BY <1>1, <1>2
<1>6. ASSUME NEW n \in 1 .. m PROVE f[n] = Longer(s, I, n, f[n - 1])
  <2>1. f[n - 1] = g[n - 1]
    BY <1>2
  <2>2. CASE n = m
    BY <1>3, <2>1, <2>2
  <2>3. CASE n # m
    BY <1>1, <1>2, <2>1, <2>3
  <2> QED
    BY <2>2, <2>3
<1>7. ASSUME NEW n \in 0 .. m
      PROVE  f[n] = IF n = 0 THEN <<>> ELSE IF n \in I THEN Append(f[n - 1], s[n]) ELSE f[n - 1]
  <2>1. CASE n = 0
    BY <1>5, <2>1
  <2>2. CASE n # 0
    BY <1>6, <2>2 DEF Longer
  <2> QED
    BY <2>1, <2>2
<1>8. Scan(s, I, m, f)
  BY <1>4, <1>7 DEF Scan
<1> QED
  BY <1>8

\* The value of Pick is the last one of a scan.
LEMMA PickIsScan ==
  ASSUME NEW s, NEW I, Len(s) \in Nat
  PROVE  \E g : Scan(s, I, Len(s), g) /\ Pick(s, I) = g[Len(s)]
PROOF
<1> DEFINE T == {m \in Nat : ~ \E g : Scan(s, I, m, g)}
<1>1. T = {}
  <2> SUFFICES ASSUME T # {} PROVE FALSE
    OBVIOUS
  <2>1. T \in SUBSET Nat
    OBVIOUS
  <2>2. PICK m \in T : \A k \in T : m <= k
    <3> HIDE DEF T
    <3> QED
      BY <2>1, LeastElement
  <2>3. CASE m = 0
    <3>1. Scan(s, I, 0, [n \in 0 .. 0 |-> <<>>])
      BY DEF Scan
    <3> QED
      BY <2>2, <2>3, <3>1
  <2>4. CASE m # 0
    <3>1. m \in Nat \ {0} /\ m - 1 \in Nat /\ m - 1 \notin T
      <4>1. m \in Nat
        OBVIOUS
      <4> HIDE DEF T
      <4> QED
        BY <2>2, <2>4, <4>1
    <3>2. PICK g : Scan(s, I, m - 1, g)
      BY <3>1
    <3>3. \E f : Scan(s, I, m, f)
      <4> HIDE DEF T
      <4> QED
        BY <3>1, <3>2, ScanExtends
    <3> QED
      BY <3>3
  <2> QED
    BY <2>3, <2>4
<1>2. \E g : Scan(s, I, Len(s), g)
  BY <1>1
<1> DEFINE f == CHOOSE g : Scan(s, I, Len(s), g)
<1>3. Scan(s, I, Len(s), f)
  BY <1>2
<1>4. Pick(s, I) = f[Len(s)]
  BY DEF Pick, Scan
<1> QED
  BY <1>3, <1>4

-----------------------------------------------------------------------------
(* What Pick returns. *)

\* p consists of the elements of s at the positions of I up to n, and e says where each comes from.
Picked(s, I, n, p, e) ==
  /\ e \in [1 .. Len(p) -> 1 .. n]
  /\ \A k \in 1 .. Len(p) : e[k] \in I /\ p[k] = s[e[k]]
  /\ \A k, l \in 1 .. Len(p) : k < l => e[k] < e[l]
  /\ \A i \in 1 .. n : i \in I => \E k \in 1 .. Len(p) : e[k] = i

\* What was picked up to n - 1 extends to what is picked up to n.
LEMMA PickedExtends ==
  ASSUME NEW S, NEW s \in Seq(S), NEW I, NEW n \in 1 .. Len(s), NEW p \in Seq(S), NEW e, Picked(s, I, n - 1, p, e)
  PROVE  Longer(s, I, n, p) \in Seq(S) /\ \E d : Picked(s, I, n, Longer(s, I, n, p), d)
PROOF
<1>0. n \in Nat /\ n >= 1 /\ n - 1 \in Nat /\ Len(p) \in Nat /\ s[n] \in S
  OBVIOUS
<1>1. CASE n \notin I
  <2>1. Longer(s, I, n, p) = p
    BY <1>1 DEF Longer
  <2>2. Picked(s, I, n, p, e)
    BY <1>0, <1>1 DEF Picked
  <2> QED
    BY <2>1, <2>2
<1>2. CASE n \in I
  <2> DEFINE m == Len(p) + 1
             q == Append(p, s[n])
             d == [k \in 1 .. m |-> IF k = m THEN n ELSE e[k]]
  <2>1. Longer(s, I, n, p) = q
    BY <1>2 DEF Longer
  <2>2. q \in Seq(S) /\ Len(q) = m /\ q[m] = s[n] /\ \A k \in 1 .. Len(p) : q[k] = p[k]
    BY <1>0
  <2>3. m \in Nat /\ Len(p) = m - 1
    BY <1>0
  <2>4. d[m] = n /\ \A k \in 1 .. Len(p) : d[k] = e[k] /\ e[k] \in 1 .. n - 1
    BY <1>0 DEF Picked
  <2>5. d \in [1 .. m -> 1 .. n]
    <3>1. \A k \in 1 .. Len(p) : e[k] \in 1 .. n - 1
      BY DEF Picked
    <3> QED
      BY <1>0, <3>1
  <2> HIDE DEF d, m, q
  <2>6. \A k \in 1 .. m : d[k] \in I /\ q[k] = s[d[k]]
    <3> SUFFICES ASSUME NEW k \in 1 .. m PROVE d[k] \in I /\ q[k] = s[d[k]]
      OBVIOUS
    <3>1. CASE k = m
      BY <1>2, <2>2, <2>4, <3>1
    <3>2. CASE k # m
      <4>1. k \in 1 .. Len(p)
        BY <2>3, <3>2
      <4>2. e[k] \in I /\ p[k] = s[e[k]]
        BY <4>1 DEF Picked
      <4> QED
        BY <2>2, <2>4, <4>1, <4>2
    <3> QED
      BY <3>1, <3>2
  <2>7. \A k, l \in 1 .. m : k < l => d[k] < d[l]
    <3> SUFFICES ASSUME NEW k \in 1 .. m, NEW l \in 1 .. m, k < l PROVE d[k] < d[l]
      OBVIOUS
    <3>1. k \in 1 .. Len(p) /\ d[k] = e[k] /\ e[k] \in 1 .. n - 1
      BY <2>3, <2>4
    <3>2. CASE l = m
      BY <1>0, <2>4, <3>1, <3>2
    <3>3. CASE l # m
      <4>1. l \in 1 .. Len(p)
        BY <2>3, <3>3
      <4>2. e[k] < e[l]
        BY <3>1, <4>1 DEF Picked
      <4> QED
        BY <2>4, <3>1, <4>1, <4>2
    <3> QED
      BY <3>2, <3>3
  <2>8. \A i \in 1 .. n : i \in I => \E k \in 1 .. m : d[k] = i
    <3> SUFFICES ASSUME NEW i \in 1 .. n, i \in I PROVE \E k \in 1 .. m : d[k] = i
      OBVIOUS
    <3>1. CASE i = n
      <4>1. m \in 1 .. m
        BY <1>0, <2>3
      <4> QED
        BY <2>4, <3>1, <4>1
    <3>2. CASE i # n
      <4>1. i \in 1 .. n - 1
        BY <1>0, <3>2
      <4>2. PICK k \in 1 .. Len(p) : e[k] = i
        BY <4>1 DEF Picked
      <4>3. k \in 1 .. m
        BY <2>3
      <4> QED
        BY <2>4, <4>2, <4>3
    <3> QED
      BY <3>1, <3>2
  <2>9. Picked(s, I, n, q, d)
    BY <2>2, <2>5, <2>6, <2>7, <2>8 DEF Picked
  <2> QED
    BY <2>1, <2>2, <2>9
<1> QED
  BY <1>1, <1>2

\* Pick returns the elements at the positions of I, all of them, each once, in their order.
THEOREM PickElements ==
  ASSUME NEW S, NEW s \in Seq(S), NEW I
  PROVE  /\ Pick(s, I) \in Seq(S)
         /\ \E e : Picked(s, I, Len(s), Pick(s, I), e)
PROOF
<1>0. Len(s) \in Nat
  OBVIOUS
<1>1. PICK f : Scan(s, I, Len(s), f) /\ Pick(s, I) = f[Len(s)]
  BY <1>0, PickIsScan
<1>2. f[0] = <<>> /\ \A n \in 1 .. Len(s) : f[n] = Longer(s, I, n, f[n - 1])
  <2>1. Scanned(s, I, Len(s), f)
    BY <1>0, <1>1, ScanStep
  <2> QED
    BY <2>1 DEF Scanned
<1> DEFINE T == {n \in 0 .. Len(s) : ~ (f[n] \in Seq(S) /\ \E e : Picked(s, I, n, f[n], e))}
<1>3. T = {}
  <2> SUFFICES ASSUME T # {} PROVE FALSE
    OBVIOUS
  <2>1. T \in SUBSET Nat
    BY <1>0
  <2>2. PICK n \in T : \A k \in T : n <= k
    <3> HIDE DEF T
    <3> QED
      BY <2>1, LeastElement
  <2>3. CASE n = 0
    <3>1. Picked(s, I, 0, <<>>, <<>>)
      BY DEF Picked
    <3>2. f[0] \in Seq(S) /\ \E e : Picked(s, I, 0, f[0], e)
      BY <1>2, <3>1
    <3>3. 0 \notin T
      BY <3>2
    <3> QED
      BY <2>3, <3>3
  <2>4. CASE n # 0
    <3>1. n \in 1 .. Len(s) /\ n - 1 \in 0 .. Len(s) /\ n - 1 < n
      BY <1>0, <2>4
    <3>2. n - 1 \notin T
      <4> HIDE DEF T
      <4> QED
        BY <2>2, <3>1
    <3>3. f[n - 1] \in Seq(S) /\ \E e : Picked(s, I, n - 1, f[n - 1], e)
      BY <3>1, <3>2
    <3>4. f[n] \in Seq(S) /\ \E e : Picked(s, I, n, f[n], e)
      <4> HIDE DEF T
      <4> QED
        BY <1>2, <3>1, <3>3, PickedExtends
    <3> QED
      BY <3>4
  <2> QED
    BY <2>3, <2>4
<1> QED
  BY <1>0, <1>1, <1>3

=============================================================================
