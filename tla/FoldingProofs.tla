---------------------------- MODULE FoldingProofs ----------------------------
(***************************************************************************)
(* Lemmas about folds, with which the models translate loops: the function *)
(* that a fold is defined with exists, and its value at the first numbers  *)
(* is what the loop has after them.  They rest on induction in the form    *)
(* that a set of numbers has a least element, which takes no operator as   *)
(* an argument: WFMin of the library.                                      *)
(***************************************************************************)
EXTENDS Integers, FiniteSetsExt, TLAPS, WellFoundedInduction

LEMMA LeastNumber ==
  ASSUME NEW T \in SUBSET Nat, T # {}
  PROVE  \E n \in T : \A m \in T : n <= m
<1> DEFINE R == OpToRel(<, Nat)
<1>1. IsWellFoundedOn(R, Nat)
  BY NatLessThanWellFounded
<1> HIDE DEF R
<1>2. PICK x \in T : \A y \in T : ~(<<y, x>> \in R)
  BY <1>1, WFMin
<1>3. \A y, z \in Nat : <<z, y>> \in R <=> z < y
  BY DEF R, OpToRel
<1>4. \A m \in T : x <= m
  <2> TAKE m \in T
  <2>1. m \in Nat /\ x \in Nat
    OBVIOUS
  <2>2. ~(m < x)
    BY <1>2, <1>3, <2>1
  <2> QED
    BY <2>1, <2>2
<1> QED
  BY <1>4

\* What is so at 0, and after each number, is so up to N.
LEMMA UpTo ==
  ASSUME NEW N \in Nat, NEW P, 0 \in P, \A n \in 0 .. N - 1 : n \in P => n + 1 \in P
  PROVE  \A n \in 0 .. N : n \in P
<1> DEFINE T == {n \in 0 .. N : n \notin P}
<1> SUFFICES ASSUME T # {} PROVE FALSE
  OBVIOUS
<1>1. T \in SUBSET Nat
  OBVIOUS
<1>2. PICK n \in T : \A m \in T : n <= m
  BY <1>1, LeastNumber
<1>3. n \in 0 .. N /\ n # 0
  BY <1>2
<1>4. n - 1 \in 0 .. N - 1 /\ (n - 1) + 1 = n /\ ~(n <= n - 1)
  BY <1>3
<1>5. n - 1 \in P
  BY <1>2, <1>4
<1> QED
  BY <1>2, <1>4, <1>5

\* The greatest of some of the first numbers.
LEMMA MaxProperties ==
  ASSUME NEW N \in Nat, NEW s \in SUBSET (1 .. N), s # {}
  PROVE  Max(s) \in s /\ \A y \in s : y <= Max(s)
<1> DEFINE T == {n \in 0 .. N : N - n \in s}
<1>1. PICK x \in s : TRUE
  OBVIOUS
<1>2. T \in SUBSET Nat /\ N - x \in T
  OBVIOUS
<1>3. PICK n \in T : \A m \in T : n <= m
  BY <1>2, LeastNumber
<1>4. N - n \in s /\ n \in 0 .. N
  BY <1>3
<1>5. \A y \in s : N - n >= y
  <2> TAKE y \in s
  <2>1. y \in 1 .. N
    OBVIOUS
  <2>2. N - y \in T
    BY <2>1
  <2>3. n <= N - y
    BY <1>3, <2>2
  <2> QED
    BY <1>4, <2>1, <2>3
<1>6. \E m \in s : \A y \in s : m >= y
  BY <1>4, <1>5
<1>7. Max(s) \in s /\ \A y \in s : Max(s) >= y
  BY <1>6 DEF Max
<1> QED
  <2>1. \A y \in s : y \in Int
    OBVIOUS
  <2> QED
    BY <1>7, <2>1

LEMMA MaxIs ==
  ASSUME NEW N \in Nat, NEW s \in SUBSET (1 .. N), NEW x \in s, \A y \in s : y <= x
  PROVE  Max(s) = x
<1> DEFINE m == Max(s)
<1>1. m \in s /\ \A y \in s : y <= m
  BY MaxProperties
<1> HIDE DEF m
<1>2. m \in 1 .. N /\ x \in 1 .. N
  BY <1>1
<1>3. m <= x /\ x <= m
  BY <1>1
<1>4. m = x
  BY <1>2, <1>3
<1> QED
  BY <1>4 DEF m

LEMMA MaxOfFirst ==
  ASSUME NEW N \in Nat, NEW i \in 1 .. N
  PROVE  Max(1 .. i) = i /\ (1 .. i) \ {i} = 1 .. i - 1
<1>1. (1 .. i) \in SUBSET (1 .. N) /\ i \in 1 .. i /\ \A y \in 1 .. i : y <= i
  OBVIOUS
<1>2. Max(1 .. i) = i
  BY <1>1, MaxIs
<1>3. \A x : x \in (1 .. i) \ {i} <=> x \in 1 .. i - 1
  OBVIOUS
<1> QED
  BY <1>2, <1>3

\* The function that a fold over 1 .. N is defined with.
IsFold(f, base, g, N) ==
  \A s \in SUBSET (1 .. N) : f[s] = IF s = {} THEN base ELSE g[<<f[s \ {Max(s)}], Max(s)>>]

\* There is one, with values in A, when the body of the loop takes A to A.
LEMMA FoldExists ==
  ASSUME NEW N \in Nat, NEW A, NEW base \in A, NEW g \in [A \X (1 .. N) -> A]
  PROVE  \E f \in [SUBSET (1 .. N) -> A] : IsFold(f, base, g, N)
<1> DEFINE P == {n \in 0 .. N : \E f \in [SUBSET (1 .. n) -> A] : IsFold(f, base, g, n)}
<1>1. 0 \in P
  <2> DEFINE f == [s \in SUBSET (1 .. 0) |-> base]
  <2>1. f \in [SUBSET (1 .. 0) -> A] /\ \A s \in SUBSET (1 .. 0) : s = {}
    OBVIOUS
  <2>2. IsFold(f, base, g, 0)
    BY <2>1 DEF IsFold
  <2> QED
    BY <2>1, <2>2
<1>2. ASSUME NEW n \in 0 .. N - 1, n \in P PROVE n + 1 \in P
  <2>1. PICK f \in [SUBSET (1 .. n) -> A] : IsFold(f, base, g, n)
    BY <1>2
  <2>2. n + 1 \in 1 .. N
    OBVIOUS
  <2> DEFINE h == [s \in SUBSET (1 .. n + 1) |->
                     IF n + 1 \in s THEN g[<<f[s \ {n + 1}], n + 1>>] ELSE f[s]]
  <2>3. ASSUME NEW s \in SUBSET (1 .. n + 1) PROVE s \ {n + 1} \in SUBSET (1 .. n)
    OBVIOUS
  <2>4. ASSUME NEW s \in SUBSET (1 .. n + 1), n + 1 \notin s PROVE s \in SUBSET (1 .. n)
    BY <2>4
  <2>5. h \in [SUBSET (1 .. n + 1) -> A]
    <3>1. \A s \in SUBSET (1 .. n + 1) : n + 1 \in s => g[<<f[s \ {n + 1}], n + 1>>] \in A
      BY <2>2, <2>3
    <3> QED
      BY <2>4, <3>1
  <2>6. ASSUME NEW s \in SUBSET (1 .. n) PROVE s \in SUBSET (1 .. n + 1) /\ h[s] = f[s]
    <3>1. s \in SUBSET (1 .. n + 1) /\ n + 1 \notin s
      OBVIOUS
    <3> QED
      BY <3>1
  <2>7. ASSUME NEW s \in SUBSET (1 .. n + 1)
        PROVE  h[s] = IF s = {} THEN base ELSE g[<<h[s \ {Max(s)}], Max(s)>>]
    <3>1. CASE n + 1 \in s
      <4>1. Max(s) = n + 1
        <5>1. n + 1 \in Nat /\ \A y \in s : y <= n + 1
          OBVIOUS
        <5> QED
          BY <3>1, <5>1, MaxIs
      <4>2. h[s] = g[<<f[s \ {n + 1}], n + 1>>] /\ h[s \ {n + 1}] = f[s \ {n + 1}]
        BY <2>3, <2>6, <3>1
      <4> QED
        BY <3>1, <4>1, <4>2
    <3>2. CASE n + 1 \notin s
      <4>1. s \in SUBSET (1 .. n) /\ h[s] = f[s]
        BY <2>4, <3>2
      <4>2. f[s] = IF s = {} THEN base ELSE g[<<f[s \ {Max(s)}], Max(s)>>]
        BY <2>1, <4>1 DEF IsFold
      <4>3. s \ {Max(s)} \in SUBSET (1 .. n)
        BY <4>1
      <4>4. h[s \ {Max(s)}] = f[s \ {Max(s)}]
        BY <2>6, <4>3
      <4> QED
        BY <4>1, <4>2, <4>4
    <3> QED
      BY <3>1, <3>2
  <2> HIDE DEF h
  <2>8. IsFold(h, base, g, n + 1)
    BY <2>7 DEF IsFold
  <2> QED
    BY <2>2, <2>5, <2>8
<1> HIDE DEF P
<1>3. N \in P
  BY <1>1, <1>2, UpTo
<1> QED
  BY <1>3 DEF P

-----------------------------------------------------------------------------
(* Functions that call themselves once, with an argument of a smaller measure. *)

IsRecursive(f, D, stop, base, next, step) ==
  f = [d \in D |-> IF d \in stop THEN base[d] ELSE step[<<d, f[next[d]]>>]]

\* There is such a function, with values in A, when the measure has a bound.
LEMMA RecursionExists ==
  ASSUME NEW D, NEW A, NEW stop \in SUBSET D, NEW base \in [stop -> A],
         NEW next \in [D \ stop -> D], NEW step \in [(D \ stop) \X A -> A],
         NEW N \in Nat, NEW size \in [D -> 0 .. N], \A d \in D \ stop : size[next[d]] < size[d]
  PROVE  \E f \in [D -> A] : IsRecursive(f, D, stop, base, next, step)
<1> DEFINE Small(n) == {d \in D : size[d] <= n}
           Body(f, d) == IF d \in stop THEN base[d] ELSE step[<<d, f[next[d]]>>]
           P == {n \in 0 .. N : \E f \in [Small(n) -> A] : \A d \in Small(n) : f[d] = Body(f, d)}
<1>1. 0 \in P
  <2> DEFINE f == [d \in Small(0) |-> base[d]]
  <2>1. \A d \in Small(0) : d \in stop
    <3> SUFFICES ASSUME NEW d \in D, size[d] <= 0, d \notin stop PROVE FALSE
      OBVIOUS
    <3>1. size[next[d]] < size[d] /\ size[d] \in 0 .. N /\ next[d] \in D
      OBVIOUS
    <3>2. size[next[d]] \in 0 .. N
      BY <3>1
    <3> QED
      BY <3>1, <3>2
  <2>2. f \in [Small(0) -> A] /\ \A d \in Small(0) : f[d] = Body(f, d)
    <3> HIDE DEF Small
    <3> QED
      BY <2>1
  <2> HIDE DEF f
  <2>3. 0 \in 0 .. N
    OBVIOUS
  <2> QED
    BY <2>2, <2>3
<1>2. ASSUME NEW n \in 0 .. N - 1, n \in P PROVE n + 1 \in P
  <2>1. PICK f \in [Small(n) -> A] : \A d \in Small(n) : f[d] = Body(f, d)
    BY <1>2
  <2> DEFINE h == [d \in Small(n + 1) |-> Body(f, d)]
  <2>2. ASSUME NEW d \in Small(n + 1), d \notin stop PROVE next[d] \in Small(n)
    <3>1. d \in D /\ size[d] \in 0 .. N /\ size[d] <= n + 1 /\ next[d] \in D /\ size[next[d]] < size[d]
      BY <2>2
    <3>2. size[next[d]] \in 0 .. N
      BY <3>1
    <3>3. size[next[d]] <= n
      BY <3>1, <3>2
    <3> QED
      BY <3>1, <3>3
  <2>3. \A d \in Small(n) : d \in Small(n + 1)
    <3> SUFFICES ASSUME NEW d \in D, size[d] <= n PROVE size[d] <= n + 1
      OBVIOUS
    <3>1. size[d] \in 0 .. N
      OBVIOUS
    <3> QED
      BY <3>1
  <2> HIDE DEF Small
  <2>4. h \in [Small(n + 1) -> A]
    <3> SUFFICES ASSUME NEW d \in Small(n + 1) PROVE Body(f, d) \in A
      OBVIOUS
    <3>1. d \in D
      BY DEF Small
    <3>2. CASE d \in stop
      BY <3>2
    <3>3. CASE d \notin stop
      <4>1. f[next[d]] \in A /\ d \in D \ stop
        BY <2>2, <3>1, <3>3
      <4>2. step[<<d, f[next[d]]>>] \in A
        BY <4>1
      <4> QED
        BY <3>3, <4>2
    <3> QED
      BY <3>2, <3>3
  <2>5. \A d \in Small(n) : h[d] = f[d]
    BY <2>1, <2>3
  <2>6. \A d \in Small(n + 1) : h[d] = Body(h, d)
    <3> SUFFICES ASSUME NEW d \in Small(n + 1) PROVE h[d] = Body(h, d)
      OBVIOUS
    <3>1. h[d] = Body(f, d)
      OBVIOUS
    <3>2. d \notin stop => h[next[d]] = f[next[d]]
      BY <2>2, <2>5
    <3> HIDE DEF h
    <3> QED
      BY <3>1, <3>2
  <2>7. n + 1 \in 0 .. N
    OBVIOUS
  <2> HIDE DEF h
  <2> QED
    BY <2>4, <2>6, <2>7
<1> HIDE DEF P
<1>3. N \in P
  <2>1. \A n \in 0 .. N - 1 : n \in P => n + 1 \in P
    BY <1>2
  <2>2. \A n \in 0 .. N : n \in P
    BY <1>1, <2>1, UpTo
  <2> QED
    BY <2>2
<1>4. PICK f \in [Small(N) -> A] : \A d \in Small(N) : f[d] = Body(f, d)
  BY <1>3 DEF P
<1>5. Small(N) = D
  <2>1. \A d \in D : size[d] \in 0 .. N
    OBVIOUS
  <2>2. \A d \in D : size[d] <= N
    BY <2>1
  <2> QED
    BY <2>2
<1>6. f \in [D -> A] /\ \A d \in D : f[d] = Body(f, d)
  BY <1>4, <1>5
<1> HIDE DEF Small
<1>7. f = [d \in D |-> Body(f, d)]
  BY <1>6
<1> QED
  BY <1>6, <1>7 DEF IsRecursive

\* What is so of an argument when it is so of those of smaller measure is so of all.
LEMMA ByMeasure ==
  ASSUME NEW D, NEW Q, NEW N \in Nat, NEW size \in [D -> 0 .. N],
         \A d \in D : (\A e \in D : size[e] < size[d] => e \in Q) => d \in Q
  PROVE  \A d \in D : d \in Q
<1> DEFINE T == {n \in 0 .. N : \E d \in D : size[d] = n /\ d \notin Q}
<1> SUFFICES ASSUME NEW d \in D, d \notin Q PROVE FALSE
  OBVIOUS
<1>1. T \in SUBSET Nat /\ size[d] \in T
  OBVIOUS
<1>2. PICK n \in T : \A m \in T : n <= m
  BY <1>1, LeastNumber
<1>3. PICK e \in D : size[e] = n /\ e \notin Q
  OBVIOUS
<1>4. PICK c \in D : size[c] < size[e] /\ c \notin Q
  BY <1>3
<1>5. size[c] \in T /\ size[c] \in 0 .. N /\ size[e] \in 0 .. N
  BY <1>4
<1> HIDE DEF T
<1>6. n <= size[c]
  BY <1>2, <1>5
<1> QED
  BY <1>3, <1>4, <1>5, <1>6
=============================================================================
