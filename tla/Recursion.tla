------------------------------ MODULE Recursion ------------------------------
(***************************************************************************)
(* Lemmas about functions defined by recursion over 0..N, from either end: *)
(* that there is one, and that what holds at 0 and is handed on from n - 1 *)
(* to n holds everywhere. The step is given as a function, so that the     *)
(* provers can instantiate it.                                             *)
(***************************************************************************)
EXTENDS Integers, WellFoundedInduction, TLAPS

\* A set of naturals has a least member.
LEMMA Least ==
    ASSUME NEW S, S \subseteq Nat, S # {}
    PROVE  \E x \in S : \A y \in S : x <= y
<1>1. PICK x \in S : \A y \in S : ~(<<y, x>> \in OpToRel(<, Nat))
  BY NatLessThanWellFounded, WFMin
<1>2. \A y \in S : ~(y < x)
  BY <1>1 DEF OpToRel
<1> QED
  BY <1>2

\* What is empty at 0 and cannot start at n is empty: induction up to N.
LEMMA NoFirst ==
    ASSUME NEW N \in Nat, NEW Bad \in SUBSET (0..N), 0 \notin Bad,
           \A n \in 1..N : n \in Bad => n - 1 \in Bad
    PROVE  Bad = {}
<1> SUFFICES ASSUME Bad # {} PROVE FALSE
  OBVIOUS
<1>1. PICK x \in Bad : \A y \in Bad : x <= y
  <2>1. Bad \subseteq Nat
    OBVIOUS
  <2> QED
    BY <2>1, Least
<1>2. x \in 1..N
  OBVIOUS
<1>3. x - 1 \in Bad /\ ~(x <= x - 1)
  BY <1>2
<1> QED
  BY <1>1, <1>3

\* A function whose values stay in T from each argument to the next.
LEMMA Stays ==
    ASSUME NEW T, NEW N \in Nat, NEW f, f[0] \in T,
           \A n \in 1..N : f[n - 1] \in T => f[n] \in T
    PROVE  \A n \in 0..N : f[n] \in T
<1> DEFINE Bad == {n \in 0..N : f[n] \notin T}
<1>1. Bad \in SUBSET (0..N) /\ 0 \notin Bad
  OBVIOUS
<1>2. \A n \in 1..N : n \in Bad => n - 1 \in Bad
  OBVIOUS
<1>3. Bad = {}
  <2> HIDE DEF Bad
  <2> QED
    BY <1>1, <1>2, NoFirst
<1> QED
  BY <1>3

\* f starts with b and goes on with the step g.
Iteration(f, T, N, b, g) ==
    /\ f \in [0..N -> T]
    /\ f[0] = b
    /\ \A n \in 1..N : f[n] = g[<<f[n - 1], n>>]

\* There is such a function.
LEMMA Iterates ==
    ASSUME NEW T, NEW N \in Nat, NEW b \in T, NEW g \in [T \X (1..N) -> T]
    PROVE  \E f : Iteration(f, T, N, b, g)
<1> DEFINE Upto(k) == \E f : Iteration(f, T, k, b, g)
           Bad == {k \in 0..N : ~Upto(k)}
<1>1. Upto(0)
  <2> DEFINE f == [n \in 0..0 |-> b]
  <2>1. Iteration(f, T, 0, b, g)
    BY DEF Iteration
  <2> QED
    BY <2>1
<1>2. ASSUME NEW k \in 1..N, Upto(k - 1)
      PROVE  Upto(k)
  <2>1. PICK f : Iteration(f, T, k - 1, b, g)
    BY <1>2
  <2> DEFINE e == [n \in 0..k |-> IF n = k THEN g[<<f[k - 1], k>>] ELSE f[n]]
  <2>2. f[k - 1] \in T /\ g[<<f[k - 1], k>>] \in T
    <3>1. f[k - 1] \in T
      BY <2>1 DEF Iteration
    <3> QED
      BY <3>1
  <2>3. e \in [0..k -> T]
    <3>1. \A n \in 0..k : n # k => f[n] \in T
      BY <2>1 DEF Iteration
    <3> QED
      BY <2>2, <3>1
  <2>4. e[0] = b
    BY <2>1 DEF Iteration
  <2>5. \A n \in 1..k : e[n] = g[<<e[n - 1], n>>]
    <3> SUFFICES ASSUME NEW n \in 1..k PROVE e[n] = g[<<e[n - 1], n>>]
      OBVIOUS
    <3>1. e[n - 1] = f[n - 1]
      OBVIOUS
    <3>2. CASE n = k
      <4>1. e[n] = g[<<f[k - 1], k>>]
        BY <3>2
      <4> QED
        BY <3>1, <3>2, <4>1
    <3>3. CASE n # k
      <4>1. n \in 1..(k - 1) /\ e[n] = f[n]
        BY <3>3
      <4> QED
        BY <2>1, <3>1, <4>1 DEF Iteration
    <3> QED
      BY <3>2, <3>3
  <2>6. Iteration(e, T, k, b, g)
    <3> HIDE DEF e
    <3> QED
      BY <2>3, <2>4, <2>5 DEF Iteration
  <2> QED
    BY <2>6
<1>3. Bad \in SUBSET (0..N) /\ 0 \notin Bad
  BY <1>1
<1>4. \A n \in 1..N : n \in Bad => n - 1 \in Bad
  <2> HIDE DEF Upto
  <2>1. \A n \in 1..N : n - 1 \in 0..N
    OBVIOUS
  <2> QED
    BY <1>2, <2>1
<1>5. Bad = {}
  <2> HIDE DEF Bad
  <2> QED
    BY <1>3, <1>4, NoFirst
<1>6. N \in 0..N
  OBVIOUS
<1> QED
  BY <1>5, <1>6

\* f ends with b and comes from there with the step g.
IterationDown(f, T, N, b, g) ==
    /\ f \in [0..N -> T]
    /\ f[N] = b
    /\ \A n \in 0..(N - 1) : f[n] = g[<<f[n + 1], n>>]

\* There is such a function.
LEMMA IteratesDown ==
    ASSUME NEW T, NEW N \in Nat, NEW b \in T, NEW g \in [T \X (0..(N - 1)) -> T]
    PROVE  \E f : IterationDown(f, T, N, b, g)
<1> DEFINE h == [w \in T \X (1..N) |-> g[<<w[1], N - w[2]>>]]
<1>1. h \in [T \X (1..N) -> T]
  BY SMT
<1>2. PICK f : Iteration(f, T, N, b, h)
  <2> HIDE DEF h
  <2> QED
    BY <1>1, Iterates
<1>3. \A n \in 1..N : f[n - 1] \in T /\ f[n] = g[<<f[n - 1], N - n>>]
  <2> SUFFICES ASSUME NEW n \in 1..N
               PROVE  f[n - 1] \in T /\ f[n] = g[<<f[n - 1], N - n>>]
    OBVIOUS
  <2>1. f[n - 1] \in T
    <3>1. n - 1 \in 0..N
      OBVIOUS
    <3> QED
      BY <1>2, <3>1 DEF Iteration
  <2>2. h[<<f[n - 1], n>>] = g[<<f[n - 1], N - n>>]
    BY <2>1
  <2>3. f[n] = h[<<f[n - 1], n>>]
    <3> HIDE DEF h
    <3> QED
      BY <1>2 DEF Iteration
  <2> HIDE DEF h
  <2> QED
    BY <2>1, <2>2, <2>3
<1> HIDE DEF h
<1> DEFINE d == [n \in 0..N |-> f[N - n]]
<1>4. d \in [0..N -> T] /\ d[N] = b
  BY <1>2 DEF Iteration
<1>5. ASSUME NEW n \in 0..(N - 1)
      PROVE  d[n] = g[<<d[n + 1], n>>]
  <2> DEFINE m == N - n
  <2>1. m \in 1..N /\ N - m = n /\ N - (n + 1) = m - 1 /\ n \in 0..N /\ n + 1 \in 0..N
    OBVIOUS
  <2>2. d[n] = f[m] /\ d[n + 1] = f[m - 1]
    BY <2>1
  <2> HIDE DEF d, m
  <2> QED
    BY <1>3, <2>1, <2>2
<1>6. IterationDown(d, T, N, b, g)
  <2> HIDE DEF d
  <2> QED
    BY <1>4, <1>5 DEF IterationDown
<1> QED
  BY <1>6

\* A bounded set of naturals has a greatest one.
LEMMA Greatest ==
    ASSUME NEW N \in Nat, NEW S \in SUBSET (0..N), S # {}
    PROVE  \E x \in S : \A y \in S : x >= y
<1> DEFINE R == {N - y : y \in S}
<1>1. R \subseteq Nat /\ R # {}
  <2>1. \A y \in S : N - y \in Nat
    OBVIOUS
  <2>2. PICK y \in S : TRUE
    OBVIOUS
  <2> QED
    BY <2>1, <2>2
<1>2. \E r \in R : \A z \in R : r <= z
  <2> HIDE DEF R
  <2> QED
    BY <1>1, Least
<1>3. PICK x \in S : \A z \in R : N - x <= z
  BY <1>2
<1>4. \A y \in S : x >= y
  <2> SUFFICES ASSUME NEW y \in S PROVE x >= y
    OBVIOUS
  <2>1. N - x <= N - y
    BY <1>2, <1>3
  <2>2. \A a, b \in 0..N : N - a <= N - b => a >= b
    OBVIOUS
  <2> QED
    BY <2>1, <2>2
<1> QED
  BY <1>4

\* Two functions that start alike and go on alike.
LEMMA SameRun ==
    ASSUME NEW N \in Nat, NEW f, NEW g, f[0] = g[0],
           \A n \in 1..N : f[n - 1] = g[n - 1] => f[n] = g[n]
    PROVE  \A n \in 0..N : f[n] = g[n]
<1> DEFINE Bad == {n \in 0..N : f[n] # g[n]}
<1>1. Bad \in SUBSET (0..N) /\ 0 \notin Bad
  OBVIOUS
<1>2. \A n \in 1..N : n \in Bad => n - 1 \in Bad
  OBVIOUS
<1>3. Bad = {}
  <2> HIDE DEF Bad
  <2> QED
    BY <1>1, <1>2, NoFirst
<1> QED
  BY <1>3
=============================================================================
