----------------------------- MODULE QueryProofs -----------------------------
(* Theorems about Query, for every query tree, storage and word size.  The   *)
(* recursive functions of mos_qry.c are shown to exist by induction over     *)
(* the steps; the stacks then follow the trace of the steps' results         *)
(* (StackInv), and the bitmaps' contents what the nodes mean (ContentInv).   *)
EXTENDS Query, FiniteSetTheorems, WellFoundedInduction, TLAPS

(* A non-empty set of natural numbers has a least element: what every      *)
(* induction below rests on.                                               *)
LEMMA LeastNatural ==
  ASSUME NEW S \in SUBSET Nat, S # {}
  PROVE  \E n \in S : \A m \in S : n <= m
<1>1. PICK R : R = OpToRel(<, Nat)
  OBVIOUS
<1>2. IsWellFoundedOn(R, Nat)
  BY <1>1, NatLessThanWellFounded
<1>3. PICK x \in S : \A y \in S : ~(<<y, x>> \in R)
  BY <1>2, WFMin
<1>4. \A y \in S : y < x => <<y, x>> \in R
  BY <1>1 DEF OpToRel
<1>5. \A y \in S : ~(y < x)
  BY <1>3, <1>4
<1> QED
  BY <1>5

(* A non-empty set of numbers up to N has a greatest element.              *)
LEMMA GreatestOf ==
  ASSUME NEW N \in Nat, NEW S \in SUBSET (1..N), S # {}
  PROVE  \E n \in S : \A m \in S : m <= n
<1> DEFINE T == {N - n : n \in S}
<1>1. T \in SUBSET Nat /\ T # {}
  <2>1. \A n \in S : N - n \in Nat
    OBVIOUS
  <2> QED
    BY <2>1
<1>2. PICK t \in T : \A u \in T : t <= u
  <2> HIDE DEF T
  <2> QED
    BY <1>1, LeastNatural
<1>3. PICK n \in S : t = N - n
  BY <1>2
<1>4. \A m \in S : N - n <= N - m
  BY <1>2, <1>3
<1>5. \A m \in S : m \in Int
  OBVIOUS
<1> QED
  BY <1>3, <1>4, <1>5

(* A function whose values are computed from those behind them exists, and *)
(* so does one whose values are computed from those before them.           *)
SameBehind(f, g, n, N) == \A k \in 1..N : k > n => f[k] = g[k]
LooksBehind(step, N, X) ==
  \A n \in 1..N, f, g \in [1..N -> X] : SameBehind(f, g, n, N) => step[n][f] = step[n][g]
Solves(f, N, step) == \A n \in 1..N : f[n] = step[n][f]
Follows(f, N, x, next) == f[0] = x /\ \A n \in 1..N : f[n] = next[n][f[n - 1]]

(* A recursive function exists when every value looks only at later ones,  *)
(* as mos_qry_build_exec_stack looks at the substeps of a step.            *)
LEMMA FromTheEnd ==
  ASSUME NEW N \in Nat, NEW X, NEW x \in X,
         NEW step \in [1..N -> [[1..N -> X] -> X]], LooksBehind(step, N, X)
  PROVE  \E f \in [1..N -> X] : Solves(f, N, step)
<1> DEFINE Good(f, k) == \A n \in 1..N : n >= k => f[n] = step[n][f]
           S == {k \in 1..(N + 1) : \E f \in [1..N -> X] : Good(f, k)}
<1>1. N + 1 \in S
  <2>1. [n \in 1..N |-> x] \in [1..N -> X]
    OBVIOUS
  <2>2. \A n \in 1..N : ~(n >= N + 1)
    OBVIOUS
  <2>3. Good([n \in 1..N |-> x], N + 1)
    BY <2>2
  <2>4. N + 1 \in 1..(N + 1)
    OBVIOUS
  <2> HIDE DEF Good
  <2> QED
    BY <2>1, <2>3, <2>4
<1>2. PICK k \in S : \A m \in S : k <= m
  <2>1. S \in SUBSET Nat
    OBVIOUS
  <2> HIDE DEF S
  <2> QED
    BY <1>1, <2>1, LeastNatural
<1>3. PICK f \in [1..N -> X] : Good(f, k)
  BY <1>2
<1>4. k = 1
  <2> SUFFICES ASSUME k # 1 PROVE FALSE
    OBVIOUS
  <2>1. k \in 2..(N + 1) /\ k - 1 \in 1..N
    BY <1>2
  <2>2. PICK p \in 1..N : p = k - 1
    BY <2>1
  <2>3. step[p][f] \in X
    BY <2>2
  <2> DEFINE g == [f EXCEPT ![p] = step[p][f]]
  <2>4. g \in [1..N -> X]
    BY <2>3
  <2>5. \A n \in 1..N : n # p => g[n] = f[n]
    OBVIOUS
  <2>6. g[p] = step[p][f]
    OBVIOUS
  <2> HIDE DEF g
  <2>7. \A n \in 1..N : n >= p => step[n][g] = step[n][f]
    <3> SUFFICES ASSUME NEW n \in 1..N, n >= p PROVE step[n][g] = step[n][f]
      OBVIOUS
    <3>1. SameBehind(g, f, n, N)
      BY <2>5 DEF SameBehind
    <3> QED
      BY <2>4, <3>1 DEF LooksBehind
  <2>8. Good(g, p)
    <3> SUFFICES ASSUME NEW n \in 1..N, n >= p PROVE g[n] = step[n][g]
      OBVIOUS
    <3>1. CASE n = p
      BY <2>6, <2>7, <3>1
    <3>2. CASE n # p
      <4>1. n >= k
        BY <2>1, <2>2, <3>2
      <4> QED
        BY <1>3, <2>5, <2>7, <3>2, <4>1
    <3> QED
      BY <3>1, <3>2
  <2>9. p \in S
    BY <2>4, <2>8
  <2> HIDE DEF S
  <2> QED
    BY <1>2, <2>1, <2>2, <2>9
<1>5. \A n \in 1..N : f[n] = step[n][f]
  BY <1>3, <1>4
<1> QED
  BY <1>5 DEF Solves

(* A recursive function exists when every value looks only at the one      *)
(* before, as the loops of mos_qry.c do.                                   *)
LEMMA FromTheStart ==
  ASSUME NEW N \in Nat, NEW X, NEW x \in X, NEW next \in [1..N -> [X -> X]]
  PROVE  \E f \in [0..N -> X] : Follows(f, N, x, next)
<1> DEFINE Good(f, k) == \A n \in 0..N : n <= k => f[n] = IF n = 0 THEN x ELSE next[n][f[n - 1]]
           S == {k \in 0..N : \E f \in [0..N -> X] : Good(f, N - k)}
<1>1. N \in S
  <2>1. [n \in 0..N |-> x] \in [0..N -> X]
    OBVIOUS
  <2>2. \A n \in 0..N : n <= N - N => n = 0
    OBVIOUS
  <2>3. Good([n \in 0..N |-> x], N - N)
    BY <2>2
  <2> QED
    BY <2>1, <2>3
<1>2. PICK k \in S : \A m \in S : k <= m
  <2>1. S \in SUBSET Nat
    OBVIOUS
  <2> HIDE DEF S
  <2> QED
    BY <1>1, <2>1, LeastNatural
<1>3. PICK f \in [0..N -> X] : Good(f, N - k)
  BY <1>2
<1>4. k = 0
  <2> SUFFICES ASSUME k # 0 PROVE FALSE
    OBVIOUS
  <2>1. k \in 1..N
    BY <1>2
  <2>2. PICK p \in 1..N : p = N - k + 1
    BY <2>1
  <2>3. p - 1 \in 0..N /\ p \in 0..N
    BY <2>2
  <2>4. next[p][f[p - 1]] \in X
    BY <2>3
  <2> DEFINE g == [f EXCEPT ![p] = next[p][f[p - 1]]]
  <2>5. g \in [0..N -> X]
    BY <2>4
  <2>6. \A n \in 0..N : n # p => g[n] = f[n]
    OBVIOUS
  <2>7. g[p] = next[p][f[p - 1]]
    BY <2>3
  <2> HIDE DEF g
  <2>8. Good(g, p)
    <3> SUFFICES ASSUME NEW n \in 0..N, n <= p
                 PROVE  g[n] = IF n = 0 THEN x ELSE next[n][g[n - 1]]
      OBVIOUS
    <3>1. CASE n = p
      <4>1. n - 1 \in 0..N /\ n - 1 # p /\ n # 0
        BY <3>1, <2>3
      <4> QED
        BY <2>6, <2>7, <3>1, <4>1
    <3>2. CASE n # p
      <4>1. n <= N - k
        BY <2>1, <2>2, <3>2
      <4>2. f[n] = IF n = 0 THEN x ELSE next[n][f[n - 1]]
        BY <1>3, <4>1
      <4>3. n # 0 => n - 1 \in 0..N /\ n - 1 # p
        OBVIOUS
      <4> QED
        BY <2>6, <3>2, <4>2, <4>3
    <3> QED
      BY <3>1, <3>2
  <2>9. k - 1 \in S
    <3>1. k - 1 \in 0..N /\ N - (k - 1) = p
      BY <2>1, <2>2
    <3> QED
      BY <2>5, <2>8, <3>1
  <2> HIDE DEF S
  <2> QED
    BY <1>2, <2>1, <2>9
<1>5. \A n \in 0..N : f[n] = IF n = 0 THEN x ELSE next[n][f[n - 1]]
  <2>1. \A n \in 0..N : n <= N - k
    BY <1>4
  <2> QED
    BY <1>3, <2>1
<1>6. 0 \in 0..N /\ \A n \in 1..N : n \in 0..N /\ n # 0
  OBVIOUS
<1> QED
  BY <1>5, <1>6 DEF Follows

(* Induction from the start, and from the end.                             *)
LEMMA Upwards ==
  ASSUME NEW N \in Nat, NEW S, 0 \in S, \A n \in 1..N : n - 1 \in S => n \in S
  PROVE  \A n \in 0..N : n \in S
<1> DEFINE Bad == {n \in 0..N : n \notin S}
<1>1. Bad \in SUBSET Nat
  OBVIOUS
<1> SUFFICES ASSUME Bad # {} PROVE FALSE
  OBVIOUS
<1>2. PICK n \in Bad : \A m \in Bad : n <= m
  <2> HIDE DEF Bad
  <2> QED
    BY <1>1, LeastNatural
<1>3. n \in 1..N
  BY <1>2
<1>4. n - 1 \in 0..N /\ ~(n <= n - 1)
  BY <1>3
<1>5. n - 1 \in S
  BY <1>2, <1>4
<1> QED
  BY <1>2, <1>3, <1>5

(* A set is everything when it has every number whose successors it has.   *)
LEMMA Downwards ==
  ASSUME NEW N \in Nat, NEW S,
         \A n \in 1..N : (\A m \in 1..N : m > n => m \in S) => n \in S
  PROVE  \A n \in 1..N : n \in S
<1> DEFINE Bad == {n \in 1..N : n \notin S}
<1>1. Bad \in SUBSET (1..N)
  OBVIOUS
<1> SUFFICES ASSUME Bad # {} PROVE FALSE
  OBVIOUS
<1>2. PICK n \in Bad : \A m \in Bad : m <= n
  <2> HIDE DEF Bad
  <2> QED
    BY <1>1, GreatestOf
<1>3. \A m \in 1..N : m > n => ~(m <= n)
  BY <1>2
<1> QED
  BY <1>2, <1>3

(* Two such functions are the same.                                        *)
LEMMA SameFromTheStart ==
  ASSUME NEW N \in Nat, NEW f, NEW g, f[0] = g[0],
         \A n \in 1..N : f[n - 1] = g[n - 1] => f[n] = g[n]
  PROVE  \A n \in 0..N : f[n] = g[n]
<1> DEFINE S == {n \in 0..N : f[n] = g[n]}
<1>1. 0 \in S
  OBVIOUS
<1>2. \A n \in 1..N : n - 1 \in S => n \in S
  OBVIOUS
<1>3. \A n \in 0..N : n \in S
  <2> HIDE DEF S
  <2> QED
    BY <1>1, <1>2, Upwards
<1> QED
  BY <1>3
-----------------------------------------------------------------------------
(* The concatenations of k sequences, a later one in front.                *)
Concatenates(b, k, part) == b[0] = << >> /\ \A i \in 1..k : b[i] = part[i] \o b[i - 1]

(* Such concatenations exist.                                              *)
LEMMA Concatenations ==
  ASSUME NEW k \in Nat, NEW S, NEW part \in [1..k -> Seq(S)]
  PROVE  \E b \in [0..k -> Seq(S)] : Concatenates(b, k, part)
<1>1. PICK X : X = Seq(S)
  OBVIOUS
<1>2. PICK x \in X : x = << >>
  <2>1. << >> \in Seq(S)
    OBVIOUS
  <2> QED
    BY <1>1, <2>1
<1>3. PICK next : next = [i \in 1..k |-> [s \in X |-> part[i] \o s]]
  OBVIOUS
<1>4. next \in [1..k -> [X -> X]]
  <2>1. \A i \in 1..k, s \in X : part[i] \o s \in X
    BY <1>1
  <2> QED
    BY <1>3, <2>1
<1>5. PICK b \in [0..k -> X] : Follows(b, k, x, next)
  BY <1>4, FromTheStart
<1>6. b[0] = x /\ \A i \in 1..k : b[i] = next[i][b[i - 1]]
  BY <1>5 DEF Follows
<1>7. \A i \in 1..k : b[i - 1] \in X
  OBVIOUS
<1>8. \A i \in 1..k : b[i] = part[i] \o b[i - 1]
  BY <1>3, <1>6, <1>7
<1> QED
  BY <1>1, <1>2, <1>6, <1>8 DEF Concatenates

(* And there is one.                                                       *)
LEMMA SameConcatenations ==
  ASSUME NEW k \in Nat, NEW part, NEW b, NEW c,
         Concatenates(b, k, part), Concatenates(c, k, part)
  PROVE  b[k] = c[k]
<1>1. b[0] = c[0]
  BY DEF Concatenates
<1>2. \A i \in 1..k : b[i - 1] = c[i - 1] => b[i] = c[i]
  BY DEF Concatenates
<1>3. \A i \in 0..k : b[i] = c[i]
  BY <1>1, <1>2, SameFromTheStart
<1>4. k \in 0..k
  OBVIOUS
<1> QED
  BY <1>3, <1>4

Tree(q, N) ==
  /\ N \in Nat /\ N > 0 /\ DOMAIN q.op = 1..N
  /\ q.subs \in [1..N -> Seq(1..N)]
  /\ \A n \in 1..N : \A i \in 1..Len(q.subs[n]) : q.subs[n][i] > n

(* The substeps of a step are steps further on, so that recursion over     *)
(* them ends.                                                              *)
LEMMA Substeps ==
  ASSUME NEW q, NEW N, Tree(q, N), NEW n \in 1..N
  PROVE  /\ Len(q.subs[n]) \in Nat /\ DOMAIN q.subs[n] = 1..Len(q.subs[n])
         /\ \A i \in 1..Len(q.subs[n]) :
              q.subs[n][i] \in 1..N /\ q.subs[n][i] > n /\ ~(q.subs[n][i] <= n)
<1>1. q.subs[n] \in Seq(1..N) /\ N \in Nat
  BY DEF Tree
<1>2. \A i \in 1..Len(q.subs[n]) : q.subs[n][i] \in 1..N
  BY <1>1
<1>3. \A i \in 1..Len(q.subs[n]) : q.subs[n][i] > n
  BY DEF Tree
<1>4. \A m \in 1..N : m > n => ~(m <= n)
  BY <1>1
<1> QED
  BY <1>1, <1>2, <1>3, <1>4

(* The steps of n's substeps, each taken from f.                           *)
Parts(q, f, n) == [i \in 1..Len(q.subs[n]) |-> f[q.subs[n][i]]]

PartsIn(q, f, n, k, S) ==
  k \in Nat /\ k = Len(q.subs[n]) /\ Parts(q, f, n) \in [1..k -> Seq(S)]
IsBelow(q, f, n, k, S) ==
  \E b \in [0..k -> Seq(S)] :
    Concatenates(b, k, Parts(q, f, n)) /\ Below(q, f, n) = b[k]

(* Below(q, f, n) is the concatenation of what f has for the substeps of   *)
(* n.                                                                      *)
LEMMA BelowIs ==
  ASSUME NEW q, NEW f, NEW n, NEW k, NEW S, PartsIn(q, f, n, k, S)
  PROVE  IsBelow(q, f, n, k, S)
<1>1. k \in Nat /\ k = Len(q.subs[n])
  BY DEF PartsIn
<1>2. PICK part \in [1..k -> Seq(S)] : part = Parts(q, f, n)
  BY DEF PartsIn
<1> DEFINE Is(b) == b = [i \in 0..k |-> IF i = 0 THEN << >> ELSE f[q.subs[n][i]] \o b[i - 1]]
<1>3. PICK b \in [0..k -> Seq(S)] : Concatenates(b, k, part)
  BY <1>1, Concatenations
<1>4. \A i \in 1..k : part[i] = f[q.subs[n][i]]
  BY <1>1, <1>2 DEF Parts
<1>5. 0 \in 0..k /\ \A i \in 1..k : i \in 0..k /\ i # 0
  BY <1>1
<1>6. Is(b)
  <2>1. \A i \in 0..k : i = 0 \/ i \in 1..k
    BY <1>1
  <2>2. \A i \in 0..k : b[i] = IF i = 0 THEN << >> ELSE f[q.subs[n][i]] \o b[i - 1]
    BY <1>3, <1>4, <2>1 DEF Concatenates
  <2> QED
    BY <2>2
<1>7. Is(CHOOSE c : Is(c))
  <2> HIDE DEF Is
  <2> QED
    BY <1>6
<1>8. PICK c : c = (CHOOSE d : Is(d)) /\ Is(c)
  BY <1>7
<1>9. Below(q, f, n) = c[k]
  BY <1>1, <1>8 DEF Below
<1>10. Concatenates(c, k, part)
  <2>1. c[0] = << >>
    BY <1>5, <1>8
  <2>2. \A i \in 1..k : c[i] = f[q.subs[n][i]] \o c[i - 1]
    BY <1>5, <1>8
  <2> QED
    BY <1>4, <2>1, <2>2 DEF Concatenates
<1>11. c[k] = b[k]
  BY <1>1, <1>3, <1>10, SameConcatenations
<1> QED
  BY <1>2, <1>3, <1>9, <1>11 DEF IsBelow

(* Below looks at the substeps only: two functions that agree behind n     *)
(* give the same.                                                          *)
LEMMA BelowSame ==
  ASSUME NEW q, NEW N, Tree(q, N), NEW n \in 1..N, NEW f, NEW g, SameBehind(f, g, n, N)
  PROVE  Below(q, f, n) = Below(q, g, n)
<1>1. /\ Len(q.subs[n]) \in Nat
      /\ \A i \in 1..Len(q.subs[n]) : f[q.subs[n][i]] = g[q.subs[n][i]]
  BY Substeps DEF SameBehind
<1>2. PICK F, G : /\ F = Below(q, f, n) /\ G = Below(q, g, n)
  OBVIOUS
<1> DEFINE k == Len(q.subs[n])
           IsF(b) == b = [i \in 0..k |-> IF i = 0 THEN << >> ELSE f[q.subs[n][i]] \o b[i - 1]]
           IsG(b) == b = [i \in 0..k |-> IF i = 0 THEN << >> ELSE g[q.subs[n][i]] \o b[i - 1]]
<1>3. \A b : IsF(b) <=> IsG(b)
  <2> SUFFICES ASSUME NEW b PROVE IsF(b) <=> IsG(b)
    OBVIOUS
  <2>1. \A i \in 0..k : i = 0 \/ i \in 1..k
    BY <1>1
  <2>2. \A i \in 0..k : (IF i = 0 THEN << >> ELSE f[q.subs[n][i]] \o b[i - 1])
                        = (IF i = 0 THEN << >> ELSE g[q.subs[n][i]] \o b[i - 1])
    BY <1>1, <2>1
  <2> QED
    BY <2>2
<1>4. (CHOOSE b : IsF(b)) = (CHOOSE b : IsG(b))
  <2> HIDE DEF IsF, IsG
  <2> QED
    BY <1>3
<1>5. Below(q, f, n) = (CHOOSE b : IsF(b))[k] /\ Below(q, g, n) = (CHOOSE b : IsG(b))[k]
  BY DEF Below
<1> QED
  BY <1>4, <1>5

IsBuilt(b, q, N) == \A n \in 1..N : b[n] = <<n>> \o Below(q, b, n)

(* A step and the steps below it are a sequence of steps.                  *)
LEMMA BuildTyped ==
  ASSUME NEW q, NEW N, Tree(q, N), NEW n \in 1..N,
         NEW f, \A m \in 1..N : m > n => f[m] \in Seq(1..N)
  PROVE  <<n>> \o Below(q, f, n) \in Seq(1..N)
<1>1. PICK k \in Nat : k = Len(q.subs[n])
  BY Substeps
<1>2. Parts(q, f, n) \in [1..k -> Seq(1..N)]
  BY <1>1, Substeps DEF Parts
<1>3. PICK b \in [0..k -> Seq(1..N)] : Below(q, f, n) = b[k]
  <2>1. PartsIn(q, f, n, k, 1..N)
    BY <1>1, <1>2 DEF PartsIn
  <2>2. IsBelow(q, f, n, k, 1..N)
    BY <2>1, BelowIs
  <2> QED
    BY <2>2 DEF IsBelow
<1>4. k \in 0..k
  OBVIOUS
<1>5. Below(q, f, n) \in Seq(1..N)
  BY <1>3, <1>4
<1>6. <<n>> \in Seq(1..N)
  OBVIOUS
<1> QED
  BY <1>5, <1>6

(* mos_qry_build_exec_stack ends for every query tree, with the steps of   *)
(* the root.                                                               *)
LEMMA BuildIs ==
  ASSUME NEW q, NEW N, Tree(q, N)
  PROVE  \E b \in [1..N -> Seq(1..N)] : Build(q) = b[1] /\ IsBuilt(b, q, N)
<1>0. N \in Nat /\ N > 0 /\ DOMAIN q.op = 1..N
  BY DEF Tree
<1>1. PICK X : X = Seq(1..N)
  OBVIOUS
<1>2. PICK step : step = [n \in 1..N |-> [f \in [1..N -> X] |-> <<n>> \o Below(q, f, n)]]
  OBVIOUS
<1> DEFINE Is(b) == b = [n \in 1..N |-> <<n>> \o Below(q, b, n)]
<1>3. step \in [1..N -> [[1..N -> X] -> X]]
  <2>1. \A n \in 1..N, f \in [1..N -> X] : <<n>> \o Below(q, f, n) \in X
    <3> SUFFICES ASSUME NEW n \in 1..N, NEW f \in [1..N -> X]
                 PROVE  <<n>> \o Below(q, f, n) \in X
      OBVIOUS
    <3> QED
      BY <1>1, BuildTyped
  <2> QED
    BY <1>2, <2>1
<1>4. LooksBehind(step, N, X)
  <2> SUFFICES ASSUME NEW n \in 1..N, NEW f \in [1..N -> X], NEW g \in [1..N -> X],
                      SameBehind(f, g, n, N)
               PROVE  step[n][f] = step[n][g]
    BY DEF LooksBehind
  <2>1. Below(q, f, n) = Below(q, g, n)
    BY BelowSame
  <2>2. step[n][f] = <<n>> \o Below(q, f, n) /\ step[n][g] = <<n>> \o Below(q, g, n)
    BY <1>2
  <2> QED
    BY <2>1, <2>2
<1>5. PICK x \in X : x = << >>
  <2>1. << >> \in Seq(1..N)
    OBVIOUS
  <2> QED
    BY <1>1, <2>1
<1>6. PICK f \in [1..N -> X] : Solves(f, N, step)
  BY <1>0, <1>3, <1>4, FromTheEnd
<1>7. Is(f)
  <2>1. \A n \in 1..N : f[n] = <<n>> \o Below(q, f, n)
    BY <1>2, <1>6 DEF Solves
  <2> QED
    BY <2>1
<1>8. PICK b : b = (CHOOSE c : Is(c)) /\ Is(b)
  <2> HIDE DEF Is
  <2> QED
    BY <1>7
<1>9. Build(q) = b[1]
  BY <1>0, <1>8 DEF Build
<1>10. IsBuilt(b, q, N)
  BY <1>8 DEF IsBuilt
<1>11. \A n \in 1..N : b[n] \in X
  <2> DEFINE S == {n \in 1..N : b[n] \in X}
  <2>1. ASSUME NEW n \in 1..N, \A m \in 1..N : m > n => m \in S
        PROVE  n \in S
    <3>1. \A m \in 1..N : m > n => b[m] \in Seq(1..N)
      BY <1>1, <2>1
    <3>2. <<n>> \o Below(q, b, n) \in Seq(1..N)
      BY <3>1, BuildTyped
    <3> QED
      BY <1>1, <1>10, <3>2 DEF IsBuilt
  <2>2. \A n \in 1..N : n \in S
    <3> HIDE DEF S
    <3> QED
      BY <1>0, <2>1, Downwards
  <2> QED
    BY <2>2
<1>12. b \in [1..N -> Seq(1..N)]
  <2>1. DOMAIN b = 1..N /\ b = [n \in DOMAIN b |-> b[n]]
    BY <1>8
  <2> QED
    BY <1>1, <1>11, <2>1
<1> QED
  BY <1>9, <1>10, <1>12
-----------------------------------------------------------------------------
(* Nodes whose results are on the stack, before and after the step of n.   *)
Applied(q, n, before, after) ==
  /\ Len(q.subs[n]) <= Len(before)
  /\ Len(after) = Len(before) - Len(q.subs[n]) + 1
  /\ \A s \in 1..(Len(before) - Len(q.subs[n])) : after[s] = before[s]
  /\ after[Len(after)] = n
  /\ \A i \in 1..Len(q.subs[n]) : before[Len(before) - Len(q.subs[n]) + i] = q.subs[n][i]

(* What is on the stack before and after each of the steps.                *)
IsTrace(V, q, N, run) ==
  /\ V \in [1..(Len(run) + 1) -> Seq(1..N)]
  /\ \A i \in 1..Len(run) : Applied(q, run[i], V[i + 1], V[i])
Evaluates(q, N, run, before, after) ==
  \E V : IsTrace(V, q, N, run) /\ V[Len(run) + 1] = before /\ V[1] = after

(* No step changes nothing.                                                *)
LEMMA NoSteps ==
  ASSUME NEW q, NEW N, NEW b \in Seq(1..N)
  PROVE  Evaluates(q, N, << >>, b, b)
<1>1. Len(<< >>) = 0
  OBVIOUS
<1>2. IsTrace([i \in 1..1 |-> b], q, N, << >>)
  BY <1>1 DEF IsTrace
<1> QED
  BY <1>1, <1>2 DEF Evaluates

(* One step takes its substeps from the stack and puts itself there.       *)
LEMMA OneStep ==
  ASSUME NEW q, NEW N, NEW n, NEW b \in Seq(1..N), NEW c \in Seq(1..N), Applied(q, n, b, c)
  PROVE  Evaluates(q, N, <<n>>, b, c)
<1> DEFINE V == [i \in 1..2 |-> IF i = 1 THEN c ELSE b]
<1>1. Len(<<n>>) = 1 /\ <<n>>[1] = n
  OBVIOUS
<1>2. V[1] = c /\ V[2] = b /\ V \in [1..2 -> Seq(1..N)]
  OBVIOUS
<1>3. \A i \in 1..1 : i = 1
  OBVIOUS
<1> HIDE DEF V
<1>4. IsTrace(V, q, N, <<n>>)
  BY <1>1, <1>2, <1>3 DEF IsTrace
<1> QED
  BY <1>1, <1>2, <1>4 DEF Evaluates

(* What a concatenation is made of.                                        *)
LEMMA Elements ==
  ASSUME NEW S, NEW s \in Seq(S), NEW t \in Seq(S)
  PROVE  /\ s \o t \in Seq(S) /\ Len(s) \in Nat /\ Len(t) \in Nat
         /\ Len(s \o t) = Len(s) + Len(t)
         /\ \A i \in 1..Len(s) : (s \o t)[i] = s[i]
         /\ \A i \in 1..Len(t) : (s \o t)[Len(s) + i] = t[i]
  OBVIOUS

(* Steps on top of others run after them.                                  *)
LEMMA BothSteps ==
  ASSUME NEW q, NEW N, NEW s \in Seq(1..N), NEW t \in Seq(1..N), NEW b, NEW c, NEW d,
         Evaluates(q, N, t, b, c), Evaluates(q, N, s, c, d)
  PROVE  Evaluates(q, N, s \o t, b, d)
<1>1. PICK V : IsTrace(V, q, N, t) /\ V[Len(t) + 1] = b /\ V[1] = c
  BY DEF Evaluates
<1>2. PICK W : IsTrace(W, q, N, s) /\ W[Len(s) + 1] = c /\ W[1] = d
  BY DEF Evaluates
<1>3. PICK l \in Nat, k \in Nat : l = Len(s) /\ k = Len(t)
  OBVIOUS
<1>4. PICK u : u = s \o t /\ Len(u) = l + k /\ (\A i \in 1..l : u[i] = s[i])
                /\ (\A i \in 1..k : u[l + i] = t[i])
  <2>1. /\ Len(s \o t) = l + k /\ (\A i \in 1..l : (s \o t)[i] = s[i])
        /\ (\A i \in 1..k : (s \o t)[l + i] = t[i])
    BY <1>3, Elements
  <2> QED
    BY <2>1, Zenon
<1>5. /\ V \in [1..(k + 1) -> Seq(1..N)] /\ W \in [1..(l + 1) -> Seq(1..N)]
      /\ \A i \in 1..k : Applied(q, t[i], V[i + 1], V[i])
      /\ \A i \in 1..l : Applied(q, s[i], W[i + 1], W[i])
  BY <1>1, <1>2, <1>3 DEF IsTrace
<1> DEFINE Z == [i \in 1..(l + k + 1) |-> IF i <= l THEN W[i] ELSE V[i - l]]
<1>6. Z \in [1..(l + k + 1) -> Seq(1..N)]
  <2> SUFFICES ASSUME NEW i \in 1..(l + k + 1)
               PROVE  (IF i <= l THEN W[i] ELSE V[i - l]) \in Seq(1..N)
    OBVIOUS
  <2>1. (i <= l => i \in 1..(l + 1)) /\ (~(i <= l) => i - l \in 1..(k + 1))
    OBVIOUS
  <2> QED
    BY <1>5, <2>1
<1>7. /\ \A i \in 1..(l + 1) : Z[i] = W[i]
      /\ \A i \in 1..(k + 1) : Z[l + i] = V[i]
  <2>1. ASSUME NEW i \in 1..(l + 1) PROVE Z[i] = W[i]
    <3>1. i \in 1..(l + k + 1)
      OBVIOUS
    <3>2. CASE i <= l
      BY <3>1, <3>2
    <3>3. CASE i = l + 1
      <4>1. i - l = 1 /\ ~(i <= l)
        BY <3>3
      <4> QED
        BY <1>1, <1>2, <1>3, <3>1, <3>3, <4>1
    <3> QED
      BY <3>2, <3>3
  <2>2. ASSUME NEW i \in 1..(k + 1) PROVE Z[l + i] = V[i]
    <3>1. l + i \in 1..(l + k + 1) /\ ~(l + i <= l) /\ l + i - l = i
      OBVIOUS
    <3> QED
      BY <3>1
  <2> QED
    BY <2>1, <2>2
<1> HIDE DEF Z
<1>8. ASSUME NEW i \in 1..(l + k)
      PROVE  Applied(q, u[i], Z[i + 1], Z[i])
  <2>1. CASE i <= l
    <3>1. i \in 1..l /\ i \in 1..(l + 1) /\ i + 1 \in 1..(l + 1)
      BY <2>1
    <3> QED
      BY <1>4, <1>5, <1>7, <3>1
  <2>2. CASE ~(i <= l)
    <3>1. PICK j \in 1..k : i = l + j
      <4>1. i - l \in 1..k /\ i = l + (i - l)
        BY <2>2
      <4> QED
        BY <4>1
    <3>2. j \in 1..(k + 1) /\ j + 1 \in 1..(k + 1) /\ i + 1 = l + (j + 1)
      BY <3>1
    <3>3. u[i] = t[j] /\ Applied(q, t[j], V[j + 1], V[j])
      BY <1>4, <1>5, <3>1
    <3>4. Z[i] = V[j] /\ Z[i + 1] = V[j + 1]
      BY <1>7, <3>1, <3>2
    <3> QED
      BY <3>3, <3>4
  <2> QED
    BY <2>1, <2>2
<1>9. IsTrace(Z, q, N, u)
  BY <1>4, <1>6, <1>8 DEF IsTrace
<1>10. Z[1] = d /\ Z[Len(u) + 1] = b
  <2>1. 1 \in 1..(l + 1) /\ k + 1 \in 1..(k + 1) /\ l + (k + 1) = l + k + 1
    OBVIOUS
  <2> QED
    BY <1>1, <1>2, <1>3, <1>4, <1>7, <2>1
<1> QED
  BY <1>4, <1>9, <1>10 DEF Evaluates

(* A stack with one more node on it, and with the first i nodes of t.      *)
Grown(s, n, t) == Len(t) = Len(s) + 1 /\ t[Len(t)] = n /\ \A j \in 1..Len(s) : t[j] = s[j]
PutOn(s, t, i) == [j \in 1..(Len(s) + i) |-> IF j <= Len(s) THEN s[j] ELSE t[j - Len(s)]]

Joins(p, s, t, i) ==
  /\ Len(p) = Len(s) + i /\ \A j \in 1..Len(s) : p[j] = s[j]
  /\ \A j \in 1..i : p[Len(s) + j] = t[j]

(* The nodes that PutOn puts together.                                     *)
LEMMA PutOnIs ==
  ASSUME NEW S, NEW s \in Seq(S), NEW t \in Seq(S), NEW i \in 0..Len(t)
  PROVE  PutOn(s, t, i) \in Seq(S) /\ Joins(PutOn(s, t, i), s, t, i)
<1>1. PICK l \in Nat, k \in Nat : l = Len(s) /\ k = Len(t) /\ i \in 0..k
  OBVIOUS
<1>2. PICK p : p = PutOn(s, t, i)
  OBVIOUS
<1>3. p = [j \in 1..(l + i) |-> IF j <= l THEN s[j] ELSE t[j - l]]
  BY <1>1, <1>2 DEF PutOn
<1>4. ASSUME NEW j \in 1..(l + i) PROVE (IF j <= l THEN s[j] ELSE t[j - l]) \in S
  <2>1. (j <= l => j \in 1..l) /\ (~(j <= l) => j - l \in 1..k)
    BY <1>1
  <2> QED
    BY <1>1, <2>1
<1>5. l + i \in Nat
  BY <1>1
<1>6. p \in Seq(S) /\ Len(p) = l + i
  BY <1>3, <1>4, <1>5
<1>7. \A j \in 1..l : p[j] = s[j]
  BY <1>1, <1>3
<1>8. \A j \in 1..i : l + j \in 1..(l + i) /\ ~(l + j <= l) /\ l + j - l = j
  BY <1>1
<1>9. \A j \in 1..i : p[l + j] = t[j]
  BY <1>3, <1>8
<1> QED
  BY <1>1, <1>2, <1>6, <1>7, <1>9 DEF Joins

(* Nothing put on a stack leaves it alone.                                 *)
LEMMA PutOnNone ==
  ASSUME NEW S, NEW s \in Seq(S), NEW t
  PROVE  PutOn(s, t, 0) = s
<1>1. PICK l \in Nat : l = Len(s)
  OBVIOUS
<1>2. s = [j \in 1..l |-> s[j]]
  BY <1>1
<1>3. l + 0 = l /\ \A j \in 1..l : j <= l
  OBVIOUS
<1>4. [j \in 1..l |-> IF j <= l THEN s[j] ELSE t[j - l]] = [j \in 1..l |-> s[j]]
  BY <1>3
<1> QED
  BY <1>1, <1>2, <1>3, <1>4 DEF PutOn

(* Each further node is one more on top.                                   *)
LEMMA PutOnMore ==
  ASSUME NEW S, NEW s \in Seq(S), NEW t \in Seq(S), NEW i \in 1..Len(t)
  PROVE  Grown(PutOn(s, t, i - 1), t[i], PutOn(s, t, i))
<1>1. PICK l \in Nat, k \in Nat : l = Len(s) /\ k = Len(t) /\ i \in 1..k
  OBVIOUS
<1>2. i \in 0..k /\ i - 1 \in 0..k
  BY <1>1
<1>3. PICK p, o : p = PutOn(s, t, i) /\ o = PutOn(s, t, i - 1)
  OBVIOUS
<1>4. /\ Len(p) = l + i /\ (\A j \in 1..l : p[j] = s[j]) /\ (\A j \in 1..i : p[l + j] = t[j])
  <2>1. Joins(p, s, t, i)
    BY <1>1, <1>2, <1>3, PutOnIs
  <2> QED
    BY <1>1, <2>1 DEF Joins
<1>5. /\ Len(o) = l + (i - 1) /\ (\A j \in 1..l : o[j] = s[j])
      /\ (\A j \in 1..(i - 1) : o[l + j] = t[j])
  <2>1. Joins(o, s, t, i - 1)
    BY <1>1, <1>2, <1>3, PutOnIs
  <2> QED
    BY <1>1, <2>1 DEF Joins
<1>6. ASSUME NEW j \in 1..Len(o) PROVE p[j] = o[j]
  <2>1. CASE j <= l
    <3>1. j \in 1..l
      BY <1>5, <2>1
    <3> QED
      BY <1>4, <1>5, <3>1
  <2>2. CASE ~(j <= l)
    <3>1. PICK m \in 1..(i - 1) : j = l + m
      <4>1. j - l \in 1..(i - 1) /\ j = l + (j - l)
        BY <1>5, <2>2
      <4> QED
        BY <4>1
    <3>2. m \in 1..i
      BY <1>1
    <3> QED
      BY <1>4, <1>5, <3>1, <3>2
  <2> QED
    BY <2>1, <2>2
<1>7. Len(p) = Len(o) + 1 /\ p[Len(p)] = t[i]
  <2>1. i \in 1..i /\ l + i = (l + (i - 1)) + 1
    BY <1>1
  <2> QED
    BY <1>4, <1>5, <2>1
<1> QED
  BY <1>3, <1>6, <1>7 DEF Grown

(* A step applies to a stack that ends with its substeps.                  *)
LEMMA Applies ==
  ASSUME NEW q, NEW N, Tree(q, N), NEW n \in 1..N, NEW s \in Seq(1..N), NEW t, Grown(s, n, t)
  PROVE  Applied(q, n, PutOn(s, q.subs[n], Len(q.subs[n])), t)
<1>1. PICK u \in Seq(1..N) : u = q.subs[n]
  BY DEF Tree
<1>2. PICK l \in Nat, k \in Nat : l = Len(s) /\ k = Len(u)
  OBVIOUS
<1>3. k \in 0..k /\ l <= l + k /\ k <= l + k /\ (l + k) - k = l
  OBVIOUS
<1>4. PICK p : p = PutOn(s, u, k)
  OBVIOUS
<1>5. /\ Len(p) = l + k /\ (\A j \in 1..l : p[j] = s[j]) /\ (\A j \in 1..k : p[l + j] = u[j])
  <2>1. Joins(p, s, u, k)
    BY <1>2, <1>3, <1>4, PutOnIs
  <2> QED
    BY <1>2, <2>1 DEF Joins
<1>6. Len(t) = l + 1 /\ t[Len(t)] = n /\ \A j \in 1..l : t[j] = s[j]
  BY <1>2 DEF Grown
<1>7. Len(p) - k = l
  BY <1>3, <1>5
<1>8. Applied(q, n, p, t)
  BY <1>1, <1>2, <1>3, <1>5, <1>6, <1>7 DEF Applied
<1> QED
  BY <1>1, <1>2, <1>4, <1>8

Puts(q, N, n, run) ==
  \A s, t \in Seq(1..N) : Grown(s, n, t) => Evaluates(q, N, run, s, t)

(* The steps below n leave the substeps of n on the stack, in their order. *)
LEMMA BelowPutsOn ==
  ASSUME NEW q, NEW N, Tree(q, N), NEW n \in 1..N, NEW b \in [1..N -> Seq(1..N)],
         \A m \in 1..N : m > n => Puts(q, N, m, b[m]), NEW s \in Seq(1..N)
  PROVE  Evaluates(q, N, Below(q, b, n), s, PutOn(s, q.subs[n], Len(q.subs[n])))
<1>1. PICK u \in Seq(1..N) : u = q.subs[n]
  BY DEF Tree
<1>2. PICK k \in Nat : k = Len(u)
  OBVIOUS
<1>3. \A i \in 1..k : u[i] \in 1..N /\ u[i] > n
  BY <1>1, <1>2, Substeps
<1>4. PICK part : part = Parts(q, b, n)
  OBVIOUS
<1>5. part \in [1..k -> Seq(1..N)] /\ \A i \in 1..k : part[i] = b[u[i]]
  BY <1>1, <1>2, <1>3, <1>4 DEF Parts
<1>6. IsBelow(q, b, n, k, 1..N)
  <2>1. PartsIn(q, b, n, k, 1..N)
    BY <1>1, <1>2, <1>4, <1>5 DEF PartsIn
  <2> QED
    BY <2>1, BelowIs
<1>7. PICK c \in [0..k -> Seq(1..N)] : Concatenates(c, k, part) /\ Below(q, b, n) = c[k]
  BY <1>4, <1>6 DEF IsBelow
<1> DEFINE S == {i \in 0..k : Evaluates(q, N, c[i], s, PutOn(s, u, i))}
<1>8. 0 \in S
  <2>1. PutOn(s, u, 0) = s
    BY PutOnNone
  <2>2. c[0] = << >> /\ 0 \in 0..k
    BY <1>7 DEF Concatenates
  <2>3. Evaluates(q, N, << >>, s, s)
    BY NoSteps
  <2> QED
    BY <2>1, <2>2, <2>3
<1>9. ASSUME NEW i \in 1..k, i - 1 \in S PROVE i \in S
  <2>1. i \in 0..k /\ i - 1 \in 0..k
    OBVIOUS
  <2>2. c[i] = b[u[i]] \o c[i - 1]
    BY <1>5, <1>7 DEF Concatenates
  <2>3. PICK o, p : o = PutOn(s, u, i - 1) /\ p = PutOn(s, u, i)
    OBVIOUS
  <2>4. o \in Seq(1..N) /\ p \in Seq(1..N)
    BY <1>2, <2>1, <2>3, PutOnIs
  <2>5. Grown(o, u[i], p)
    BY <1>2, <2>3, PutOnMore
  <2>6. Puts(q, N, u[i], b[u[i]])
    BY <1>3
  <2>7. Evaluates(q, N, b[u[i]], o, p)
    BY <2>4, <2>5, <2>6 DEF Puts
  <2>8. Evaluates(q, N, c[i - 1], s, o)
    BY <1>9, <2>3
  <2>9. b[u[i]] \in Seq(1..N) /\ c[i - 1] \in Seq(1..N)
    BY <1>3, <2>1
  <2>10. Evaluates(q, N, b[u[i]] \o c[i - 1], s, p)
    BY <2>7, <2>8, <2>9, BothSteps
  <2> QED
    BY <2>1, <2>2, <2>3, <2>10
<1>10. \A i \in 0..k : i \in S
  <2> HIDE DEF S
  <2> QED
    BY <1>8, <1>9, Upwards
<1>11. k \in S
  BY <1>10
<1> QED
  BY <1>1, <1>2, <1>7, <1>11

(* Every part of the execution stack that belongs to a node puts that one  *)
(* node on the stack, whatever was there before.                           *)
LEMMA BuildPuts ==
  ASSUME NEW q, NEW N, Tree(q, N), NEW b \in [1..N -> Seq(1..N)], IsBuilt(b, q, N)
  PROVE  \A n \in 1..N : Puts(q, N, n, b[n])
<1>0. N \in Nat
  BY DEF Tree
<1> DEFINE S == {n \in 1..N : Puts(q, N, n, b[n])}
<1>1. ASSUME NEW n \in 1..N, \A m \in 1..N : m > n => m \in S
      PROVE  n \in S
  <2> SUFFICES ASSUME NEW s \in Seq(1..N), NEW t \in Seq(1..N), Grown(s, n, t)
               PROVE  Evaluates(q, N, b[n], s, t)
    BY DEF Puts
  <2>1. PICK o : o = PutOn(s, q.subs[n], Len(q.subs[n]))
    OBVIOUS
  <2>2. PICK w : w = Below(q, b, n)
    OBVIOUS
  <2>3. Evaluates(q, N, w, s, o)
    <3>1. \A m \in 1..N : m > n => Puts(q, N, m, b[m])
      BY <1>1
    <3> QED
      BY <2>1, <2>2, <3>1, BelowPutsOn
  <2>4. o \in Seq(1..N)
    <3>1. PICK u \in Seq(1..N) : u = q.subs[n]
      BY DEF Tree
    <3>2. Len(u) \in 0..Len(u)
      OBVIOUS
    <3> QED
      BY <2>1, <3>1, <3>2, PutOnIs
  <2>5. Evaluates(q, N, <<n>>, o, t)
    BY <2>1, <2>4, Applies, OneStep
  <2>6. w \in Seq(1..N) /\ <<n>> \in Seq(1..N)
    <3>1. IsBelow(q, b, n, Len(q.subs[n]), 1..N)
      <4>1. Parts(q, b, n) \in [1..Len(q.subs[n]) -> Seq(1..N)] /\ Len(q.subs[n]) \in Nat
        BY Substeps DEF Parts
      <4>2. PartsIn(q, b, n, Len(q.subs[n]), 1..N)
        BY <4>1 DEF PartsIn
      <4> QED
        BY <4>2, BelowIs
    <3>2. Len(q.subs[n]) \in Nat
      BY Substeps
    <3>3. PICK k \in Nat : k = Len(q.subs[n])
      BY <3>2
    <3>4. PICK c \in [0..k -> Seq(1..N)] : w = c[k]
      BY <2>2, <3>1, <3>3 DEF IsBelow
    <3>5. k \in 0..k
      OBVIOUS
    <3>6. w \in Seq(1..N)
      BY <3>4, <3>5
    <3> QED
      BY <3>6
  <2>7. Evaluates(q, N, <<n>> \o w, s, t)
    BY <2>3, <2>5, <2>6, BothSteps
  <2> QED
    BY <2>2, <2>7 DEF IsBuilt
<1>2. \A n \in 1..N : n \in S
  <2> HIDE DEF S
  <2> QED
    BY <1>0, <1>1, Downwards
<1> QED
  BY <1>2

(* A whole execution: it starts without results and ends with the root's.  *)
Stages(V, q) ==
  /\ IsTrace(V, q, Len(q.op), Build(q))
  /\ V[Len(Build(q)) + 1] = << >> /\ V[1] = <<1>>

(* The execution stack of a query can be executed: there is a stack of     *)
(* results before and after each step.                                     *)
LEMMA Executes ==
  ASSUME NEW q, WellFormed(q)
  PROVE  /\ Tree(q, Len(q.op)) /\ Build(q) \in Seq(1..Len(q.op))
         /\ Len(q.op) \in Nat /\ Len(Build(q)) \in Nat
         /\ \E V : Stages(V, q)
<1>1. PICK N \in Nat : N = Len(q.op) /\ N > 0 /\ DOMAIN q.op = 1..N
  <2>1. q.op \in Seq(Ops) /\ q.op # << >>
    BY DEF WellFormed, QueryTree
  <2>2. Len(q.op) \in Nat /\ Len(q.op) > 0 /\ DOMAIN q.op = 1..Len(q.op)
    BY <2>1
  <2> QED
    BY <2>2
<1>2. Tree(q, N)
  <2>1. q.subs \in [1..N -> Seq(1..N)]
    BY <1>1 DEF WellFormed, QueryTree
  <2>2. \A n \in 1..N : \A i \in DOMAIN q.subs[n] : q.subs[n][i] > n
    BY <1>1 DEF WellFormed, QueryTree
  <2>3. \A n \in 1..N : DOMAIN q.subs[n] = 1..Len(q.subs[n])
    BY <2>1
  <2> QED
    BY <1>1, <2>1, <2>2, <2>3 DEF Tree
<1>3. PICK b \in [1..N -> Seq(1..N)] : Build(q) = b[1] /\ IsBuilt(b, q, N)
  BY <1>2, BuildIs
<1>4. 1 \in 1..N
  BY <1>1
<1>5. Puts(q, N, 1, b[1])
  BY <1>2, <1>3, <1>4, BuildPuts
<1>6. Grown(<< >>, 1, <<1>>) /\ << >> \in Seq(1..N) /\ <<1>> \in Seq(1..N)
  BY <1>4 DEF Grown
<1>7. Evaluates(q, N, b[1], << >>, <<1>>)
  BY <1>5, <1>6 DEF Puts
<1>8. PICK V : IsTrace(V, q, N, b[1]) /\ V[Len(b[1]) + 1] = << >> /\ V[1] = <<1>>
  BY <1>7 DEF Evaluates
<1>9. Stages(V, q)
  BY <1>1, <1>3, <1>8 DEF Stages
<1>10. b[1] \in Seq(1..N)
  BY <1>4
<1>11. Len(b[1]) \in Nat
  BY <1>10
<1> QED
  BY <1>1, <1>2, <1>3, <1>9, <1>10, <1>11

(* A finite sequence of numbers has a greatest element.                    *)
LEMMA Greatest ==
  ASSUME NEW l \in Nat, l > 0, NEW f \in [1..l -> Nat]
  PROVE  \E j \in 1..l : \A i \in 1..l : f[i] <= f[j]
<1> DEFINE S == {k \in 0..l : k = 0 \/ \E j \in 1..k : \A i \in 1..k : f[i] <= f[j]}
<1>1. 0 \in S
  OBVIOUS
<1>2. ASSUME NEW k \in 1..l, k - 1 \in S PROVE k \in S
  <2>1. CASE k = 1
    BY <2>1
  <2>2. CASE k # 1
    <3>1. PICK j \in 1..(k - 1) : \A i \in 1..(k - 1) : f[i] <= f[j]
      BY <1>2, <2>2
    <3>2. \A i \in 1..k : i \in 1..(k - 1) \/ i = k
      OBVIOUS
    <3>3. k \in 1..k /\ j \in 1..k /\ f[j] \in Nat /\ f[k] \in Nat /\ k \in 0..l
      OBVIOUS
    <3>4. \A i \in 1..k : f[i] \in Nat
      OBVIOUS
    <3>5. CASE f[k] <= f[j]
      <4>1. \A i \in 1..k : f[i] <= f[j]
        BY <3>1, <3>2, <3>5
      <4> QED
        BY <3>3, <4>1
    <3>6. CASE ~(f[k] <= f[j])
      <4>1. \A i \in 1..(k - 1) : f[i] <= f[k]
        <5>1. ASSUME NEW i \in 1..(k - 1) PROVE f[i] <= f[k]
          <6>1. f[i] <= f[j] /\ f[i] \in Nat
            BY <3>1, <3>4
          <6> QED
            BY <3>3, <3>6, <6>1
        <5> QED
          BY <5>1
      <4>2. \A i \in 1..k : f[i] <= f[k]
        BY <3>2, <3>3, <4>1
      <4> QED
        BY <3>3, <4>2
    <3> QED
      BY <3>5, <3>6
  <2> QED
    BY <2>1, <2>2
<1>3. \A k \in 0..l : k \in S
  <2> HIDE DEF S
  <2> QED
    BY <1>1, <1>2, Upwards
<1>4. l \in 0..l
  OBVIOUS
<1>5. l \in S
  BY <1>3, <1>4
<1> QED
  BY <1>5

(* What a step finds and leaves, by the number of results.                 *)
LEMMA StageLengths ==
  ASSUME NEW q, WellFormed(q), NEW V, Stages(V, q),
         NEW i \in 1..Len(Build(q))
  PROVE  /\ Build(q)[i] \in 1..Len(q.op) /\ i + 1 \in 1..(Len(Build(q)) + 1)
         /\ i \in 1..(Len(Build(q)) + 1) /\ Len(Build(q)) \in Nat
         /\ V[i] \in Seq(1..Len(q.op)) /\ V[i + 1] \in Seq(1..Len(q.op))
         /\ Len(V[i]) \in Nat /\ Len(V[i + 1]) \in Nat
         /\ Len(q.subs[Build(q)[i]]) \in Nat
         /\ Applied(q, Build(q)[i], V[i + 1], V[i])
<1>1. PICK N, B, l : /\ N = Len(q.op) /\ B = Build(q) /\ l = Len(B) /\ B \in Seq(1..N)
                     /\ N \in Nat /\ l \in Nat
  <2>1. /\ Build(q) \in Seq(1..Len(q.op)) /\ Len(q.op) \in Nat /\ Len(Build(q)) \in Nat
    BY Executes
  <2> QED
    BY <2>1
<1>2. Tree(q, N)
  BY <1>1, Executes
<1>3. V \in [1..(l + 1) -> Seq(1..N)] /\ Applied(q, B[i], V[i + 1], V[i])
  BY <1>1 DEF Stages, IsTrace
<1>4. B[i] \in 1..N /\ i + 1 \in 1..(l + 1) /\ i \in 1..(l + 1)
  BY <1>1
<1>5. Len(q.subs[B[i]]) \in Nat
  BY <1>2, <1>4, Substeps
<1>6. V[i] \in Seq(1..N) /\ V[i + 1] \in Seq(1..N)
  BY <1>3, <1>4
<1>7. Len(V[i]) \in Nat /\ Len(V[i + 1]) \in Nat
  BY <1>6
<1> QED
  BY <1>1, <1>3, <1>4, <1>5, <1>6, <1>7

Sizes(f, q, B) ==
  f = [i \in 1..(Len(B) + 1) |-> IF i > Len(B) THEN 0 ELSE f[i + 1] - Len(q.subs[B[i]]) + 1]

(* The recursion of mos_qry_calc_bitmap_stack_size has one solution: at    *)
(* each step, how many results there are.                                  *)
LEMMA SizesAre ==
  ASSUME NEW q, WellFormed(q), NEW V, Stages(V, q)
  PROVE  /\ \E f : Sizes(f, q, Build(q))
         /\ \A f : Sizes(f, q, Build(q)) => \A i \in 1..(Len(Build(q)) + 1) : f[i] = Len(V[i])
<1>0. PICK l \in Nat : l = Len(Build(q))
  <2>1. Len(Build(q)) \in Nat
    BY Executes
  <2> QED
    BY <2>1
<1>1. PICK B : B = Build(q) /\ l = Len(B)
  BY <1>0
<1>2. \A i \in 1..l : /\ Len(V[i]) \in Nat /\ Len(V[i + 1]) \in Nat
                      /\ Len(q.subs[B[i]]) \in Nat /\ Applied(q, B[i], V[i + 1], V[i])
  BY <1>1, StageLengths
<1>3. \A i \in 1..l : Len(V[i]) = Len(V[i + 1]) - Len(q.subs[B[i]]) + 1
  BY <1>2 DEF Applied
<1>4. Len(V[l + 1]) = 0
  <2>1. V[l + 1] = << >>
    BY <1>1 DEF Stages
  <2> QED
    BY <2>1
<1>5. \A i \in 1..(l + 1) : (i \in 1..l /\ ~(i > l) /\ i + 1 \in 1..(l + 1)) \/ (i = l + 1 /\ i > l)
  BY <1>1
<1>6. PICK f : f = [i \in 1..(l + 1) |-> Len(V[i])]
  OBVIOUS
<1>7. \A i \in 1..(l + 1) : f[i] = Len(V[i])
  BY <1>6
<1>8. \A i \in 1..(l + 1) : f[i] = IF i > l THEN 0 ELSE f[i + 1] - Len(q.subs[B[i]]) + 1
  BY <1>3, <1>4, <1>5, <1>7
<1>9. Sizes(f, q, B)
  <2>1. f = [i \in 1..(l + 1) |-> f[i]]
    BY <1>6
  <2>2. [i \in 1..(l + 1) |-> f[i]]
        = [i \in 1..(l + 1) |-> IF i > l THEN 0 ELSE f[i + 1] - Len(q.subs[B[i]]) + 1]
    BY <1>8
  <2> QED
    BY <1>1, <2>1, <2>2 DEF Sizes
<1>10. ASSUME NEW g, Sizes(g, q, B)
       PROVE  \A i \in 1..(l + 1) : g[i] = Len(V[i])
  <2>1. g = [i \in 1..(l + 1) |-> IF i > l THEN 0 ELSE g[i + 1] - Len(q.subs[B[i]]) + 1]
    BY <1>1, <1>10 DEF Sizes
  <2>2. \A i \in 1..(l + 1) : g[i] = IF i > l THEN 0 ELSE g[i + 1] - Len(q.subs[B[i]]) + 1
    BY <2>1
  <2> DEFINE S == {i \in 1..(l + 1) : g[i] = Len(V[i])}
  <2>3. ASSUME NEW i \in 1..(l + 1), \A m \in 1..(l + 1) : m > i => m \in S
        PROVE  i \in S
    <3>1. CASE i = l + 1
      BY <1>4, <1>5, <2>2, <3>1
    <3>2. CASE i # l + 1
      <4>1. i \in 1..l /\ i + 1 \in 1..(l + 1) /\ i + 1 > i /\ ~(i > l)
        BY <3>2
      <4>2. g[i + 1] = Len(V[i + 1])
        BY <2>3, <4>1
      <4> QED
        BY <1>3, <2>2, <4>1, <4>2
    <3> QED
      BY <3>1, <3>2
  <2>4. l + 1 \in Nat
    OBVIOUS
  <2>5. \A i \in 1..(l + 1) : i \in S
    <3> HIDE DEF S
    <3> QED
      BY <2>3, <2>4, Downwards
  <2> QED
    BY <2>5
<1> QED
  BY <1>1, <1>9, <1>10

(* mos_qry_calc_bitmap_stack_size is the largest number of results there   *)
(* are at a time, reached after some step.                                 *)
LEMMA StackSizeIs ==
  ASSUME NEW q, WellFormed(q), NEW V, Stages(V, q)
  PROVE  /\ BitmapStackSize(q, Build(q)) \in Nat
         /\ \E i \in 1..Len(Build(q)) : BitmapStackSize(q, Build(q)) = Len(V[i])
         /\ \A i \in 1..(Len(Build(q)) + 1) : Len(V[i]) <= BitmapStackSize(q, Build(q))
<1>0. PICK l \in Nat : l = Len(Build(q))
  <2>1. Len(Build(q)) \in Nat
    BY Executes
  <2> QED
    BY <2>1
<1>1. PICK B : B = Build(q) /\ l = Len(B)
  BY <1>0
<1>2. PICK f : f = (CHOOSE g : Sizes(g, q, B))
  OBVIOUS
<1>3. Sizes(f, q, B)
  BY <1>1, <1>2, SizesAre
<1>4. \A i \in 1..(l + 1) : f[i] = Len(V[i])
  BY <1>1, <1>3, SizesAre
<1>5. PICK M : M = {f[i] : i \in 1..l}
  OBVIOUS
<1>6. BitmapStackSize(q, B) = Max(M)
  BY <1>1, <1>2, <1>5 DEF BitmapStackSize, Sizes
<1>7. \A i \in 1..l : i \in 1..(l + 1) /\ Len(V[i]) \in Nat
  BY <1>1, StageLengths
<1>8. l > 0
  <2> SUFFICES ASSUME l = 0 PROVE FALSE
    OBVIOUS
  <2>1. V[0 + 1] = << >> /\ V[1] = <<1>>
    BY <1>1 DEF Stages
  <2> QED
    BY <2>1
<1>9. PICK j \in 1..l : \A i \in 1..l : Len(V[i]) <= Len(V[j])
  <2>1. PICK g : g = [i \in 1..l |-> Len(V[i])]
    OBVIOUS
  <2>2. g \in [1..l -> Nat] /\ \A i \in 1..l : g[i] = Len(V[i])
    BY <1>7, <2>1
  <2>3. PICK j \in 1..l : \A i \in 1..l : g[i] <= g[j]
    BY <1>8, <2>2, Greatest
  <2> QED
    BY <2>2, <2>3
<1>10. M = {Len(V[i]) : i \in 1..l}
  BY <1>4, <1>5, <1>7
<1>11. PICK m : m = Len(V[j]) /\ m \in M /\ m \in Nat
  BY <1>7, <1>10
<1>12. \A y \in M : m >= y
  BY <1>7, <1>9, <1>10, <1>11
<1>13. Max(M) \in M /\ \A y \in M : Max(M) >= y
  BY <1>11, <1>12 DEF Max
<1>14. \A i \in 1..l : Len(V[i]) <= Max(M)
  BY <1>7, <1>10, <1>13
<1>15. Len(V[l + 1]) = 0
  <2>1. V[l + 1] = << >>
    BY <1>1 DEF Stages
  <2> QED
    BY <2>1
<1>16. Max(M) \in Nat /\ \E i \in 1..l : Max(M) = Len(V[i])
  BY <1>7, <1>10, <1>13
<1>17. \A i \in 1..(l + 1) : i \in 1..l \/ i = l + 1
  OBVIOUS
<1>18. \A i \in 1..(l + 1) : Len(V[i]) <= Max(M)
  BY <1>14, <1>15, <1>16, <1>17
<1> QED
  BY <1>1, <1>6, <1>16, <1>18

-----------------------------------------------------------------------------
(* The two stacks: a bitmap is in one slot of one of them.                 *)
Pools(M, f, ft, r, rt) ==
  /\ M \in Nat /\ rt \in 0..M /\ ft \in 0..M /\ ft + rt = M
  /\ f \in [1..M -> Nat \cup {None}] /\ r \in [1..M -> Nat \cup {None, Garbage}]
  /\ \A s \in 1..ft : f[s] \in 1..M
  /\ \A s \in (ft + 1)..M : f[s] = None
  /\ \A s \in 1..rt : r[s] \in 1..M
  /\ \A b \in 1..M : (\E s \in 1..ft : f[s] = b) \/ (\E s \in 1..rt : r[s] = b)
  /\ \A s \in 1..ft, t \in 1..ft : f[s] = f[t] => s = t
  /\ \A s \in 1..rt, t \in 1..rt : r[s] = r[t] => s = t
  /\ \A s \in 1..ft, t \in 1..rt : f[s] # r[t]

SameOn(u, r, low, high) == \A s \in low..high : u[s] = r[s]
NoneOn(u, low, high) == \A s \in low..high : u[s] = None

(* Popping a free bitmap and pushing it as a result keeps the stacks       *)
(* apart.                                                                  *)
LEMMA TakeKeeps ==
  ASSUME NEW M, NEW f, NEW ft, NEW r, NEW rt, Pools(M, f, ft, r, rt), ft > 0
  PROVE  /\ Pools(M, [f EXCEPT ![ft] = None], ft - 1, [r EXCEPT ![rt + 1] = f[ft]], rt + 1)
         /\ SameOn([r EXCEPT ![rt + 1] = f[ft]], r, rt + 2, M)
         /\ SameOn([r EXCEPT ![rt + 1] = f[ft]], r, 1, rt)
         /\ SameOn([f EXCEPT ![ft] = None], f, 1, ft - 1)
<1>1. /\ M \in Nat /\ rt \in 0..M /\ ft \in 0..M /\ ft + rt = M /\ ft \in 1..M /\ rt + 1 \in 1..M
      /\ ft - 1 \in 0..M /\ rt + 1 \in 0..M /\ (ft - 1) + (rt + 1) = M /\ ft \in 1..ft
  BY DEF Pools
<1>2. PICK g, u : g = [f EXCEPT ![ft] = None] /\ u = [r EXCEPT ![rt + 1] = f[ft]]
  OBVIOUS
<1>3. f[ft] \in 1..M /\ f[ft] \in Nat
  BY <1>1 DEF Pools
<1>4. /\ g \in [1..M -> Nat \cup {None}] /\ u \in [1..M -> Nat \cup {None, Garbage}]
      /\ g[ft] = None /\ u[rt + 1] = f[ft]
      /\ \A s \in 1..M : (s # ft => g[s] = f[s]) /\ (s # rt + 1 => u[s] = r[s])
  BY <1>1, <1>2, <1>3 DEF Pools
<1>5. /\ \A s \in 1..(ft - 1) : s \in 1..M /\ s # ft /\ s \in 1..ft
      /\ \A s \in 1..ft : s \in 1..(ft - 1) \/ s = ft
      /\ \A s \in 1..rt : s \in 1..M /\ s # rt + 1 /\ s \in 1..(rt + 1)
      /\ \A s \in 1..(rt + 1) : s \in 1..rt \/ s = rt + 1
      /\ \A s \in ((ft - 1) + 1)..M : s \in 1..M /\ (s = ft \/ s \in (ft + 1)..M)
      /\ \A s \in (rt + 2)..M : s \in 1..M /\ s # rt + 1
      /\ rt + 1 \in 1..(rt + 1)
  BY <1>1
<1>6. /\ \A s \in 1..(ft - 1) : g[s] = f[s]
      /\ \A s \in 1..rt : u[s] = r[s]
      /\ \A s \in (rt + 2)..M : u[s] = r[s]
  BY <1>4, <1>5
<1>7. /\ \A s \in 1..(ft - 1) : g[s] \in 1..M
      /\ \A s \in ((ft - 1) + 1)..M : g[s] = None
      /\ \A s \in 1..(rt + 1) : u[s] \in 1..M
  <2>1. /\ \A s \in 1..ft : f[s] \in 1..M
        /\ \A s \in (ft + 1)..M : f[s] = None
        /\ \A s \in 1..rt : r[s] \in 1..M
    BY DEF Pools
  <2>2. \A s \in 1..(ft - 1) : g[s] \in 1..M
    BY <1>5, <1>6, <2>1
  <2>3. ASSUME NEW s \in ((ft - 1) + 1)..M PROVE g[s] = None
    <3>1. s \in 1..M /\ (s = ft \/ s \in (ft + 1)..M)
      BY <1>5, <2>3
    <3>2. s # ft => g[s] = f[s]
      BY <1>4, <3>1
    <3> QED
      BY <1>4, <2>1, <3>1, <3>2
  <2>4. \A s \in 1..(rt + 1) : u[s] \in 1..M
    BY <1>3, <1>4, <1>5, <1>6, <2>1
  <2> QED
    BY <2>2, <2>3, <2>4
<1>8. ASSUME NEW b \in 1..M
      PROVE  (\E s \in 1..(ft - 1) : g[s] = b) \/ (\E s \in 1..(rt + 1) : u[s] = b)
  <2>1. (\E s \in 1..ft : f[s] = b) \/ (\E s \in 1..rt : r[s] = b)
    BY DEF Pools
  <2>2. CASE \E s \in 1..ft : f[s] = b
    BY <1>4, <1>5, <1>6, <2>2
  <2>3. CASE \E s \in 1..rt : r[s] = b
    BY <1>5, <1>6, <2>3
  <2> QED
    BY <2>1, <2>2, <2>3
<1>9. \A s \in 1..(ft - 1), t \in 1..(ft - 1) : g[s] = g[t] => s = t
  BY <1>5, <1>6 DEF Pools
<1>10. \A s \in 1..(rt + 1), t \in 1..(rt + 1) : u[s] = u[t] => s = t
  <2>1. \A s \in 1..rt : u[s] # u[rt + 1]
    BY <1>1, <1>4, <1>6 DEF Pools
  <2>2. \A s \in 1..rt, t \in 1..rt : u[s] = u[t] => s = t
    BY <1>6 DEF Pools
  <2> QED
    BY <1>5, <2>1, <2>2
<1>11. \A s \in 1..(ft - 1), t \in 1..(rt + 1) : g[s] # u[t]
  <2>1. \A s \in 1..(ft - 1), t \in 1..rt : g[s] # u[t]
    BY <1>5, <1>6 DEF Pools
  <2>2. \A s \in 1..(ft - 1) : g[s] # u[rt + 1]
    <3>1. \A s \in 1..(ft - 1) : f[s] # f[ft]
      BY <1>1, <1>5 DEF Pools
    <3> QED
      BY <1>4, <1>6, <3>1
  <2> QED
    BY <1>5, <2>1, <2>2
<1>12. Pools(M, g, ft - 1, u, rt + 1)
  BY <1>1, <1>4, <1>7, <1>8, <1>9, <1>10, <1>11 DEF Pools
<1> QED
  BY <1>2, <1>6, <1>12 DEF SameOn

Given(f, ft, r, rt, c) ==
  [s \in DOMAIN f |-> IF s \in (ft + 1)..(ft + c) THEN r[rt - (s - ft - 1)] ELSE f[s]]
Left(r, rt, c) == [s \in DOMAIN r |-> IF s \in (rt - c + 1)..rt THEN None ELSE r[s]]

(* Giving the upper c results back keeps the stacks apart.                 *)
LEMMA GiveKeeps ==
  ASSUME NEW M, NEW f, NEW ft, NEW r, NEW rt, Pools(M, f, ft, r, rt), NEW c \in 0..(rt - 1)
  PROVE  /\ Pools(M, Given(f, ft, r, rt, c), ft + c, Left(r, rt, c), rt - c)
         /\ SameOn(Left(r, rt, c), r, 1, rt - c)
         /\ NoneOn(Left(r, rt, c), rt - c + 1, rt)
         /\ SameOn(Left(r, rt, c), r, rt + 1, M)
<1>1. /\ M \in Nat /\ rt \in 0..M /\ ft \in 0..M /\ ft + rt = M /\ c \in Nat
      /\ ft + c \in 0..M /\ rt - c \in 0..M /\ (ft + c) + (rt - c) = M
  BY DEF Pools
<1>2. PICK g, u : g = Given(f, ft, r, rt, c) /\ u = Left(r, rt, c)
  OBVIOUS
<1>3. /\ \A s \in (ft + 1)..(ft + c) : s \in 1..M /\ rt - (s - ft - 1) \in (rt - c + 1)..rt
      /\ \A t \in (rt - c + 1)..rt : /\ ft + 1 + (rt - t) \in (ft + 1)..(ft + c) /\ t \in 1..rt
                                     /\ t \in 1..M
                                     /\ rt - ((ft + 1 + (rt - t)) - ft - 1) = t
      /\ \A s \in 1..ft : s \in 1..M /\ ~(s \in (ft + 1)..(ft + c)) /\ s \in 1..(ft + c)
      /\ \A s \in (ft + 1)..(ft + c) : s \in 1..(ft + c)
      /\ \A s \in 1..(ft + c) : s \in 1..ft \/ s \in (ft + 1)..(ft + c)
      /\ \A s \in (ft + c + 1)..M : s \in 1..M /\ ~(s \in (ft + 1)..(ft + c)) /\ s \in (ft + 1)..M
      /\ \A s \in 1..(rt - c) : s \in 1..M /\ ~(s \in (rt - c + 1)..rt) /\ s \in 1..rt
      /\ \A s \in 1..rt : s \in 1..(rt - c) \/ s \in (rt - c + 1)..rt
      /\ \A s \in (rt + 1)..M : s \in 1..M /\ ~(s \in (rt - c + 1)..rt)
  BY <1>1
<1>4. /\ DOMAIN f = 1..M /\ DOMAIN r = 1..M
      /\ \A s \in 1..ft : f[s] \in Nat
      /\ \A s \in 1..rt : r[s] \in 1..M /\ r[s] \in Nat
  BY <1>1 DEF Pools
<1>5. /\ g = [s \in 1..M |-> IF s \in (ft + 1)..(ft + c) THEN r[rt - (s - ft - 1)] ELSE f[s]]
      /\ u = [s \in 1..M |-> IF s \in (rt - c + 1)..rt THEN None ELSE r[s]]
  BY <1>2, <1>4 DEF Given, Left
<1>6. /\ \A s \in 1..ft : g[s] = f[s]
      /\ \A s \in (ft + 1)..(ft + c) : g[s] = r[rt - (s - ft - 1)]
      /\ \A s \in (ft + c + 1)..M : g[s] = f[s]
      /\ \A s \in 1..(rt - c) : u[s] = r[s]
      /\ \A s \in (rt - c + 1)..rt : u[s] = None
      /\ \A s \in (rt + 1)..M : u[s] = r[s]
  BY <1>3, <1>5
<1>7. \A s \in (ft + 1)..(ft + c) : \E t \in (rt - c + 1)..rt : g[s] = r[t] /\ t = rt - (s - ft - 1)
  BY <1>3, <1>6
<1>8. \A t \in (rt - c + 1)..rt : \E s \in (ft + 1)..(ft + c) : g[s] = r[t]
  BY <1>3, <1>6
<1>9. /\ g \in [1..M -> Nat \cup {None}] /\ u \in [1..M -> Nat \cup {None, Garbage}]
  <2>1. \A s \in 1..M : (IF s \in (ft + 1)..(ft + c) THEN r[rt - (s - ft - 1)] ELSE f[s])
                        \in Nat \cup {None}
    <3>1. \A s \in (ft + 1)..(ft + c) : r[rt - (s - ft - 1)] \in Nat
      BY <1>3, <1>4
    <3>2. \A s \in 1..M : f[s] \in Nat \cup {None}
      BY DEF Pools
    <3> QED
      BY <3>1, <3>2
  <2>2. \A s \in 1..M : (IF s \in (rt - c + 1)..rt THEN None ELSE r[s])
                        \in Nat \cup {None, Garbage}
    <3>1. \A s \in 1..M : r[s] \in Nat \cup {None, Garbage}
      BY DEF Pools
    <3> QED
      BY <3>1
  <2> QED
    BY <1>5, <2>1, <2>2
<1>10. /\ \A s \in 1..(ft + c) : g[s] \in 1..M
       /\ \A s \in (ft + c + 1)..M : g[s] = None
       /\ \A s \in 1..(rt - c) : u[s] \in 1..M
  <2>1. \A s \in (ft + 1)..(ft + c) : g[s] \in 1..M
    BY <1>3, <1>4, <1>7
  <2>2. \A s \in 1..ft : g[s] \in 1..M
    BY <1>6 DEF Pools
  <2>3. \A s \in (ft + c + 1)..M : g[s] = None
    BY <1>3, <1>6 DEF Pools
  <2> QED
    BY <1>3, <1>4, <1>6, <2>1, <2>2, <2>3
<1>11. ASSUME NEW b \in 1..M
       PROVE  (\E s \in 1..(ft + c) : g[s] = b) \/ (\E s \in 1..(rt - c) : u[s] = b)
  <2>1. (\E s \in 1..ft : f[s] = b) \/ (\E s \in 1..rt : r[s] = b)
    BY DEF Pools
  <2>2. CASE \E s \in 1..ft : f[s] = b
    BY <1>3, <1>6, <2>2
  <2>3. CASE \E s \in 1..rt : r[s] = b
    <3>1. PICK t \in 1..rt : r[t] = b
      BY <2>3
    <3>2. CASE t \in 1..(rt - c)
      BY <1>6, <3>1, <3>2
    <3>3. CASE t \in (rt - c + 1)..rt
      BY <1>3, <1>8, <3>1, <3>3
    <3> QED
      BY <1>3, <3>2, <3>3
  <2> QED
    BY <2>1, <2>2, <2>3
<1>12. \A s \in 1..(ft + c), t \in 1..(ft + c) : g[s] = g[t] => s = t
  <2>1. \A s \in 1..ft, t \in 1..ft : g[s] = g[t] => s = t
    BY <1>6 DEF Pools
  <2>2. \A s \in 1..ft, t \in (ft + 1)..(ft + c) : g[s] # g[t]
    BY <1>3, <1>6, <1>7 DEF Pools
  <2>3. ASSUME NEW s \in (ft + 1)..(ft + c), NEW t \in (ft + 1)..(ft + c), g[s] = g[t]
        PROVE  s = t
    <3>1. r[rt - (s - ft - 1)] = r[rt - (t - ft - 1)]
      BY <1>6, <2>3
    <3>2. rt - (s - ft - 1) \in 1..rt /\ rt - (t - ft - 1) \in 1..rt
      BY <1>3
    <3>3. rt - (s - ft - 1) = rt - (t - ft - 1)
      BY <3>1, <3>2 DEF Pools
    <3> QED
      BY <1>1, <3>3
  <2> QED
    BY <1>3, <2>1, <2>2, <2>3
<1>13. \A s \in 1..(rt - c), t \in 1..(rt - c) : u[s] = u[t] => s = t
  BY <1>3, <1>6 DEF Pools
<1>14. \A s \in 1..(ft + c), t \in 1..(rt - c) : g[s] # u[t]
  <2>1. \A s \in 1..ft, t \in 1..(rt - c) : g[s] # u[t]
    BY <1>3, <1>6 DEF Pools
  <2>2. ASSUME NEW s \in (ft + 1)..(ft + c), NEW t \in 1..(rt - c), g[s] = u[t] PROVE FALSE
    <3>1. PICK v \in (rt - c + 1)..rt : g[s] = r[v]
      BY <1>7
    <3>2. r[v] = r[t] /\ v \in 1..rt /\ t \in 1..rt
      BY <1>3, <1>6, <2>2, <3>1
    <3>3. v = t
      BY <3>2 DEF Pools
    <3> QED
      BY <1>3, <3>3
  <2> QED
    BY <1>3, <2>1, <2>2
<1>15. Pools(M, g, ft + c, u, rt - c)
  BY <1>1, <1>9, <1>10, <1>11, <1>12, <1>13, <1>14 DEF Pools
<1> QED
  BY <1>2, <1>6, <1>15 DEF SameOn, NoneOn

-----------------------------------------------------------------------------
TheStages(q) == CHOOSE V : Stages(V, q)
Size(q) == BitmapStackSize(q, Build(q))

(* The results at each step of a query exist, so TheStages has them.       *)
LEMMA StagesExist ==
  ASSUME NEW q, WellFormed(q)
  PROVE  Stages(TheStages(q), q)
<1>1. \E V : Stages(V, q)
  BY Executes
<1> QED
  BY <1>1 DEF TheStages

Stage(q, p, n, k, here, next) ==
  /\ n = Build(q)[p] /\ k = Len(q.subs[n]) /\ here = TheStages(q)[p + 1] /\ next = TheStages(q)[p]

(* What a step needs and what it leaves, within the stack size.            *)
LEMMA StageFacts ==
  ASSUME NEW q, WellFormed(q), NEW p \in 1..Len(Build(q)),
         NEW n, NEW k, NEW here, NEW next, Stage(q, p, n, k, here, next)
  PROVE  /\ n \in DOMAIN q.op /\ k \in Nat /\ Len(here) \in Nat /\ Len(next) \in Nat
         /\ k <= Len(here) /\ Len(next) = Len(here) - k + 1
         /\ Len(next) <= Size(q) /\ Len(here) <= Size(q) /\ Size(q) \in Nat
         /\ (q.op[n] = "EQ" => k = 0) /\ (q.op[n] # "EQ" => k >= 1)
         /\ (q.op[n] \in {"NOT", "EXPAND"} => k = 1)
<1>1. PICK V : V = TheStages(q) /\ Stages(V, q)
  BY StagesExist
<1>2. n = Build(q)[p] /\ k = Len(q.subs[n]) /\ here = V[p + 1] /\ next = V[p]
  BY <1>1 DEF Stage
<1>3. /\ n \in 1..Len(q.op) /\ k \in Nat /\ Len(here) \in Nat /\ Len(next) \in Nat
      /\ Applied(q, n, here, next) /\ p \in 1..(Len(Build(q)) + 1)
      /\ p + 1 \in 1..(Len(Build(q)) + 1)
  BY <1>1, <1>2, StageLengths
<1>4. k <= Len(here) /\ Len(next) = Len(here) - k + 1
  BY <1>2, <1>3 DEF Applied
<1>5. Len(next) <= Size(q) /\ Len(here) <= Size(q) /\ Size(q) \in Nat
  BY <1>1, <1>2, <1>3, StackSizeIs DEF Size
<1>6. n \in DOMAIN q.op
  <2>1. q.op \in Seq(Ops)
    BY DEF WellFormed, QueryTree
  <2> QED
    BY <1>3, <2>1
<1>7. /\ (q.op[n] = "EQ" <=> q.subs[n] = << >>)
      /\ (q.op[n] \in {"NOT", "EXPAND"} => k = 1)
  BY <1>2, <1>6 DEF WellFormed, QueryTree
<1>8. q.op[n] = "EQ" => k = 0
  BY <1>2, <1>7
<1>9. q.op[n] # "EQ" => k >= 1
  <2>1. PICK u \in Seq(1..Len(q.op)) : u = q.subs[n]
    <3>1. Tree(q, Len(q.op))
      BY Executes
    <3> QED
      BY <1>3, <3>1 DEF Tree
  <2>2. u # << >> => Len(u) >= 1
    OBVIOUS
  <2> QED
    BY <1>2, <1>7, <2>1, <2>2
<1> QED
  BY <1>3, <1>4, <1>5, <1>6, <1>7, <1>8, <1>9

(* A slot of the results above the highest that was used.                  *)
NeverUsed(q, p, s) == \A i \in (p + 1)..(Len(Build(q)) + 1) : Len(TheStages(q)[i]) < s

Running(q, p, bm, f, ft, r, rt) ==
  /\ p \in 0..Len(Build(q))
  /\ Pools(Size(q), f, ft, r, rt) /\ bm \in [1..Size(q) -> Bitmap]
  /\ rt = Len(TheStages(q)[p + 1])
  /\ \A s \in (rt + 1)..Size(q) : r[s] = None \/ NeverUsed(q, p, s)

(* The slots above the results stay as they are or are cleared.            *)
LEMMA StillNeverUsed ==
  ASSUME NEW q, WellFormed(q), NEW p \in 1..Len(Build(q)), NEW s \in Nat,
         NeverUsed(q, p, s), Len(TheStages(q)[p]) < s
  PROVE  NeverUsed(q, p - 1, s)
<1>1. PICK l \in Nat : l = Len(Build(q))
  <2>1. Len(Build(q)) \in Nat
    BY Executes
  <2> QED
    BY <2>1
<1>2. \A i \in ((p - 1) + 1)..(l + 1) : i = p \/ i \in (p + 1)..(l + 1)
  BY <1>1
<1> QED
  BY <1>1, <1>2 DEF NeverUsed

(* A leaf finds a free bitmap and room for a result.                       *)
LEMMA RunTake ==
  ASSUME NEW q, WellFormed(q), NEW p, p > 0, NEW bm, NEW f, NEW ft, NEW r, NEW rt,
         Running(q, p, bm, f, ft, r, rt), q.op[Build(q)[p]] = "EQ",
         NEW bn \in [1..Size(q) -> Bitmap]
  PROVE  /\ ft > 0 /\ rt < Size(q)
         /\ Running(q, p - 1, bn, [f EXCEPT ![ft] = None], ft - 1,
                    [r EXCEPT ![rt + 1] = f[ft]], rt + 1)
<1>1. PICK n, k, here, next : Stage(q, p, n, k, here, next)
  BY DEF Stage
<1>2. PICK M : M = Size(q) /\ Pools(M, f, ft, r, rt)
  BY DEF Running
<1>3. PICK l \in Nat : l = Len(Build(q)) /\ p \in 1..l
  <2>1. Len(Build(q)) \in Nat /\ p \in 0..Len(Build(q))
    BY Executes DEF Running
  <2> QED
    BY <2>1
<1>4. /\ k = 0 /\ Len(here) = rt /\ Len(next) = rt + 1 /\ rt + 1 <= M /\ rt \in Nat /\ M \in Nat
  <2>1. Len(here) = rt /\ q.op[n] = "EQ"
    BY <1>1 DEF Running, Stage
  <2>2. /\ k \in Nat /\ Len(here) \in Nat /\ k <= Len(here) /\ Len(next) = Len(here) - k + 1
        /\ Len(next) <= M /\ M \in Nat /\ k = 0
    BY <1>1, <1>2, <1>3, <2>1, StageFacts
  <2> QED
    BY <2>1, <2>2
<1>5. ft > 0 /\ ft + rt = M /\ ft \in Nat
  BY <1>2, <1>4 DEF Pools
<1>6. PICK g, u : g = [f EXCEPT ![ft] = None] /\ u = [r EXCEPT ![rt + 1] = f[ft]]
  OBVIOUS
<1>7. /\ Pools(M, g, ft - 1, u, rt + 1)
      /\ \A s \in (rt + 2)..M : u[s] = r[s]
  <2>1. Pools(M, g, ft - 1, u, rt + 1) /\ SameOn(u, r, rt + 2, M)
    BY <1>2, <1>5, <1>6, TakeKeeps
  <2> QED
    BY <2>1 DEF SameOn
<1>8. ASSUME NEW s \in ((rt + 1) + 1)..M PROVE u[s] = None \/ NeverUsed(q, p - 1, s)
  <2>1. s \in (rt + 2)..M /\ s \in (rt + 1)..M /\ s \in Nat /\ rt + 1 < s
    BY <1>4
  <2>2. r[s] = None \/ NeverUsed(q, p, s)
    BY <1>2, <2>1 DEF Running
  <2>3. Len(TheStages(q)[p]) < s
    BY <1>1, <1>4, <2>1 DEF Stage
  <2>4. NeverUsed(q, p, s) => NeverUsed(q, p - 1, s)
    BY <1>3, <2>1, <2>3, StillNeverUsed
  <2> QED
    BY <1>7, <2>1, <2>2, <2>4
<1>9. p - 1 \in 0..l /\ (p - 1) + 1 = p
  BY <1>3
<1>10. rt + 1 = Len(TheStages(q)[(p - 1) + 1])
  BY <1>1, <1>4, <1>9 DEF Stage
<1>11. Running(q, p - 1, bn, g, ft - 1, u, rt + 1)
  BY <1>2, <1>3, <1>7, <1>8, <1>9, <1>10 DEF Running
<1> QED
  BY <1>2, <1>4, <1>5, <1>6, <1>11

(* The count of results an operator with k substeps gives back.            *)
LEMMA GiveCount ==
  ASSUME NEW k \in Nat, k >= 1, NEW rt \in Nat, k <= rt, NEW c, c = k - 1
  PROVE  c \in 0..(rt - 1) /\ rt - c = rt - k + 1
OBVIOUS

LEMMA AboveRest ==
  ASSUME NEW rt \in Nat, NEW c \in 0..(rt - 1), NEW m \in Nat, NEW s \in ((rt - c) + 1)..m
  PROVE  s \in Nat /\ rt - c < s
OBVIOUS

(* An operator finds a result for each of its substeps.                    *)
LEMMA RunGive ==
  ASSUME NEW q, WellFormed(q), NEW p, p > 0, NEW bm, NEW f, NEW ft, NEW r, NEW rt,
         Running(q, p, bm, f, ft, r, rt), q.op[Build(q)[p]] # "EQ",
         NEW bn \in [1..Size(q) -> Bitmap],
         NEW c, c = Len(q.subs[Build(q)[p]]) - 1
  PROVE  /\ c \in 0..(rt - 1) /\ (q.op[Build(q)[p]] \in {"NOT", "EXPAND"} => c = 0)
         /\ Running(q, p - 1, bn, Given(f, ft, r, rt, c), ft + c, Left(r, rt, c), rt - c)
<1>1. PICK n, k, here, next : Stage(q, p, n, k, here, next)
  BY DEF Stage
<1>2. PICK M : M = Size(q) /\ Pools(M, f, ft, r, rt)
  BY DEF Running
<1>3. PICK l \in Nat : l = Len(Build(q)) /\ p \in 1..l
  <2>1. Len(Build(q)) \in Nat /\ p \in 0..Len(Build(q))
    BY Executes DEF Running
  <2> QED
    BY <2>1
<1>4. /\ c \in 0..(rt - 1) /\ Len(here) = rt /\ Len(next) = rt - c /\ rt \in Nat /\ M \in Nat
      /\ (q.op[Build(q)[p]] \in {"NOT", "EXPAND"} => c = 0)
  <2>1. Len(here) = rt /\ q.op[n] # "EQ" /\ c = k - 1 /\ n = Build(q)[p]
    BY <1>1 DEF Running, Stage
  <2>2. /\ k \in Nat /\ Len(here) \in Nat /\ k <= Len(here) /\ Len(next) = Len(here) - k + 1
        /\ M \in Nat /\ k >= 1 /\ (q.op[n] \in {"NOT", "EXPAND"} => k = 1)
    BY <1>1, <1>2, <1>3, <2>1, StageFacts
  <2>3. /\ c \in 0..(rt - 1) /\ Len(next) = rt - c /\ rt \in Nat
    <3>1. rt \in Nat /\ k <= rt /\ Len(next) = rt - k + 1 /\ c = k - 1
      BY <2>1, <2>2
    <3>2. k \in Nat /\ k >= 1
      BY <2>2
    <3>3. c \in 0..(rt - 1) /\ rt - c = rt - k + 1
      BY <3>1, <3>2, GiveCount
    <3> QED
      BY <3>1, <3>3, Zenon
  <2>4. ASSUME q.op[n] \in {"NOT", "EXPAND"} PROVE c = 0
    <3>1. k = 1
      BY <2>2, <2>4
    <3>2. c = 1 - 1
      BY <2>1, <3>1
    <3> QED
      BY <3>2
  <2> QED
    BY <2>1, <2>2, <2>3, <2>4
<1>6. PICK g, u : g = Given(f, ft, r, rt, c) /\ u = Left(r, rt, c)
  OBVIOUS
<1>7. /\ Pools(M, g, ft + c, u, rt - c)
      /\ \A s \in (rt - c + 1)..rt : u[s] = None
      /\ \A s \in (rt + 1)..M : u[s] = r[s]
  <2>1. /\ Pools(M, g, ft + c, u, rt - c) /\ NoneOn(u, rt - c + 1, rt)
        /\ SameOn(u, r, rt + 1, M)
    BY <1>2, <1>4, <1>6, GiveKeeps
  <2> QED
    BY <2>1 DEF SameOn, NoneOn
<1>8. ASSUME NEW s \in ((rt - c) + 1)..M PROVE u[s] = None \/ NeverUsed(q, p - 1, s)
  <2>1. CASE s \in (rt - c + 1)..rt
    BY <1>7, <2>1
  <2>2. CASE s \in (rt + 1)..M
    <3>1. s \in Nat /\ rt - c < s
      <4>1. rt \in Nat /\ c \in 0..(rt - 1) /\ M \in Nat
        BY <1>4, Zenon
      <4> QED
        BY <1>8, <4>1, AboveRest, Zenon
    <3>2. r[s] = None \/ NeverUsed(q, p, s)
      BY <1>2, <2>2 DEF Running
    <3>3. Len(TheStages(q)[p]) < s
      BY <1>1, <1>4, <3>1 DEF Stage
    <3>4. NeverUsed(q, p, s) => NeverUsed(q, p - 1, s)
      BY <1>3, <3>1, <3>3, StillNeverUsed
    <3> QED
      BY <1>7, <2>2, <3>2, <3>4
  <2>3. s \in (rt - c + 1)..rt \/ s \in (rt + 1)..M
    BY <1>4
  <2> QED
    BY <2>1, <2>2, <2>3
<1>9. p - 1 \in 0..l /\ (p - 1) + 1 = p
  BY <1>3
<1>10. rt - c = Len(TheStages(q)[(p - 1) + 1])
  BY <1>1, <1>4, <1>9 DEF Stage
<1>11. Running(q, p - 1, bn, g, ft + c, u, rt - c)
  BY <1>2, <1>3, <1>7, <1>8, <1>9, <1>10 DEF Running
<1> QED
  BY <1>4, <1>6, <1>11

(* Giving no result back changes neither stack.                            *)
LEMMA GiveNothing ==
  ASSUME NEW M, NEW f, NEW ft, NEW r, NEW rt, Pools(M, f, ft, r, rt)
  PROVE  Given(f, ft, r, rt, 0) = f /\ Left(r, rt, 0) = r /\ ft + 0 = ft /\ rt - 0 = rt
<1>1. /\ f \in [1..M -> Nat \cup {None}] /\ r \in [1..M -> Nat \cup {None, Garbage}]
      /\ ft \in Nat /\ rt \in Nat
  BY DEF Pools
<1>2. f = [s \in 1..M |-> f[s]] /\ DOMAIN f = 1..M /\ r = [s \in 1..M |-> r[s]] /\ DOMAIN r = 1..M
  BY <1>1
<1>3. \A s \in 1..M : ~(s \in (ft + 1)..(ft + 0)) /\ ~(s \in (rt - 0 + 1)..rt)
  BY <1>1
<1>4. Given(f, ft, r, rt, 0) = [s \in 1..M |-> f[s]]
  BY <1>2, <1>3 DEF Given
<1>5. Left(r, rt, 0) = [s \in 1..M |-> r[s]]
  BY <1>2, <1>3 DEF Left
<1>6. Given(f, ft, r, rt, 0) = f
  BY <1>2, <1>4
<1>7. Left(r, rt, 0) = r
  BY <1>2, <1>5
<1>8. ft + 0 = ft /\ rt - 0 = rt
  BY <1>1
<1> QED
  BY <1>6, <1>7, <1>8

-----------------------------------------------------------------------------
(* The storage's rows lie within a bitmap.                                 *)
LEMMA RowsAreBits == Rows \subseteq Bits
<1>1. MaxRecords \in Nat /\ WordBits \in Nat /\ WordBits > 0
  BY SizesAssumption
<1>2. PICK M \in Nat, w \in Nat : M = MaxRecords /\ w = WordBits /\ w > 0
  BY <1>1
<1>3. M < (M \div w + 1) * w
  BY <1>2
<1> QED
  BY <1>2, <1>3 DEF Rows, Bits, NWords

(* What an index does to a bitmap is a bitmap.                             *)
LEMMA FoundTyped ==
  ASSUME NEW bm \in Bitmap, NEW rows, rows \subseteq Bits
  PROVE  Found(bm, rows) \in Bitmap
BY DEF Found, Bitmap

(* What a merge does to a bitmap is a bitmap.                              *)
LEMMA InlineTyped ==
  ASSUME NEW op, NEW dst \in Bitmap, NEW bm \in Bitmap
  PROVE  Inline(op, dst, bm) \in Bitmap
<1>1. AndInline(dst, bm) \in Bitmap
  BY DEF AndInline, Bitmap
<1>2. OrInline(dst, bm) \in Bitmap
  BY DEF OrInline, Bitmap
<1> QED
  BY <1>1, <1>2 DEF Inline

(* What NOT does to a bitmap is a bitmap.                                  *)
LEMMA ComplementTyped ==
  ASSUME NEW bm \in Bitmap
  PROVE  Complement(bm) \in Bitmap
BY DEF Complement, Bitmap

(* The results of a merge, from the top one down.                          *)
Chain(m, op, c) ==
  /\ m[0] = bitmaps[Result(c)]
  /\ \A i \in 1..c : m[i] = Inline(op, m[i - 1], bitmaps[Result(i - 1)])

(* The loop of a merge ends, with the chain of its results.                *)
LEMMA MergedIs ==
  ASSUME NEW c \in Nat, NEW op, \A i \in 0..c : bitmaps[Result(i)] \in Bitmap
  PROVE  \E m \in [0..c -> Bitmap] : Merged(op, c + 1) = m[c] /\ Chain(m, op, c)
<1>1. PICK X : X = Bitmap
  OBVIOUS
<1>2. PICK part \in [0..c -> X] : \A i \in 0..c : part[i] = bitmaps[Result(i)]
  <2>1. [i \in 0..c |-> bitmaps[Result(i)]] \in [0..c -> X]
    BY <1>1
  <2> QED
    BY <2>1
<1>3. PICK next : next = [i \in 1..c |-> [b \in X |-> Inline(op, b, part[i - 1])]]
  OBVIOUS
<1>4. next \in [1..c -> [X -> X]]
  <2>1. ASSUME NEW i \in 1..c, NEW b \in X PROVE Inline(op, b, part[i - 1]) \in X
    <3>1. i - 1 \in 0..c
      OBVIOUS
    <3> QED
      BY <1>1, <3>1, InlineTyped
  <2> QED
    BY <1>3, <2>1
<1>5. 0 \in 0..c /\ c \in 0..c /\ part[c] \in X
  OBVIOUS
<1>6. PICK f \in [0..c -> X] : Follows(f, c, part[c], next)
  BY <1>4, <1>5, FromTheStart
<1>7. \A i \in 0..c : i = 0 \/ (i \in 1..c /\ i # 0 /\ i - 1 \in 0..c)
  OBVIOUS
<1> DEFINE Is(g) == g = [i \in 0..c |-> IF i = 0 THEN bitmaps[Result(c)]
                                        ELSE Inline(op, g[i - 1], bitmaps[Result(i - 1)])]
<1>8. Is(f)
  <2>1. f[0] = part[c]
    BY <1>6 DEF Follows
  <2>2. \A i \in 1..c : f[i] = next[i][f[i - 1]]
    BY <1>6 DEF Follows
  <2>3. \A i \in 1..c : f[i] = Inline(op, f[i - 1], part[i - 1])
    BY <1>3, <1>7, <2>2
  <2>4. \A i \in 0..c : f[i] = IF i = 0 THEN bitmaps[Result(c)]
                               ELSE Inline(op, f[i - 1], bitmaps[Result(i - 1)])
    BY <1>2, <1>5, <1>7, <2>1, <2>3
  <2> QED
    BY <2>4
<1>9. PICK m : m = (CHOOSE g : Is(g)) /\ Is(m)
  <2> HIDE DEF Is
  <2> QED
    BY <1>8
<1>10. Merged(op, c + 1) = m[c]
  <2>1. (c + 1) - 1 = c
    OBVIOUS
  <2> QED
    BY <1>9, <2>1 DEF Merged
<1>11. Chain(m, op, c)
  <2>1. m[0] = bitmaps[Result(c)]
    BY <1>5, <1>9
  <2>2. \A i \in 1..c : m[i] = Inline(op, m[i - 1], bitmaps[Result(i - 1)])
    <3>1. \A i \in 0..c : m[i] = IF i = 0 THEN bitmaps[Result(c)]
                                 ELSE Inline(op, m[i - 1], bitmaps[Result(i - 1)])
      BY <1>9
    <3>2. \A i \in 1..c : i \in 0..c /\ i # 0
      OBVIOUS
    <3> QED
      BY <3>1, <3>2
  <2> QED
    BY <2>1, <2>2 DEF Chain
<1>12. \A i \in 0..c : m[i] \in X
  <2> DEFINE S == {i \in 0..c : m[i] \in X}
  <2>1. 0 \in S
    BY <1>2, <1>5, <1>11 DEF Chain
  <2>2. ASSUME NEW i \in 1..c, i - 1 \in S PROVE i \in S
    <3>1. i - 1 \in 0..c /\ i \in 0..c
      OBVIOUS
    <3>2. m[i] = Inline(op, m[i - 1], part[i - 1])
      BY <1>2, <1>11, <3>1 DEF Chain
    <3> QED
      BY <1>1, <2>2, <3>1, <3>2, InlineTyped
  <2>3. \A i \in 0..c : i \in S
    <3> HIDE DEF S
    <3> QED
      BY <2>1, <2>2, Upwards
  <2> QED
    BY <2>3
<1>13. m \in [0..c -> X]
  <2>1. DOMAIN m = 0..c /\ m = [i \in DOMAIN m |-> m[i]]
    BY <1>9
  <2> QED
    BY <1>12, <2>1
<1> QED
  BY <1>1, <1>10, <1>11, <1>13

-----------------------------------------------------------------------------
(* The inductive invariant of the stacks.  While a search runs, there are   *)
(* as many results as the trace of its steps says, and the slots above them *)
(* have been cleared unless no result was ever there.                       *)
Idle ==
  /\ steps = << >> /\ pc = 0 /\ bitmaps = << >>
  /\ free = << >> /\ freeTop = 0 /\ results = << >> /\ resultTop = 0
Executing ==
  /\ query \in Queries /\ WellFormed(query)
  /\ \A n \in DOMAIN query.op : query.rows[n] \subseteq 0..(puts - 1)
  /\ steps = Build(query)
  /\ Running(query, pc, bitmaps, free, freeTop, results, resultTop)
StackInv ==
  /\ puts \in PutCounts /\ phase \in {"idle", "executing", "returned", "faulted"}
  /\ query = None \/ query \in Queries
  /\ answer = None \/ (answer \subseteq Bits /\ phase = "returned")
  /\ IF phase = "executing" THEN Executing ELSE Idle

(* The rows that were put are rows of the storage.                         *)
LEMMA PutsAreRows == ASSUME StackInv PROVE puts \in Nat /\ 0..(puts - 1) \subseteq Rows
<1>1. puts \in 0..MaxRecords /\ MaxRecords \in Nat
  BY SizesAssumption DEF StackInv
<1> QED
  BY <1>1 DEF Rows

(* The facts of a step, for all the actions that are one.                  *)
LEMMA StepFacts ==
  ASSUME StackInv, phase = "executing", pc > 0
  PROVE  /\ query \in Queries /\ WellFormed(query)
         /\ Step = Build(query)[pc] /\ pc \in 1..Len(Build(query)) /\ Step \in DOMAIN query.op
         /\ Running(query, pc, bitmaps, free, freeTop, results, resultTop)
         /\ Size(query) \in Nat /\ bitmaps \in [1..Size(query) -> Bitmap]
         /\ Pools(Size(query), free, freeTop, results, resultTop)
         /\ query.rows[Step] \subseteq 0..(puts - 1) /\ query.rows[Step] \subseteq Bits
<1>1. Executing
  BY DEF StackInv
<1>2. WellFormed(query)
  BY <1>1 DEF Executing
<1>3. /\ Step = Build(query)[pc]
      /\ Running(query, pc, bitmaps, free, freeTop, results, resultTop)
  BY <1>1 DEF Executing, Step
<1>4. Len(Build(query)) \in Nat /\ pc \in 0..Len(Build(query))
  BY <1>2, <1>3, Executes DEF Running
<1>5. pc \in 1..Len(Build(query))
  BY <1>4
<1>6. PICK n, k, here, next : Stage(query, pc, n, k, here, next)
  BY DEF Stage
<1>7. Step \in DOMAIN query.op /\ Size(query) \in Nat
  <2>1. n \in DOMAIN query.op /\ Size(query) \in Nat
    BY <1>2, <1>5, <1>6, StageFacts
  <2> QED
    BY <1>3, <1>6, <2>1 DEF Stage
<1>8. /\ Pools(Size(query), free, freeTop, results, resultTop)
      /\ bitmaps \in [1..Size(query) -> Bitmap]
  BY <1>3 DEF Running
<1>9. query.rows[Step] \subseteq 0..(puts - 1)
  BY <1>1, <1>7 DEF Executing
<1>10. query.rows[Step] \subseteq Bits
  BY <1>9, PutsAreRows, RowsAreBits
<1> QED
  BY <1>1, <1>2, <1>3, <1>5, <1>7, <1>8, <1>9, <1>10 DEF Executing

(* A changed bitmap among the others.                                      *)
LEMMA PutOneIn ==
  ASSUME NEW M \in Nat, NEW bm \in [1..M -> Bitmap], NEW b \in 1..M, NEW x \in Bitmap
  PROVE  [bm EXCEPT ![b] = x] \in [1..M -> Bitmap]
OBVIOUS

(* What is left to show of a step when its bitmaps and stacks are known.   *)
LEMMA StepKeeps ==
  ASSUME StackInv, phase = "executing", Advance,
         Running(query, pc - 1, bitmaps', free', freeTop', results', resultTop')
  PROVE  StackInv'
<1>1. /\ pc' = pc - 1 /\ puts' = puts /\ phase' = phase /\ query' = query
      /\ steps' = steps /\ answer' = answer
  BY DEF Advance
<1>2. Executing'
  BY <1>1 DEF Executing, StackInv
<1> QED
  BY <1>1, <1>2 DEF StackInv

(* mos_qry_execute_leaf keeps the invariant of the stacks.                 *)
LEMMA LeafKeeps == ASSUME StackInv, Leaf PROVE StackInv'
<1>1. phase = "executing" /\ pc > 0 /\ query.op[Step] = "EQ" /\ Advance
  BY DEF Leaf, Runs
<1>2. PICK id : id = free[freeTop]
  OBVIOUS
<1>3. PICK bn : bn = [bitmaps EXCEPT ![id] = Found(@, query.rows[Step])]
  OBVIOUS
<1>4. /\ freeTop > 0 /\ id \in 1..Size(query)
  <2>1. freeTop > 0
    BY <1>1, StepFacts, RunTake
  <2>2. Pools(Size(query), free, freeTop, results, resultTop)
    BY <1>1, StepFacts
  <2>3. freeTop \in 1..freeTop
    BY <2>1, <2>2 DEF Pools
  <2> QED
    BY <1>2, <2>1, <2>2, <2>3 DEF Pools
<1>5. bn \in [1..Size(query) -> Bitmap]
  <2>1. Found(bitmaps[id], query.rows[Step]) \in Bitmap
    BY <1>1, <1>4, StepFacts, FoundTyped
  <2>2. bn = [bitmaps EXCEPT ![id] = Found(bitmaps[id], query.rows[Step])]
    BY <1>3
  <2> QED
    BY <1>1, <1>4, <2>1, <2>2, StepFacts, PutOneIn
<1>6. Running(query, pc - 1, bn, [free EXCEPT ![freeTop] = None], freeTop - 1,
              [results EXCEPT ![resultTop + 1] = free[freeTop]], resultTop + 1)
  BY <1>1, <1>5, StepFacts, RunTake
<1>7. /\ bitmaps' = bn /\ free' = [free EXCEPT ![freeTop] = None] /\ freeTop' = freeTop - 1
      /\ results' = [results EXCEPT ![resultTop + 1] = free[freeTop]]
      /\ resultTop' = resultTop + 1
  BY <1>2, <1>3 DEF Leaf
<1>8. Running(query, pc - 1, bitmaps', free', freeTop', results', resultTop')
  BY <1>6, <1>7
<1> QED
  BY <1>1, <1>8, StepKeeps

(* mos_qry_execute_and and mos_qry_execute_or keep it.                     *)
LEMMA MergeKeeps ==
  ASSUME StackInv, NEW op \in {"AND", "OR"}, Runs(op), Merge(op, Len(query.subs[Step])), Advance
  PROVE  StackInv'
<1>1. phase = "executing" /\ pc > 0 /\ query.op[Step] = op
  BY DEF Runs
<1>2. PICK c : c = Len(query.subs[Step]) - 1
  OBVIOUS
<1>3. PICK M \in Nat : M = Size(query)
  BY <1>1, StepFacts
<1>4. bitmaps \in [1..M -> Bitmap]
  BY <1>1, <1>3, StepFacts
<1>5. /\ c \in 0..(resultTop - 1)
      /\ \A bn \in [1..M -> Bitmap] :
           Running(query, pc - 1, bn, Given(free, freeTop, results, resultTop, c), freeTop + c,
                   Left(results, resultTop, c), resultTop - c)
  <2>1. c = Len(query.subs[Build(query)[pc]]) - 1 /\ query.op[Build(query)[pc]] # "EQ"
    BY <1>1, <1>2, StepFacts
  <2> QED
    BY <1>1, <1>3, <1>4, <2>1, StepFacts, RunGive
<1>6. c \in Nat /\ c + 1 = Len(query.subs[Step])
  <2>1. Len(query.subs[Step]) \in Nat
    <3>1. PICK n, k, here, next : Stage(query, pc, n, k, here, next)
      BY DEF Stage
    <3>2. k \in Nat
      BY <1>1, <3>1, StepFacts, StageFacts
    <3> QED
      BY <1>1, <3>1, <3>2, StepFacts DEF Stage
  <2> QED
    BY <1>2, <1>5, <2>1
<1>7. \A i \in 0..c : Result(i) \in 1..M /\ bitmaps[Result(i)] \in Bitmap
  <2>1. resultTop \in 0..M /\ \A s \in 1..resultTop : results[s] \in 1..M
    BY <1>1, <1>3, StepFacts DEF Pools
  <2>2. \A i \in 0..c : resultTop - i \in 1..resultTop
    BY <1>5, <2>1
  <2> QED
    BY <1>4, <2>1, <2>2 DEF Result
<1>8. PICK x \in Bitmap : x = Merged(op, c + 1)
  <2>1. PICK m \in [0..c -> Bitmap] : Merged(op, c + 1) = m[c]
    BY <1>6, <1>7, MergedIs
  <2>2. c \in 0..c
    BY <1>6
  <2> QED
    BY <2>1, <2>2
<1>9. PICK b : b = Result(c) /\ b \in 1..M
  <2>1. c \in 0..c
    BY <1>6
  <2> QED
    BY <1>7, <2>1
<1>10. PICK bn : bn = [bitmaps EXCEPT ![b] = x]
  OBVIOUS
<1>11. bn \in [1..M -> Bitmap]
  BY <1>4, <1>8, <1>9, <1>10, PutOneIn
<1>12. /\ bitmaps' = bn /\ resultTop' = resultTop - c /\ freeTop' = freeTop + c
       /\ results' = Left(results, resultTop, c)
       /\ free' = Given(free, freeTop, results, resultTop, c)
  <2>1. /\ resultTop' = resultTop - c /\ freeTop' = freeTop + c
    BY <1>2 DEF Merge
  <2>2. bitmaps' = [bitmaps EXCEPT ![Result(c)] = Merged(op, c + 1)]
    BY <1>2, <1>6 DEF Merge
  <2>3. bitmaps' = bn
    BY <1>8, <1>9, <1>10, <2>2
  <2>4. results' = Left(results, resultTop, c)
    BY <2>1 DEF Merge, Left
  <2>5. free' = Given(free, freeTop, results, resultTop, c)
    BY <2>1 DEF Merge, Given, Result
  <2> QED
    BY <2>1, <2>3, <2>4, <2>5
<1>13. Running(query, pc - 1, bitmaps', free', freeTop', results', resultTop')
  BY <1>5, <1>11, <1>12
<1> QED
  BY <1>1, <1>13, StepKeeps

(* NOT and EXPAND find a result on top.                                    *)
LEMMA TopResult ==
  ASSUME StackInv, phase = "executing", pc > 0, query.op[Step] # "EQ"
  PROVE  resultTop \in 1..Size(query) /\ results[resultTop] \in 1..Size(query)
<1>1. PICK c : c = Len(query.subs[Step]) - 1
  OBVIOUS
<1>2. PICK M \in Nat : M = Size(query)
  BY StepFacts
<1>3. c \in 0..(resultTop - 1)
  <2>1. c = Len(query.subs[Build(query)[pc]]) - 1 /\ query.op[Build(query)[pc]] # "EQ"
    BY <1>1, StepFacts
  <2> QED
    BY <1>2, <2>1, StepFacts, RunGive
<1>4. resultTop \in 0..M /\ \A s \in 1..resultTop : results[s] \in 1..M
  BY <1>2, StepFacts DEF Pools
<1>5. resultTop \in 1..M /\ resultTop \in 1..resultTop
  BY <1>3, <1>4
<1> QED
  BY <1>2, <1>4, <1>5

(* A step that changes the result on top in place keeps the invariant.     *)
LEMMA InPlaceKeeps ==
  ASSUME StackInv, NEW op \in {"NOT", "EXPAND"}, Runs(op), UNCHANGED stacks, Advance,
         NEW x \in Bitmap, bitmaps' = [bitmaps EXCEPT ![results[resultTop]] = x]
  PROVE  StackInv'
<1>1. phase = "executing" /\ pc > 0 /\ query.op[Step] = op /\ op # "EQ"
  BY DEF Runs
<1>2. PICK M \in Nat : M = Size(query)
  BY <1>1, StepFacts
<1>3. bitmaps' \in [1..M -> Bitmap]
  <2>1. results[resultTop] \in 1..M /\ bitmaps \in [1..M -> Bitmap]
    BY <1>1, <1>2, TopResult, StepFacts
  <2>2. PICK b : b = results[resultTop]
    OBVIOUS
  <2>3. [bitmaps EXCEPT ![b] = x] \in [1..M -> Bitmap]
    BY <2>1, <2>2, PutOneIn
  <2> QED
    BY <2>2, <2>3
<1>4. PICK c : c = Len(query.subs[Build(query)[pc]]) - 1
  OBVIOUS
<1>5. query.op[Build(query)[pc]] \in {"NOT", "EXPAND"} /\ query.op[Build(query)[pc]] # "EQ"
  BY <1>1, StepFacts
<1>6. /\ c = 0
      /\ \A bn \in [1..M -> Bitmap] :
           Running(query, pc - 1, bn, Given(free, freeTop, results, resultTop, c), freeTop + c,
                   Left(results, resultTop, c), resultTop - c)
  <2>1. \A bn \in [1..M -> Bitmap] :
          Running(query, pc - 1, bn, Given(free, freeTop, results, resultTop, c), freeTop + c,
                  Left(results, resultTop, c), resultTop - c)
    BY <1>1, <1>2, <1>4, <1>5, StepFacts, RunGive
  <2>2. c = 0
    <3>1. PICK n, k, here, next : Stage(query, pc, n, k, here, next)
      BY DEF Stage
    <3>2. query.op[n] \in {"NOT", "EXPAND"} /\ c = k - 1
      BY <1>4, <1>5, <3>1 DEF Stage
    <3>3. k = 1
      BY <1>1, <3>1, <3>2, StepFacts, StageFacts
    <3> QED
      BY <3>2, <3>3
  <2> QED
    BY <2>1, <2>2
<1>7. /\ Given(free, freeTop, results, resultTop, 0) = free /\ freeTop + 0 = freeTop
      /\ Left(results, resultTop, 0) = results /\ resultTop - 0 = resultTop
  BY <1>1, StepFacts, GiveNothing
<1>8. Running(query, pc - 1, bitmaps', free, freeTop, results, resultTop)
  BY <1>3, <1>6, <1>7
<1>9. free' = free /\ freeTop' = freeTop /\ results' = results /\ resultTop' = resultTop
  BY DEF stacks
<1>10. Running(query, pc - 1, bitmaps', free', freeTop', results', resultTop')
  BY <1>8, <1>9
<1> QED
  BY <1>1, <1>10, StepKeeps

(* mos_qry_execute_not keeps the invariant of the stacks.                  *)
LEMMA NotKeeps == ASSUME StackInv, Not PROVE StackInv'
<1>1. Runs("NOT") /\ UNCHANGED stacks /\ Advance
  BY DEF Not
<1>2. PICK x : x = Complement(bitmaps[results[resultTop]])
  OBVIOUS
<1>3. x \in Bitmap
  <2>1. bitmaps[results[resultTop]] \in Bitmap
    BY <1>1, TopResult, StepFacts DEF Runs
  <2> QED
    BY <1>2, <2>1, ComplementTyped
<1>4. bitmaps' = [bitmaps EXCEPT ![results[resultTop]] = x]
  BY <1>2 DEF Not
<1> QED
  BY <1>1, <1>3, <1>4, InPlaceKeeps

(* mos_qry_execute_expand keeps the invariant of the stacks.               *)
LEMMA ExpandKeeps == ASSUME StackInv, Expand PROVE StackInv'
<1>1. Runs("EXPAND") /\ UNCHANGED stacks /\ Advance
  BY DEF Expand
<1>2. PICK bm : bm = bitmaps[results[resultTop]]
  OBVIOUS
<1>3. PICK x : x = IF bm.empty THEN bm ELSE Found(bm, SameGroup(bm.bits))
  OBVIOUS
<1>4. x \in Bitmap
  <2>1. bm \in Bitmap
    BY <1>1, <1>2, TopResult, StepFacts DEF Runs
  <2>2. SameGroup(bm.bits) \subseteq Bits
    <3>1. SameGroup(bm.bits) \subseteq 0..(puts - 1)
      BY DEF SameGroup
    <3> QED
      BY <3>1, PutsAreRows, RowsAreBits
  <2>3. Found(bm, SameGroup(bm.bits)) \in Bitmap
    BY <2>1, <2>2, FoundTyped
  <2> QED
    BY <1>3, <2>1, <2>3
<1>5. bitmaps' = [bitmaps EXCEPT ![results[resultTop]] = x]
  BY <1>2, <1>3 DEF Expand
<1> QED
  BY <1>1, <1>4, <1>5, InPlaceKeeps

(* The stacks as mos_qry_create_bitmap_stack makes them.                   *)
LEMMA PoolsAtFirst ==
  ASSUME NEW M \in Nat
  PROVE  Pools(M, [s \in 1..M |-> s], M, [s \in 1..M |-> Garbage], 0)
<1>1. PICK f, r : f = [s \in 1..M |-> s] /\ r = [s \in 1..M |-> Garbage]
  OBVIOUS
<1>2. /\ f \in [1..M -> Nat \cup {None}] /\ r \in [1..M -> Nat \cup {None, Garbage}]
      /\ \A s \in 1..M : f[s] = s
  BY <1>1
<1>3. /\ 0 \in 0..M /\ M \in 0..M /\ M + 0 = M /\ (\A s \in (M + 1)..M : FALSE)
      /\ (\A s \in 1..0 : FALSE)
  OBVIOUS
<1>4. Pools(M, f, M, r, 0)
  BY <1>2, <1>3 DEF Pools
<1> QED
  BY <1>1, <1>4

(* Preparing a search establishes the invariant for its steps.             *)
LEMMA PrepareKeeps == ASSUME StackInv, NEW q \in Queries, Prepare(q) PROVE StackInv'
<1>1. WellFormed(q)
  BY DEF Prepare
<1>2. /\ phase' = "executing" /\ query' = q /\ steps' = Build(q) /\ pc' = Len(Build(q))
      /\ puts' = puts /\ answer' = answer /\ phase = "idle"
      /\ \A n \in DOMAIN q.op : q.rows[n] \subseteq 0..(puts - 1)
  BY DEF Prepare
<1>3. PICK M \in Nat : M = Size(q)
  BY <1>1, StagesExist, StackSizeIs DEF Size
<1>4. M = BitmapStackSize(q, steps')
  BY <1>2, <1>3 DEF Size
<1>5. /\ bitmaps' = [b \in 1..M |-> [bits |-> {}, full |-> FALSE, empty |-> TRUE]]
      /\ free' = [s \in 1..M |-> s] /\ freeTop' = M
      /\ results' = [s \in 1..M |-> Garbage] /\ resultTop' = 0
  BY <1>4 DEF Prepare
<1>6. bitmaps' \in [1..M -> Bitmap]
  <2>1. [bits |-> {}, full |-> FALSE, empty |-> TRUE] \in Bitmap
    BY DEF Bitmap
  <2> QED
    BY <1>5, <2>1
<1>7. Pools(M, free', freeTop', results', resultTop')
  BY <1>5, PoolsAtFirst
<1>8. PICK l \in Nat : l = Len(Build(q)) /\ l \in 0..l
  <2>1. Len(Build(q)) \in Nat
    BY <1>1, Executes
  <2>2. \A i \in Nat : i \in 0..i
    OBVIOUS
  <2> QED
    BY <2>1, <2>2
<1>9. Len(TheStages(q)[l + 1]) = 0
  <2>1. TheStages(q)[l + 1] = << >>
    BY <1>1, <1>8, StagesExist DEF Stages
  <2> QED
    BY <2>1
<1>10. ASSUME NEW s \in (0 + 1)..M PROVE NeverUsed(q, l, s)
  <2>1. \A i \in (l + 1)..(l + 1) : i = l + 1
    OBVIOUS
  <2>2. 0 < s
    OBVIOUS
  <2> QED
    BY <1>8, <1>9, <2>1, <2>2 DEF NeverUsed
<1>11. Running(q, l, bitmaps', free', freeTop', results', resultTop')
  BY <1>3, <1>5, <1>6, <1>7, <1>8, <1>9, <1>10 DEF Running
<1>12. Executing'
  BY <1>1, <1>2, <1>8, <1>11 DEF Executing
<1>13. answer' = None
  BY <1>2 DEF StackInv
<1> QED
  BY <1>2, <1>12, <1>13 DEF StackInv

(* The end of mos_qry_process_search keeps the invariant.                  *)
LEMMA ReturnKeeps == ASSUME StackInv, Return PROVE StackInv'
<1>1. phase = "executing" /\ pc = 0 /\ resultTop = 1 /\ Executing
  BY DEF Return, StackInv
<1>2. /\ phase' = "returned" /\ answer' = bitmaps[results[1]].bits
      /\ steps' = << >> /\ bitmaps' = << >> /\ puts' = puts /\ query' = query /\ pc' = pc
      /\ free' = << >> /\ freeTop' = 0 /\ results' = << >> /\ resultTop' = 0
  BY DEF Return
<1>3. bitmaps[results[1]] \in Bitmap
  <2>1. /\ Pools(Size(query), free, freeTop, results, resultTop)
        /\ bitmaps \in [1..Size(query) -> Bitmap]
    BY <1>1 DEF Executing, Running
  <2>2. 1 \in 1..resultTop
    BY <1>1
  <2>3. results[1] \in 1..Size(query)
    BY <2>1, <2>2 DEF Pools
  <2> QED
    BY <2>1, <2>3
<1>4. answer' \subseteq Bits
  BY <1>2, <1>3 DEF Bitmap
<1> QED
  BY <1>1, <1>2, <1>4 DEF StackInv, Idle

(* The invariant of the two stacks holds of every search.                  *)
LEMMA StackInvHolds == Spec => []StackInv
<1>1. Init => StackInv
  BY DEF Init, StackInv, Idle
<1>2. StackInv /\ [Next]_vars => StackInv'
  <2> SUFFICES ASSUME StackInv, [Next]_vars PROVE StackInv'
    OBVIOUS
  <2>1. CASE \E q \in Queries : Prepare(q)
    BY <2>1, PrepareKeeps
  <2>2. CASE \E q \in Queries : PrepareFaults(q)
    BY <2>2 DEF PrepareFaults, StackInv, Idle, stacks
  <2>3. CASE Leaf
    BY <2>3, LeafKeeps
  <2>4. CASE And
    BY <2>4, MergeKeeps DEF And
  <2>5. CASE Or
    BY <2>5, MergeKeeps DEF Or
  <2>6. CASE Not
    BY <2>6, NotKeeps
  <2>7. CASE Expand
    BY <2>7, ExpandKeeps
  <2>8. CASE Return
    BY <2>8, ReturnKeeps
  <2>9. CASE Done
    BY <2>9 DEF Done, StackInv, Idle, stacks
  <2>10. CASE UNCHANGED vars
    BY <2>10 DEF vars, stacks, StackInv, Idle, Executing
  <2>11. CASE \E q \in Queries : RunMalformed(q)
    BY <2>11 DEF RunMalformed, StackInv, Idle, stacks
  <2> QED
    BY <2>1, <2>2, <2>3, <2>4, <2>5, <2>6, <2>7, <2>8, <2>9, <2>10, <2>11 DEF Next
<1> QED
  BY <1>1, <1>2, PTL DEF Spec

(* From the invariant: no stack underflows or overflows.                   *)
LEMMA Suffices == ASSUME StackInv PROVE StacksSuffice
<1>1. ASSUME Runs("EQ") PROVE freeTop > 0 /\ resultTop < Len(results)
  <2>1. phase = "executing" /\ pc > 0 /\ query.op[Step] = "EQ"
    BY <1>1 DEF Runs
  <2>2. freeTop > 0 /\ resultTop < Size(query)
    BY <2>1, StepFacts, RunTake
  <2>3. PICK M \in Nat : M = Size(query) /\ results \in [1..M -> Nat \cup {None, Garbage}]
    BY <2>1, StepFacts DEF Pools
  <2>4. Len(results) = M
    BY <2>3
  <2> QED
    BY <2>2, <2>3, <2>4
<1>2. ASSUME phase = "executing", pc > 0 PROVE resultTop >= Len(query.subs[Step])
  <2>1. PICK n, k, here, next : Stage(query, pc, n, k, here, next)
    BY DEF Stage
  <2>2. k <= Len(here) /\ k \in Nat /\ Len(here) \in Nat
    BY <1>2, <2>1, StepFacts, StageFacts
  <2>3. k = Len(query.subs[Step]) /\ Len(here) = resultTop
    BY <1>2, <2>1, StepFacts DEF Stage, Running
  <2> QED
    BY <2>2, <2>3
<1>3. ASSUME phase = "executing", pc = 0 PROVE resultTop = 1
  <2>1. Executing
    BY <1>3 DEF StackInv
  <2>2. WellFormed(query)
    BY <2>1 DEF Executing
  <2>3. TheStages(query)[1] = <<1>>
    BY <2>2, StagesExist DEF Stages
  <2>4. resultTop = Len(TheStages(query)[0 + 1])
    BY <1>3, <2>1 DEF Executing, Running
  <2>5. 0 + 1 = 1 /\ Len(<<1>>) = 1
    OBVIOUS
  <2>6. resultTop = Len(TheStages(query)[1])
    BY <2>4, <2>5
  <2> QED
    BY <2>3, <2>5, <2>6
<1> QED
  BY <1>1, <1>2, <1>3 DEF StacksSuffice

(* Slots of both stacks together, each with another bitmap.                *)
LEMMA OneSlotEach ==
  ASSUME NEW M, NEW f, NEW ft, NEW r, NEW rt, Pools(M, f, ft, r, rt)
  PROVE  {IF s <= ft THEN f[s] ELSE r[s - ft] : s \in 1..M} = 1..M
<1>1. /\ M \in Nat /\ rt \in 0..M /\ ft \in 0..M /\ ft + rt = M
  BY DEF Pools
<1>2. ASSUME NEW s \in 1..M PROVE (IF s <= ft THEN f[s] ELSE r[s - ft]) \in 1..M
  <2>1. (s <= ft => s \in 1..ft) /\ (~(s <= ft) => s - ft \in 1..rt)
    BY <1>1
  <2> QED
    BY <2>1 DEF Pools
<1>3. ASSUME NEW b \in 1..M PROVE \E s \in 1..M : b = IF s <= ft THEN f[s] ELSE r[s - ft]
  <2>1. CASE \E s \in 1..ft : f[s] = b
    <3>1. \A s \in 1..ft : s \in 1..M /\ s <= ft
      BY <1>1
    <3> QED
      BY <2>1, <3>1
  <2>2. CASE \E s \in 1..rt : r[s] = b
    <3>1. PICK s \in 1..rt : r[s] = b
      BY <2>2
    <3>2. PICK t \in 1..M : ~(t <= ft) /\ t - ft = s
      <4>1. ft + s \in 1..M /\ ~(ft + s <= ft) /\ (ft + s) - ft = s
        BY <1>1
      <4> QED
        BY <4>1
    <3> QED
      BY <3>1, <3>2
  <2> QED
    BY <2>1, <2>2 DEF Pools
<1> QED
  BY <1>2, <1>3

(* A function on 1..M is a sequence of length M.                           *)
LEMMA SequencesOf ==
  ASSUME NEW M \in Nat, NEW S, NEW f \in [1..M -> S]
  PROVE  f \in Seq(S) /\ Len(f) = M /\ DOMAIN f = 1..M
OBVIOUS

(* From the invariant: every bitmap is in one place.                       *)
LEMMA Conserved == ASSUME StackInv PROVE BitmapsConserved
<1>1. CASE phase # "executing"
  <2>1. Idle
    BY <1>1 DEF StackInv
  <2>2. Len(<< >>) = 0 /\ << >> \in Seq(Bitmap)
    OBVIOUS
  <2>3. query # None => QueryTree(query)
    BY QueriesAssumption DEF StackInv
  <2>4. TypeOK
    BY <2>1, <2>2, <2>3 DEF TypeOK, StackInv, Idle
  <2>5. {IF s <= freeTop THEN free[s] ELSE results[s - freeTop] : s \in 1..Len(bitmaps)}
        = 1..Len(bitmaps)
    BY <2>1, <2>2 DEF Idle
  <2>6. freeTop + resultTop = Len(bitmaps)
    BY <2>1, <2>2 DEF Idle
  <2> QED
    BY <2>4, <2>5, <2>6 DEF BitmapsConserved
<1>2. CASE phase = "executing"
  <2>1. Executing
    BY <1>2 DEF StackInv
  <2>2. WellFormed(query)
    BY <2>1 DEF Executing
  <2>3. PICK M \in Nat : M = Size(query)
    BY <2>2, StagesExist, StackSizeIs DEF Size
  <2>4. Pools(M, free, freeTop, results, resultTop) /\ bitmaps \in [1..M -> Bitmap]
    BY <2>1, <2>3 DEF Executing, Running
  <2>5. bitmaps \in Seq(Bitmap) /\ Len(bitmaps) = M
    BY <2>4, SequencesOf
  <2>6. /\ freeTop \in 0..M /\ resultTop \in 0..M /\ freeTop + resultTop = M
        /\ free \in [1..M -> Nat \cup {None}]
        /\ results \in [1..M -> Nat \cup {None, Garbage}]
    BY <2>4 DEF Pools
  <2>7. Len(free) = M /\ Len(results) = M
    BY <2>6, SequencesOf
  <2>8. pc \in 0..Len(steps)
    BY <2>1 DEF Executing, Running
  <2>9. TypeOK
    BY <2>2, <2>5, <2>6, <2>7, <2>8 DEF TypeOK, StackInv, WellFormed
  <2>10. {IF s <= freeTop THEN free[s] ELSE results[s - freeTop] : s \in 1..M} = 1..M
    BY <2>4, OneSlotEach
  <2> QED
    BY <2>5, <2>6, <2>9, <2>10 DEF BitmapsConserved
<1> QED
  BY <1>1, <1>2

(* From the invariant: at the end, what is left in the arrays is what      *)
(* mos_qry_free_bitmap_stack frees.                                        *)
LEMMA Freed == ASSUME StackInv PROVE FreedOnce
<1> SUFFICES ASSUME phase = "executing", pc = 0
             PROVE  /\ \A s \in 2..Len(results) : results[s] = None
                    /\ {s \in DOMAIN free : free[s] # None} = 1..(Len(free) - 1)
  BY DEF FreedOnce
<1>1. Executing
  BY DEF StackInv
<1>2. WellFormed(query)
  BY <1>1 DEF Executing
<1>3. PICK M \in Nat : M = Size(query)
  BY <1>2, StagesExist, StackSizeIs DEF Size
<1>4. Pools(M, free, freeTop, results, resultTop)
  BY <1>1, <1>3 DEF Executing, Running
<1>5. resultTop = 1
  BY Suffices DEF StacksSuffice
<1>6. /\ freeTop = M - 1 /\ M >= 1
      /\ free \in [1..M -> Nat \cup {None}]
      /\ results \in [1..M -> Nat \cup {None, Garbage}]
  BY <1>4, <1>5 DEF Pools
<1>7. Len(free) = M /\ Len(results) = M /\ DOMAIN free = 1..M
  BY <1>6, SequencesOf
<1>8. ASSUME NEW s \in 2..M PROVE results[s] = None
  <2>1. results[s] = None \/ NeverUsed(query, 0, s)
    <3>1. s \in (1 + 1)..M
      OBVIOUS
    <3> QED
      BY <1>1, <1>3, <1>5, <3>1 DEF Executing, Running
  <2>2. PICK i \in 1..Len(Build(query)) : M = Len(TheStages(query)[i])
    BY <1>2, <1>3, StagesExist, StackSizeIs DEF Size
  <2>3. ~(Len(TheStages(query)[i]) < s)
    BY <2>2
  <2>4. i \in (0 + 1)..(Len(Build(query)) + 1)
    <3>1. Len(Build(query)) \in Nat
      BY <1>2, Executes
    <3> QED
      BY <2>2, <3>1
  <2> QED
    BY <2>1, <2>3, <2>4 DEF NeverUsed
<1>9. {s \in 1..M : free[s] # None} = 1..(M - 1)
  <2>1. \A s \in 1..(M - 1) : s \in 1..M /\ free[s] # None
    <3>1. \A s \in 1..freeTop : free[s] \in 1..M
      BY <1>4 DEF Pools
    <3>2. \A s \in 1..(M - 1) : free[s] \in Nat /\ s \in 1..M
      BY <1>6, <3>1
    <3> QED
      BY <3>2, NoneAssumption
  <2>2. \A s \in 1..M : s \in 1..(M - 1) \/ s \in (freeTop + 1)..M
    BY <1>6
  <2>3. \A s \in (freeTop + 1)..M : free[s] = None
    BY <1>4 DEF Pools
  <2> QED
    BY <2>1, <2>2, <2>3
<1> QED
  BY <1>7, <1>8, <1>9

(* For every query tree, storage and word size: no step of a search pops   *)
(* from an empty stack or needs more bitmaps than                          *)
(* mos_qry_calc_bitmap_stack_size provides, and one result is left at the  *)
(* end.                                                                    *)
THEOREM StacksAlwaysSuffice == Spec => []StacksSuffice
BY StackInvHolds, Suffices, PTL

(* For every query tree: during a search each bitmap is either free or a   *)
(* result, in one slot, so that no two operands share a bitmap             *)
(* (mos_qry.h:24-26).                                                      *)
THEOREM EachBitmapInOnePlace == Spec => []BitmapsConserved
BY StackInvHolds, Conserved, PTL

(* For every query tree: when the steps have run, the arrays that          *)
(* mos_qry_free_bitmap_stack goes through to their ends have every bitmap  *)
(* but the answer once, and no slot that was never written.                *)
THEOREM FreedExactlyOnce == Spec => []FreedOnce
BY StackInvHolds, Freed, PTL

-----------------------------------------------------------------------------
(* What a query means exists, and is a set of rows at every node.          *)
SubMeanings(q, m, n) == {m[q.subs[n][i]] : i \in DOMAIN q.subs[n]}
Together(q, m, n) == UNION SubMeanings(q, m, n)

(* SameGroup and Meaning when p rows have been put.                        *)
ValueAt(p, r) == IF r < p THEN Group[r] ELSE 0
GroupAt(p, bits) == {s \in 0..(p - 1) : \E b \in bits : ValueAt(p, s) = ValueAt(p, b)}
Means(p, rows, q, n, subs, all) ==
  /\ q.op[n] \in Ops
  /\ q.op[n] = "EQ" => rows = q.rows[n]
  /\ q.op[n] = "AND" => rows = {r \in Rows : \A sub \in subs : r \in sub}
  /\ q.op[n] = "OR" => rows = all
  /\ q.op[n] = "NOT" => rows = Rows \ all
  /\ q.op[n] = "EXPAND" => rows = all \cup GroupAt(p, all)
IsMeaning(p, q, m) ==
  /\ m \in [DOMAIN q.op -> SUBSET Rows]
  /\ \A n \in DOMAIN q.op :
       Means(p, m[n], q, n, SubMeanings(q, m, n), Together(q, m, n))

(* The group of the present state.                                         *)
LEMMA GroupAtPuts == ASSUME NEW bits PROVE SameGroup(bits) = GroupAt(puts, bits)
BY DEF SameGroup, GroupAt, Value, ValueAt

(* The meaning of a node, operator by operator.                            *)
LEMMA MeaningByOp ==
  ASSUME NEW q, WellFormed(q), NEW m, NEW n \in DOMAIN q.op
  PROVE  Means(puts, Meaning(q, m, n), q, n, SubMeanings(q, m, n), Together(q, m, n))
<1>1. q.op[n] \in Ops
  <2>1. q.op \in Seq(Ops)
    BY DEF WellFormed, QueryTree
  <2> QED
    BY <2>1
<1>2. Meaning(q, m, n) =
        CASE q.op[n] = "EQ"     -> q.rows[n]
          [] q.op[n] = "AND"    -> {r \in Rows : \A rows \in SubMeanings(q, m, n) : r \in rows}
          [] q.op[n] = "OR"     -> Together(q, m, n)
          [] q.op[n] = "NOT"    -> Rows \ Together(q, m, n)
          [] q.op[n] = "EXPAND" -> Together(q, m, n) \cup SameGroup(Together(q, m, n))
  BY DEF Meaning, SubMeanings, Together
<1>3. CASE q.op[n] = "EQ"
  BY <1>1, <1>2, <1>3 DEF Means
<1>4. CASE q.op[n] = "AND"
  BY <1>1, <1>2, <1>4 DEF Means
<1>5. CASE q.op[n] = "OR"
  BY <1>1, <1>2, <1>5 DEF Means
<1>6. CASE q.op[n] = "NOT"
  BY <1>1, <1>2, <1>6 DEF Means
<1>7. CASE q.op[n] = "EXPAND"
  BY <1>1, <1>2, <1>7, GroupAtPuts DEF Means
<1> QED
  BY <1>1, <1>3, <1>4, <1>5, <1>6, <1>7 DEF Ops

(* The meaning of a node is a set of rows.                                 *)
LEMMA MeaningTyped ==
  ASSUME NEW q, WellFormed(q), NEW m, NEW n \in DOMAIN q.op, puts \in 0..MaxRecords,
         \A i \in DOMAIN q.subs[n] : m[q.subs[n][i]] \subseteq Rows
  PROVE  Meaning(q, m, n) \subseteq Rows
<1>1. PICK rows, subs, U : /\ rows = Meaning(q, m, n) /\ subs = SubMeanings(q, m, n)
                           /\ U = Together(q, m, n)
  OBVIOUS
<1>2. U \subseteq Rows
  BY <1>1 DEF SubMeanings, Together
<1>3. SameGroup(U) \subseteq Rows
  <2>1. SameGroup(U) \subseteq 0..(puts - 1)
    BY DEF SameGroup
  <2>2. 0..(puts - 1) \subseteq 0..(MaxRecords - 1)
    BY SizesAssumption
  <2> QED
    BY <2>1, <2>2 DEF Rows
<1>4. q.rows[n] \subseteq Rows
  BY DEF WellFormed, QueryTree
<1>5. Means(puts, rows, q, n, subs, U)
  BY <1>1, MeaningByOp
<1>6. rows \subseteq Rows
  <2>1. GroupAt(puts, U) \subseteq Rows
    BY <1>3, GroupAtPuts
  <2> QED
    BY <1>2, <1>4, <1>5, <2>1 DEF Means, Ops
<1> QED
  BY <1>1, <1>6

(* The meaning of a node looks at those of its substeps only.              *)
LEMMA MeaningSame ==
  ASSUME NEW q, WellFormed(q), NEW N, Tree(q, N), NEW n \in 1..N, NEW f, NEW g,
         SameBehind(f, g, n, N)
  PROVE  Meaning(q, f, n) = Meaning(q, g, n)
<1>1. \A i \in DOMAIN q.subs[n] : f[q.subs[n][i]] = g[q.subs[n][i]]
  BY Substeps DEF SameBehind
<1>2. {f[q.subs[n][i]] : i \in DOMAIN q.subs[n]} = {g[q.subs[n][i]] : i \in DOMAIN q.subs[n]}
  BY <1>1
<1> QED
  BY <1>2 DEF Meaning

(* Every query has a meaning at each of its nodes.                         *)
LEMMA MeaningsAre ==
  ASSUME NEW q, WellFormed(q), puts \in 0..MaxRecords
  PROVE  IsMeaning(puts, q, Meanings(q))
<1>0. PICK N \in Nat : N = Len(q.op) /\ Tree(q, N) /\ DOMAIN q.op = 1..N
  <2>1. Tree(q, Len(q.op)) /\ Len(q.op) \in Nat
    BY Executes
  <2>2. DOMAIN q.op = 1..Len(q.op)
    BY <2>1 DEF Tree
  <2> QED
    BY <2>1, <2>2
<1>1. PICK X : X = SUBSET Rows
  OBVIOUS
<1>2. PICK step : step = [n \in 1..N |-> [f \in [1..N -> X] |-> Meaning(q, f, n)]]
  OBVIOUS
<1> DEFINE Is(m) == m = [n \in 1..N |-> Meaning(q, m, n)]
<1>3. \A n \in 1..N : \A i \in DOMAIN q.subs[n] : q.subs[n][i] \in 1..N /\ q.subs[n][i] > n
  BY <1>0, Substeps
<1>4. step \in [1..N -> [[1..N -> X] -> X]]
  <2>1. ASSUME NEW n \in 1..N, NEW f \in [1..N -> X] PROVE Meaning(q, f, n) \in X
    <3>1. \A i \in DOMAIN q.subs[n] : f[q.subs[n][i]] \subseteq Rows
      BY <1>1, <1>3
    <3>2. n \in DOMAIN q.op
      BY <1>0
    <3> QED
      BY <1>1, <3>1, <3>2, MeaningTyped
  <2> QED
    BY <1>2, <2>1
<1>5. LooksBehind(step, N, X)
  <2> SUFFICES ASSUME NEW n \in 1..N, NEW f \in [1..N -> X], NEW g \in [1..N -> X],
                      SameBehind(f, g, n, N)
               PROVE  step[n][f] = step[n][g]
    BY DEF LooksBehind
  <2>1. Meaning(q, f, n) = Meaning(q, g, n)
    BY <1>0, MeaningSame
  <2>2. step[n][f] = Meaning(q, f, n) /\ step[n][g] = Meaning(q, g, n)
    BY <1>2
  <2> QED
    BY <2>1, <2>2
<1>6. PICK x \in X : x = {}
  BY <1>1
<1>7. PICK f \in [1..N -> X] : Solves(f, N, step)
  BY <1>4, <1>5, <1>6, FromTheEnd
<1>8. Is(f)
  <2>1. \A n \in 1..N : f[n] = Meaning(q, f, n)
    BY <1>2, <1>7 DEF Solves
  <2> QED
    BY <2>1
<1>9. PICK m : m = (CHOOSE c : Is(c)) /\ Is(m)
  <2> HIDE DEF Is
  <2> QED
    BY <1>8
<1>10. Meanings(q) = m
  BY <1>0, <1>9 DEF Meanings
<1>11. \A n \in 1..N : m[n] = Meaning(q, m, n)
  BY <1>9
<1>12. \A n \in 1..N : m[n] \in X
  <2> DEFINE S == {n \in 1..N : m[n] \in X}
  <2>1. ASSUME NEW n \in 1..N, \A o \in 1..N : o > n => o \in S
        PROVE  n \in S
    <3>1. \A i \in DOMAIN q.subs[n] : m[q.subs[n][i]] \subseteq Rows
      BY <1>1, <1>3, <2>1
    <3>2. n \in DOMAIN q.op
      BY <1>0
    <3>3. Meaning(q, m, n) \subseteq Rows
      BY <3>1, <3>2, MeaningTyped
    <3> QED
      BY <1>1, <1>11, <3>3
  <2>2. \A n \in 1..N : n \in S
    <3> HIDE DEF S
    <3> QED
      BY <2>1, Downwards
  <2> QED
    BY <2>2
<1>13. m \in [1..N -> X]
  <2>1. DOMAIN m = 1..N /\ m = [n \in DOMAIN m |-> m[n]]
    BY <1>9
  <2> QED
    BY <1>12, <2>1
<1>14. ASSUME NEW n \in DOMAIN q.op
       PROVE  Means(puts, m[n], q, n, SubMeanings(q, m, n), Together(q, m, n))
  <2>1. m[n] = Meaning(q, m, n)
    BY <1>0, <1>11
  <2> QED
    BY <2>1, MeaningByOp
<1> QED
  BY <1>0, <1>1, <1>10, <1>13, <1>14 DEF IsMeaning

(* The bits of a merge: all of the results, or any of them.                *)
LEMMA MergedBits ==
  ASSUME NEW c \in Nat, NEW op \in {"AND", "OR"}, \A i \in 0..c : bitmaps[Result(i)] \in Bitmap
  PROVE  /\ Merged(op, c + 1) \in Bitmap
         /\ op = "AND" => \A b : b \in Merged(op, c + 1).bits
                                 <=> \A j \in 0..c : b \in bitmaps[Result(j)].bits
         /\ op = "OR" => \A b : b \in Merged(op, c + 1).bits
                                <=> \E j \in 0..c : b \in bitmaps[Result(j)].bits
<1>1. PICK m \in [0..c -> Bitmap] : Merged(op, c + 1) = m[c] /\ Chain(m, op, c)
  BY MergedIs
<1>2. PICK bits : bits = [i \in 0..c |-> bitmaps[Result(i)].bits]
  OBVIOUS
<1>3. /\ m[0].bits = bits[c]
      /\ \A i \in 1..c : op = "AND" => m[i].bits = m[i - 1].bits \cap bits[i - 1]
      /\ \A i \in 1..c : op = "OR" => m[i].bits = m[i - 1].bits \cup bits[i - 1]
  <2>1. c \in 0..c /\ 0 \in 0..c
    OBVIOUS
  <2>2. m[0].bits = bits[c]
    BY <1>1, <1>2, <2>1 DEF Chain
  <2>3. ASSUME NEW i \in 1..c
        PROVE  /\ op = "AND" => m[i].bits = m[i - 1].bits \cap bits[i - 1]
               /\ op = "OR" => m[i].bits = m[i - 1].bits \cup bits[i - 1]
    <3>1. i - 1 \in 0..c
      OBVIOUS
    <3>2. PICK d \in Bitmap, e \in Bitmap : d = m[i - 1] /\ e = bitmaps[Result(i - 1)]
      BY <3>1
    <3>3. m[i] = Inline(op, d, e) /\ bits[i - 1] = e.bits
      BY <1>1, <1>2, <3>1, <3>2 DEF Chain
    <3>4. AndInline(d, e).bits = d.bits \cap e.bits
      BY DEF AndInline, Bitmap
    <3>5. OrInline(d, e).bits = d.bits \cup e.bits
      BY DEF OrInline, Bitmap
    <3> QED
      BY <3>2, <3>3, <3>4, <3>5 DEF Inline
  <2> QED
    BY <2>2, <2>3
<1>4. c \in 0..c /\ 0 \in 0..c /\ \A i \in 0..(c - 1) : i \in 0..c
  OBVIOUS
<1>5. ASSUME op = "AND"
      PROVE  \A b : b \in m[c].bits <=> \A j \in 0..c : b \in bits[j]
  <2> DEFINE S == {i \in 0..c : \A b : b \in m[i].bits
                                       <=> b \in bits[c] /\ \A j \in 0..(i - 1) : b \in bits[j]}
  <2>1. 0 \in S
    BY <1>3, <1>4
  <2>2. ASSUME NEW i \in 1..c, i - 1 \in S PROVE i \in S
    <3>1. i \in 0..c /\ i - 1 \in 0..(i - 1)
      OBVIOUS
    <3>2. \A j \in 0..(i - 1) : j \in 0..((i - 1) - 1) \/ j = i - 1
      OBVIOUS
    <3>3. \A j \in 0..((i - 1) - 1) : j \in 0..(i - 1)
      OBVIOUS
    <3>4. m[i].bits = m[i - 1].bits \cap bits[i - 1]
      BY <1>3, <1>5
    <3> QED
      BY <2>2, <3>1, <3>2, <3>3, <3>4
  <2>3. \A i \in 0..c : i \in S
    <3> HIDE DEF S
    <3> QED
      BY <2>1, <2>2, Upwards
  <2>4. \A j \in 0..c : j \in 0..(c - 1) \/ j = c
    OBVIOUS
  <2> QED
    BY <1>4, <2>3, <2>4
<1>6. ASSUME op = "OR"
      PROVE  \A b : b \in m[c].bits <=> \E j \in 0..c : b \in bits[j]
  <2> DEFINE S == {i \in 0..c : \A b : b \in m[i].bits
                                       <=> b \in bits[c] \/ \E j \in 0..(i - 1) : b \in bits[j]}
  <2>1. 0 \in S
    BY <1>3, <1>4
  <2>2. ASSUME NEW i \in 1..c, i - 1 \in S PROVE i \in S
    <3>1. i \in 0..c /\ i - 1 \in 0..(i - 1)
      OBVIOUS
    <3>2. \A j \in 0..(i - 1) : j \in 0..((i - 1) - 1) \/ j = i - 1
      OBVIOUS
    <3>3. \A j \in 0..((i - 1) - 1) : j \in 0..(i - 1)
      OBVIOUS
    <3>4. m[i].bits = m[i - 1].bits \cup bits[i - 1]
      BY <1>3, <1>6
    <3> QED
      BY <2>2, <3>1, <3>2, <3>3, <3>4
  <2>3. \A i \in 0..c : i \in S
    <3> HIDE DEF S
    <3> QED
      BY <2>1, <2>2, Upwards
  <2>4. \A j \in 0..c : j \in 0..(c - 1) \/ j = c
    OBVIOUS
  <2> QED
    BY <1>4, <2>3, <2>4
<1>7. \A j \in 0..c : bits[j] = bitmaps[Result(j)].bits
  BY <1>2
<1>8. m[c] \in Bitmap
  BY <1>4
<1> QED
  BY <1>1, <1>5, <1>6, <1>7, <1>8

-----------------------------------------------------------------------------
(* The bitmap of each result fits the node whose result it is.             *)
Held(q, p, bm, r, G) ==
  \A s \in 1..Len(TheStages(q)[p + 1]) : bm[r[s]] \in G[TheStages(q)[p + 1][s]]

(* The results below stay, the next one is in the bitmap that changes.     *)
Placed(rn, r, low, b) ==
  SameOn(rn, r, 1, low) /\ rn[low + 1] = b /\ \A s \in 1..low : r[s] # b

(* A step whose result fits its node leaves the other results in place, so *)
(* that every result fits its node again.                                  *)
LEMMA HeldAfter ==
  ASSUME NEW q, WellFormed(q), NEW p \in 1..Len(Build(q)),
         NEW n, NEW k, NEW here, NEW next, Stage(q, p, n, k, here, next),
         NEW bm, NEW f, NEW ft, NEW r, NEW rt, Running(q, p, bm, f, ft, r, rt),
         NEW G, Held(q, p, bm, r, G),
         NEW b \in 1..Size(q), NEW x, x \in G[n], NEW rn,
         Placed(rn, r, rt - k, b)
  PROVE  Held(q, p - 1, [bm EXCEPT ![b] = x], rn, G)
<1>1. /\ rt \in Nat /\ k \in Nat /\ rt = Len(here) /\ Len(next) = rt - k + 1 /\ k <= rt
      /\ n = Build(q)[p] /\ here = TheStages(q)[p + 1] /\ next = TheStages(q)[p]
  <2>1. rt = Len(here) /\ here = TheStages(q)[p + 1] /\ next = TheStages(q)[p] /\ n = Build(q)[p]
    BY DEF Stage, Running
  <2> QED
    BY <2>1, StageFacts
<1>2. Applied(q, n, here, next)
  BY <1>1, StagesExist, StageLengths
<1>3. k = Len(q.subs[n])
  BY DEF Stage
<1>4. /\ \A s \in 1..(rt - k) : next[s] = here[s]
      /\ next[rt - k + 1] = n
  BY <1>1, <1>2, <1>3 DEF Applied
<1>5. PICK bn : bn = [bm EXCEPT ![b] = x]
  OBVIOUS
<1>6. bm \in [1..Size(q) -> Bitmap] /\ \A s \in 1..rt : r[s] \in 1..Size(q)
  BY DEF Running, Pools
<1>7. bn[b] = x /\ \A a \in 1..Size(q) : a # b => bn[a] = bm[a]
  BY <1>5, <1>6
<1>8. rt \in Nat /\ k \in Nat /\ k <= rt
  BY <1>1
<1>9. \A s \in 1..(rt - k + 1) : s # rt - k + 1 => s \in 1..(rt - k) /\ s \in 1..rt
  BY <1>8
<1>10. ASSUME NEW s \in 1..(rt - k + 1) PROVE bn[rn[s]] \in G[next[s]]
  <2>1. CASE s = rt - k + 1
    BY <1>4, <1>7, <2>1 DEF Placed
  <2>2. CASE s # rt - k + 1
    <3>1. s \in 1..(rt - k) /\ s \in 1..rt
      BY <1>9, <2>2
    <3>2. rn[s] = r[s] /\ r[s] # b
      BY <3>1 DEF SameOn, Placed
    <3>3. bn[rn[s]] = bm[r[s]]
      BY <1>6, <1>7, <3>1, <3>2
    <3>4. bm[r[s]] \in G[here[s]]
      BY <1>1, <3>1 DEF Held
    <3> QED
      BY <1>4, <3>1, <3>3, <3>4
  <2> QED
    BY <2>1, <2>2
<1>11. (p - 1) + 1 = p
  OBVIOUS
<1> QED
  BY <1>1, <1>5, <1>10, <1>11 DEF Held

(* Without NOT and with EXPAND over leaves, a result has every match.      *)
Covers(q, m, n, bm) ==
  /\ m[n] \subseteq bm.bits
  /\ q.op[n] \in {"EQ", "EXPAND"} /\ bm.empty => m[n] = {}
CoverOf(q, m) == [n \in DOMAIN q.op |-> {bm \in Bitmap : Covers(q, m, n, bm)}]

(* Results of cleared bitmaps have nothing else, but for the last row.     *)
Near(rows, bits) ==
  /\ \A r \in Rows : r # MaxRecords - 1 => (r \in bits <=> r \in rows)
  /\ MaxRecords % WordBits # 0 => bits \subseteq Rows
Agrees(q, m, n, bm) ==
  /\ Near(m[n], bm.bits)
  /\ ~HasNot(q) => bm.bits = m[n]
  /\ q.op[n] \in {"EQ", "EXPAND"} => bm.bits = m[n] /\ (bm.empty => bm.bits = {})
AgreeOf(q, m) == [n \in DOMAIN q.op |-> {bm \in Bitmap : Agrees(q, m, n, bm)}]

Covering(q) == ~HasNot(q) /\ ExpandsLeavesOnly(q)
Agreeing(q) == LeavesRunFirst(q) /\ ExpandsLeavesOnly(q)

Holds(q, m, p, bm, r) ==
  /\ Covering(q) => Held(q, p, bm, r, CoverOf(q, m))
  /\ Agreeing(q) => Held(q, p, bm, r, AgreeOf(q, m))

(* No operator has given bitmaps back yet.                                 *)
NoneGivenBack(q, p) == \A j \in (p + 1)..Len(Build(q)) : Len(q.subs[Build(q)[j]]) <= 1
Cleared(bm) == bm.bits = {} /\ bm.empty = TRUE

Contents ==
  /\ ~HasNot(query) => \A b \in 1..Size(query) : bitmaps[b].bits \subseteq 0..(puts - 1)
  /\ NoneGivenBack(query, pc) => \A s \in 1..freeTop : Cleared(bitmaps[free[s]])
  /\ \A m : IsMeaning(puts, query, m) => Holds(query, m, pc, bitmaps, results)

(* What an answer is, in terms of the root's meaning.                      *)
Answers(q, rows, bits) ==
  /\ Covering(q) => rows \subseteq bits
  /\ Agreeing(q) => Near(rows, bits) /\ (~HasNot(q) => bits = rows)

(* The inductive invariant of the bitmaps' contents.                       *)
ContentInv ==
  /\ StackInv
  /\ phase = "executing" => Contents
  /\ answer # None =>
       /\ query \in Queries /\ WellFormed(query)
       /\ ~HasNot(query) => answer \subseteq 0..(puts - 1)
       /\ \A m : IsMeaning(puts, query, m) => Answers(query, m[1], answer)

(* What is left to show of a step: that its own result fits its node.      *)
LEMMA ContentStep ==
  ASSUME ContentInv, phase = "executing", pc > 0, Advance, StackInv',
         NEW b \in 1..Size(query), NEW x \in Bitmap, bitmaps' = [bitmaps EXCEPT ![b] = x],
         NEW k, k = Len(query.subs[Step]),
         Placed(results', results, resultTop - k, b),
         k <= 1 => /\ freeTop' <= freeTop /\ SameOn(free', free, 1, freeTop')
                   /\ \A s \in 1..freeTop' : free[s] # b,
         ~HasNot(query) => x.bits \subseteq 0..(puts - 1),
         \A m : IsMeaning(puts, query, m) =>
           /\ Covering(query) /\ Held(query, pc, bitmaps, results, CoverOf(query, m))
                => x \in CoverOf(query, m)[Step]
           /\ Agreeing(query) /\ Held(query, pc, bitmaps, results, AgreeOf(query, m))
                => x \in AgreeOf(query, m)[Step]
  PROVE  ContentInv'
<1>1. StackInv /\ Contents
  BY DEF ContentInv
<1>2. /\ pc' = pc - 1 /\ puts' = puts /\ phase' = phase /\ query' = query /\ answer' = answer
  BY DEF Advance
<1>3. /\ WellFormed(query) /\ Step = Build(query)[pc] /\ pc \in 1..Len(Build(query))
      /\ Running(query, pc, bitmaps, free, freeTop, results, resultTop)
      /\ Pools(Size(query), free, freeTop, results, resultTop)
      /\ bitmaps \in [1..Size(query) -> Bitmap] /\ Step \in DOMAIN query.op
  BY <1>1, StepFacts
<1>4. PICK here, next : Stage(query, pc, Step, k, here, next)
  BY <1>3 DEF Stage
<1>5. PICK bn : bn = [bitmaps EXCEPT ![b] = x] /\ bitmaps' = bn
  OBVIOUS
<1>6. bn[b] = x /\ \A a \in 1..Size(query) : a # b => bn[a] = bitmaps[a]
  BY <1>3, <1>5
<1>7. ASSUME ~HasNot(query), NEW a \in 1..Size(query) PROVE bn[a].bits \subseteq 0..(puts - 1)
  BY <1>1, <1>6, <1>7 DEF Contents
<1>8. ASSUME NoneGivenBack(query, pc - 1), NEW s \in 1..freeTop' PROVE Cleared(bn[free'[s]])
  <2>1. k <= 1 /\ NoneGivenBack(query, pc)
    <3>0. PICK l \in Nat : l = Len(Build(query))
      <4>1. Len(Build(query)) \in Nat
        BY <1>3, Executes
      <4> QED
        BY <4>1
    <3>1. PICK p \in 1..l : p = pc
      BY <1>3, <3>0
    <3>2. p \in ((p - 1) + 1)..l /\ \A j \in (p + 1)..l : j \in ((p - 1) + 1)..l
      OBVIOUS
    <3> QED
      BY <1>3, <1>8, <3>0, <3>1, <3>2 DEF NoneGivenBack
  <2>2. freeTop' <= freeTop /\ free'[s] = free[s] /\ free[s] # b
    BY <2>1 DEF SameOn
  <2>3. s \in 1..freeTop
    <3>1. freeTop \in Nat /\ freeTop' \in Int
      <4>1. freeTop \in Nat
        BY <1>3 DEF Pools
      <4>2. Executing'
        BY <1>2 DEF StackInv
      <4>3. Pools(Size(query'), free', freeTop', results', resultTop')
        BY <4>2 DEF Executing, Running
      <4>4. freeTop' \in 0..Size(query') /\ Size(query') \in Nat
        BY <4>3 DEF Pools
      <4> QED
        BY <4>1, <4>4
    <3> QED
      BY <2>2, <3>1
  <2>4. free[s] \in 1..Size(query)
    BY <1>3, <2>3 DEF Pools
  <2>5. Cleared(bitmaps[free[s]])
    BY <1>1, <2>1, <2>3 DEF Contents
  <2> QED
    BY <1>6, <2>2, <2>4, <2>5
<1>9. ASSUME NEW m, IsMeaning(puts, query, m) PROVE Holds(query, m, pc - 1, bn, results')
  <2>1. IsMeaning(puts, query, m)
    BY <1>9
  <2>2. Holds(query, m, pc, bitmaps, results)
    BY <1>1, <2>1 DEF Contents
  <2>3. PICK rn : rn = results' /\ Placed(rn, results, resultTop - k, b)
    OBVIOUS
  <2>4. ASSUME NEW G, Held(query, pc, bitmaps, results, G), x \in G[Step]
        PROVE  Held(query, pc - 1, bn, rn, G)
    BY <1>3, <1>4, <1>5, <2>3, <2>4, HeldAfter
  <2>5. ASSUME Covering(query) PROVE Held(query, pc - 1, bn, rn, CoverOf(query, m))
    BY <2>1, <2>2, <2>4, <2>5 DEF Holds
  <2>6. ASSUME Agreeing(query) PROVE Held(query, pc - 1, bn, rn, AgreeOf(query, m))
    BY <2>1, <2>2, <2>4, <2>6 DEF Holds
  <2> QED
    BY <2>3, <2>5, <2>6 DEF Holds
<1>10. Contents'
  BY <1>2, <1>5, <1>7, <1>8, <1>9 DEF Contents
<1>11. answer' = None
  BY <1>1, <1>2 DEF StackInv
<1> QED
  BY <1>2, <1>10, <1>11 DEF ContentInv

(* The meaning of one node.                                                *)
LEMMA MeaningAt ==
  ASSUME NEW q, NEW m, IsMeaning(puts, q, m), NEW n \in DOMAIN q.op
  PROVE  /\ Means(puts, m[n], q, n, SubMeanings(q, m, n), Together(q, m, n))
         /\ m[n] \subseteq Rows
BY DEF IsMeaning

(* A leaf adds the rows the index finds to whatever the bitmap holds.      *)
LEMMA LeafContents == ASSUME ContentInv, Leaf PROVE ContentInv'
<1>0. StackInv /\ StackInv'
  BY LeafKeeps DEF ContentInv
<1>1. phase = "executing" /\ pc > 0 /\ query.op[Step] = "EQ" /\ Advance
  BY DEF Leaf, Runs
<1>2. /\ WellFormed(query) /\ Step = Build(query)[pc] /\ pc \in 1..Len(Build(query))
      /\ Running(query, pc, bitmaps, free, freeTop, results, resultTop)
      /\ Pools(Size(query), free, freeTop, results, resultTop)
      /\ bitmaps \in [1..Size(query) -> Bitmap] /\ Step \in DOMAIN query.op
      /\ query.rows[Step] \subseteq 0..(puts - 1) /\ query.rows[Step] \subseteq Bits
  BY <1>0, <1>1, StepFacts
<1>3. freeTop > 0
  BY <1>1, <1>2, RunTake
<1>4. /\ freeTop \in Nat /\ resultTop \in Nat /\ freeTop \in 1..freeTop
      /\ resultTop - 0 = resultTop /\ freeTop - 1 <= freeTop
  BY <1>2, <1>3 DEF Pools
<1>5. PICK b : b = free[freeTop]
  OBVIOUS
<1>6. b \in 1..Size(query)
  BY <1>2, <1>4, <1>5 DEF Pools
<1>7. PICK bm \in Bitmap : bm = bitmaps[b]
  BY <1>2, <1>6
<1>8. PICK x \in Bitmap : x = Found(bm, query.rows[Step])
  BY <1>2, FoundTyped
<1>9. bitmaps' = [bitmaps EXCEPT ![b] = x]
  BY <1>5, <1>7, <1>8 DEF Leaf
<1>10. 0 = Len(query.subs[Step])
  <2>1. PICK n, k, here, next : Stage(query, pc, n, k, here, next)
    BY DEF Stage
  <2>2. n = Step /\ k = Len(query.subs[Step])
    BY <1>2, <2>1 DEF Stage
  <2> QED
    BY <1>1, <1>2, <2>1, <2>2, StageFacts
<1>11. Placed(results', results, resultTop - 0, b)
  <2>1. results' = [results EXCEPT ![resultTop + 1] = b]
    BY <1>5 DEF Leaf
  <2>2. SameOn(results', results, 1, resultTop)
    BY <1>2, <1>3, <1>5, <2>1, TakeKeeps
  <2>3. results'[resultTop + 1] = b
    <3>1. resultTop + 1 \in 1..Size(query)
      BY <1>2, <1>3, <1>4 DEF Pools
    <3> QED
      BY <1>2, <2>1, <3>1 DEF Pools
  <2>4. \A s \in 1..resultTop : results[s] # b
    BY <1>2, <1>4, <1>5 DEF Pools
  <2> QED
    BY <1>4, <2>2, <2>3, <2>4 DEF Placed
<1>12. freeTop' <= freeTop /\ SameOn(free', free, 1, freeTop') /\ \A s \in 1..freeTop' : free[s] # b
  <2>1. free' = [free EXCEPT ![freeTop] = None] /\ freeTop' = freeTop - 1
    BY DEF Leaf
  <2>2. SameOn(free', free, 1, freeTop - 1)
    BY <1>2, <1>3, <2>1, TakeKeeps
  <2>3. \A s \in 1..(freeTop - 1) : s \in 1..freeTop /\ s # freeTop
    BY <1>4
  <2>4. \A s \in 1..(freeTop - 1) : free[s] # b
    BY <1>2, <1>4, <1>5, <2>3 DEF Pools
  <2> QED
    BY <1>4, <2>1, <2>2, <2>4
<1>13. Contents
  BY <1>1 DEF ContentInv
<1>14. x.bits = bm.bits \cup query.rows[Step] /\ x.empty = (bm.empty /\ query.rows[Step] = {})
  BY <1>8 DEF Found, Bitmap
<1>15. ASSUME ~HasNot(query) PROVE x.bits \subseteq 0..(puts - 1)
  BY <1>2, <1>6, <1>7, <1>13, <1>14, <1>15 DEF Contents
<1>16. ASSUME NEW m, IsMeaning(puts, query, m)
       PROVE  m[Step] = query.rows[Step] /\ m[Step] \subseteq Rows
  BY <1>1, <1>2, <1>16, MeaningAt DEF Means
<1>17. ASSUME NEW m, IsMeaning(puts, query, m) PROVE x \in CoverOf(query, m)[Step]
  <2>1. Covers(query, m, Step, x)
    BY <1>14, <1>16, <1>17 DEF Covers
  <2> QED
    BY <1>2, <2>1 DEF CoverOf
<1>18. ASSUME NEW m, IsMeaning(puts, query, m), Agreeing(query)
       PROVE  x \in AgreeOf(query, m)[Step]
  <2>1. NoneGivenBack(query, pc)
    <3>1. PICK l \in Nat : l = Len(Build(query))
      <4>1. Len(Build(query)) \in Nat
        BY <1>2, Executes
      <4> QED
        BY <4>1
    <3>2. PICK p \in 1..l : p = pc
      BY <1>2, <3>1
    <3>3. \A i, j \in 1..l : query.op[Build(query)[i]] = "EQ"
                             /\ Len(query.subs[Build(query)[j]]) > 1 => i > j
      BY <1>18, <3>1 DEF Agreeing, LeavesRunFirst
    <3>4. ASSUME NEW j \in (p + 1)..l PROVE Len(query.subs[Build(query)[j]]) <= 1
      <4>1. j \in 1..l /\ ~(p > j)
        OBVIOUS
      <4>2. ~(Len(query.subs[Build(query)[j]]) > 1)
        BY <1>1, <1>2, <3>2, <3>3, <4>1
      <4>3. Len(query.subs[Build(query)[j]]) \in Nat
        BY <1>2, <3>1, <4>1, StagesExist, StageLengths
      <4> QED
        BY <4>2, <4>3
    <3> QED
      BY <3>1, <3>2, <3>4 DEF NoneGivenBack
  <2>2. bm.bits = {}
    BY <1>4, <1>5, <1>7, <1>13, <2>1 DEF Contents, Cleared
  <2>3. x.bits = m[Step] /\ (x.empty => x.bits = {})
    BY <1>14, <1>16, <1>18, <2>2
  <2>4. Near(m[Step], x.bits)
    BY <1>16, <1>18, <2>3 DEF Near
  <2>5. Agrees(query, m, Step, x)
    BY <2>3, <2>4 DEF Agrees
  <2> QED
    BY <1>2, <2>5 DEF AgreeOf
<1> QED
  BY <1>0, <1>1, <1>6, <1>9, <1>10, <1>11, <1>12, <1>15, <1>17, <1>18, ContentStep

(* What a step that is no leaf finds on top of the results, the last of    *)
(* its substeps' on top.                                                   *)
Operator(c) ==
  /\ c \in Nat /\ c + 1 = Len(query.subs[Step]) /\ c <= resultTop - 1
  /\ resultTop \in Nat /\ DOMAIN query.subs[Step] = 1..(c + 1)
  /\ \A j \in 0..c : Result(j) \in 1..Size(query) /\ bitmaps[Result(j)] \in Bitmap

(* An operator has a result for each of its substeps on top of the stack.  *)
LEMMA OperatorFacts ==
  ASSUME StackInv, phase = "executing", pc > 0, query.op[Step] # "EQ"
  PROVE  \E c : Operator(c) /\ (query.op[Step] \in {"NOT", "EXPAND"} => c = 0)
<1>1. /\ WellFormed(query) /\ Step = Build(query)[pc] /\ pc \in 1..Len(Build(query))
      /\ Running(query, pc, bitmaps, free, freeTop, results, resultTop)
      /\ Pools(Size(query), free, freeTop, results, resultTop)
      /\ bitmaps \in [1..Size(query) -> Bitmap] /\ Step \in DOMAIN query.op
  BY StepFacts
<1>2. PICK k, here, next : Stage(query, pc, Step, k, here, next)
  BY <1>1 DEF Stage
<1>3. k = Len(query.subs[Step]) /\ resultTop = Len(here)
  BY <1>1, <1>2 DEF Stage, Running
<1>4. /\ k \in Nat /\ k <= resultTop /\ resultTop \in Nat /\ k >= 1
      /\ (query.op[Step] \in {"NOT", "EXPAND"} => k = 1)
  <2>1. k \in Nat /\ k <= Len(here) /\ Len(here) \in Nat /\ k >= 1
    BY <1>1, <1>2, StageFacts
  <2>2. query.op[Step] \in {"NOT", "EXPAND"} => k = 1
    BY <1>1, <1>2, StageFacts
  <2> QED
    BY <1>3, <2>1, <2>2
<1>5. PICK c \in Nat : c = k - 1 /\ c + 1 = k /\ c <= resultTop - 1
  BY <1>4
<1>6. DOMAIN query.subs[Step] = 1..(c + 1)
  <2>1. Tree(query, Len(query.op)) /\ DOMAIN query.op = 1..Len(query.op)
    BY <1>1, Executes DEF Tree
  <2> QED
    BY <1>1, <1>3, <1>5, <2>1, Substeps
<1>7. ASSUME NEW j \in 0..c PROVE Result(j) \in 1..Size(query) /\ bitmaps[Result(j)] \in Bitmap
  <2>1. resultTop - j \in 1..resultTop
    BY <1>4, <1>5
  <2>2. results[resultTop - j] \in 1..Size(query)
    BY <1>1, <2>1 DEF Pools
  <2> QED
    BY <1>1, <2>2 DEF Result
<1>8. Operator(c)
  BY <1>3, <1>4, <1>5, <1>6, <1>7 DEF Operator
<1>9. ASSUME query.op[Step] \in {"NOT", "EXPAND"} PROVE c = 0
  <2>1. k = 1
    BY <1>4, <1>9
  <2> QED
    BY <1>5, <2>1
<1> QED
  BY <1>8, <1>9

(* The result that an operator takes for a substep is that substep's.      *)
LEMMA Operands ==
  ASSUME StackInv, phase = "executing", pc > 0, NEW c, Operator(c),
         NEW G, Held(query, pc, bitmaps, results, G), NEW j \in 0..c
  PROVE  bitmaps[Result(j)] \in G[query.subs[Step][c + 1 - j]]
<1>1. /\ WellFormed(query) /\ Step = Build(query)[pc] /\ pc \in 1..Len(Build(query))
      /\ Running(query, pc, bitmaps, free, freeTop, results, resultTop)
  BY StepFacts
<1>2. PICK here : here = TheStages(query)[pc + 1] /\ resultTop = Len(here)
  BY <1>1 DEF Running
<1>3. /\ c \in Nat /\ c + 1 = Len(query.subs[Step]) /\ c <= resultTop - 1 /\ resultTop \in Nat
  BY DEF Operator
<1>4. Applied(query, Step, here, TheStages(query)[pc])
  BY <1>1, <1>2, StagesExist, StageLengths
<1>5. \A i \in 1..(c + 1) : here[resultTop - (c + 1) + i] = query.subs[Step][i]
  BY <1>2, <1>3, <1>4 DEF Applied
<1>6. c + 1 - j \in 1..(c + 1) /\ resultTop - (c + 1) + (c + 1 - j) = resultTop - j
      /\ resultTop - j \in 1..resultTop
  BY <1>3
<1>7. here[resultTop - j] = query.subs[Step][c + 1 - j]
  BY <1>5, <1>6
<1>8. bitmaps[results[resultTop - j]] \in G[here[resultTop - j]]
  BY <1>2, <1>6 DEF Held
<1> QED
  BY <1>7, <1>8 DEF Result

(* The substeps' meanings, in the order of their results.                  *)
Gathers(c, W, subs, all) ==
  /\ \A r : r \in all <=> \E j \in 0..c : r \in W[j]
  /\ \A r : (\A sub \in subs : r \in sub) <=> \A j \in 0..c : r \in W[j]

(* Both the union and the intersection of the substeps' meanings, in the   *)
(* order in which a merge goes through their results.                      *)
LEMMA SubstepMeanings ==
  ASSUME NEW c, Operator(c), NEW m, NEW W,
         \A j \in 0..c : W[j] = m[query.subs[Step][c + 1 - j]]
  PROVE  Gathers(c, W, SubMeanings(query, m, Step), Together(query, m, Step))
<1>1. c \in Nat /\ DOMAIN query.subs[Step] = 1..(c + 1)
  BY DEF Operator
<1>2. PICK u : u = query.subs[Step] /\ DOMAIN u = 1..(c + 1)
  BY <1>1
<1>3. SubMeanings(query, m, Step) = {m[u[i]] : i \in 1..(c + 1)}
  BY <1>2 DEF SubMeanings
<1>4. /\ \A i \in 1..(c + 1) : c + 1 - i \in 0..c /\ c + 1 - (c + 1 - i) = i
      /\ \A j \in 0..c : c + 1 - j \in 1..(c + 1)
  BY <1>1
<1>5. ASSUME NEW r
      PROVE  (\E i \in 1..(c + 1) : r \in m[u[i]]) <=> \E j \in 0..c : r \in m[u[c + 1 - j]]
  BY <1>4
<1>6. ASSUME NEW r
      PROVE  (\A i \in 1..(c + 1) : r \in m[u[i]]) <=> \A j \in 0..c : r \in m[u[c + 1 - j]]
  BY <1>4
<1>7. \A r : (r \in Together(query, m, Step)) <=> \E i \in 1..(c + 1) : r \in m[u[i]]
  BY <1>3 DEF Together
<1>8. \A r : (\A sub \in SubMeanings(query, m, Step) : r \in sub)
             <=> \A i \in 1..(c + 1) : r \in m[u[i]]
  BY <1>3
<1>9. \A j \in 0..c : W[j] = m[u[c + 1 - j]]
  BY <1>2
<1>10. ASSUME NEW r PROVE (r \in Together(query, m, Step)) <=> \E j \in 0..c : r \in W[j]
  <2>1. (r \in Together(query, m, Step)) <=> \E i \in 1..(c + 1) : r \in m[u[i]]
    BY <1>7
  <2> QED
    BY <1>5, <1>9, <2>1
<1>11. ASSUME NEW r
       PROVE  (\A sub \in SubMeanings(query, m, Step) : r \in sub)
                <=> \A j \in 0..c : r \in W[j]
  <2>1. (\A sub \in SubMeanings(query, m, Step) : r \in sub)
          <=> \A i \in 1..(c + 1) : r \in m[u[i]]
    BY <1>8
  <2>2. (\A j \in 0..c : r \in m[u[c + 1 - j]]) <=> \A j \in 0..c : r \in W[j]
    BY <1>9
  <2>3. (\A i \in 1..(c + 1) : r \in m[u[i]]) <=> \A j \in 0..c : r \in m[u[c + 1 - j]]
    BY <1>6
  <2> QED
    BY <2>1, <2>2, <2>3
<1> QED
  BY <1>10, <1>11 DEF Gathers

(* The slots of a step that is no leaf, c results of it given back.        *)
LEMMA SlotsAfter ==
  ASSUME StackInv, phase = "executing", pc > 0, NEW c, Operator(c),
         NEW b, b = Result(c),
         results' = Left(results, resultTop, c), freeTop' = freeTop + c,
         free' = Given(free, freeTop, results, resultTop, c)
  PROVE  /\ Placed(results', results, resultTop - (c + 1), b)
         /\ c + 1 <= 1 => /\ freeTop' <= freeTop /\ SameOn(free', free, 1, freeTop')
                          /\ \A s \in 1..freeTop' : free[s] # b
<1>1. Pools(Size(query), free, freeTop, results, resultTop)
  BY StepFacts
<1>2. c \in Nat /\ c <= resultTop - 1 /\ resultTop \in Nat /\ b = results[resultTop - c]
  BY DEF Operator, Result
<1>3. c \in 0..(resultTop - 1)
  BY <1>2
<1>4. PICK l \in Nat : l = resultTop - (c + 1) /\ l + 1 = resultTop - c
  BY <1>2
<1>5. /\ \A s \in 1..l : s \in 1..(l + 1) /\ s \in 1..resultTop /\ s # l + 1
      /\ l + 1 \in 1..resultTop /\ l + 1 \in 1..(l + 1)
  BY <1>2, <1>4
<1>6. SameOn(results', results, 1, l + 1)
  BY <1>1, <1>3, <1>4, GiveKeeps
<1>7. Placed(results', results, l, b)
  <2>1. SameOn(results', results, 1, l)
    BY <1>5, <1>6 DEF SameOn
  <2>2. results'[l + 1] = b
    BY <1>2, <1>4, <1>5, <1>6 DEF SameOn
  <2>3. \A s \in 1..l : results[s] # b
    BY <1>1, <1>2, <1>4, <1>5 DEF Pools
  <2> QED
    BY <2>1, <2>2, <2>3 DEF Placed
<1>8. ASSUME c + 1 <= 1
      PROVE  /\ freeTop' <= freeTop /\ SameOn(free', free, 1, freeTop')
             /\ \A s \in 1..freeTop' : free[s] # b
  <2>1. c = 0
    BY <1>2, <1>8
  <2>2. Given(free, freeTop, results, resultTop, 0) = free /\ freeTop + 0 = freeTop
    BY <1>1, GiveNothing
  <2>3. free' = free /\ freeTop' = freeTop
    BY <2>1, <2>2
  <2>4. freeTop <= freeTop
    BY <1>1 DEF Pools
  <2>5. \A s \in 1..freeTop : free[s] # b
    BY <1>1, <1>2, <1>4, <1>5 DEF Pools
  <2> QED
    BY <2>3, <2>4, <2>5 DEF SameOn
<1> QED
  BY <1>4, <1>7, <1>8

(* Division with remainder.                                                *)
LEMMA Division ==
  ASSUME NEW x \in Nat, NEW w \in Nat, w > 0
  PROVE  x = (x \div w) * w + (x % w) /\ x % w \in 0..(w - 1) /\ x \div w \in Nat
OBVIOUS

(* A smaller factor, a smaller product.                                    *)
LEMMA Times ==
  ASSUME NEW a \in Nat, NEW b \in Nat, NEW w \in Nat, a < b
  PROVE  a * w + w <= b * w
<1>1. PICK d \in Nat : b = a + 1 + d
  <2>1. b - a - 1 \in Nat /\ b = a + 1 + (b - a - 1)
    OBVIOUS
  <2> QED
    BY <2>1
<1>2. b * w = a * w + w + d * w
  BY <1>1
<1>3. d * w \in Nat /\ a * w \in Nat
  OBVIOUS
<1> QED
  BY <1>2, <1>3

(* Quotient and remainder are unique.                                      *)
LEMMA DivisionIs ==
  ASSUME NEW a \in Nat, NEW w \in Nat, NEW c \in 0..(w - 1)
  PROVE  (a * w + c) \div w = a /\ (a * w + c) % w = c
<1>1. w > 0 /\ a * w + c \in Nat
  OBVIOUS
<1>2. PICK x \in Nat : x = a * w + c
  BY <1>1
<1>3. PICK q \in Nat, r \in 0..(w - 1) : q = x \div w /\ r = x % w /\ x = q * w + r
  BY <1>1, Division
<1>4. a * w \in Nat /\ q * w \in Nat
  OBVIOUS
<1>5. ~(a < q)
  <2>1. a < q => a * w + w <= q * w
    BY Times
  <2> QED
    BY <1>2, <1>3, <1>4, <2>1
<1>6. ~(q < a)
  <2>1. q < a => q * w + w <= a * w
    BY Times
  <2> QED
    BY <1>2, <1>3, <1>4, <2>1
<1>7. q = a
  BY <1>5, <1>6
<1>8. r = c
  BY <1>2, <1>3, <1>4, <1>7
<1> QED
  BY <1>2, <1>3, <1>7, <1>8

(* The mask of NOT leaves every row but the storage's last; when the rows  *)
(* do not fill their words it leaves nothing behind them.                  *)
LEMMA MaskLeaves ==
  ASSUME NEW b \in Bits
  PROVE  /\ b \in Rows /\ b # MaxRecords - 1 => InMask(b)
         /\ MaxRecords % WordBits # 0 /\ InMask(b) => b \in Rows
<1>1. PICK M \in Nat, w \in Nat : M = MaxRecords /\ w = WordBits /\ w > 0 /\ M > 0
  <2>1. MaxRecords \in Nat /\ MaxRecords > 0 /\ WordBits \in Nat /\ WordBits > 0
    BY SizesAssumption
  <2> QED
    BY <2>1
<1>2. PICK a \in Nat, c \in 0..(w - 1) : a = M \div w /\ c = M % w /\ M = a * w + c
  BY <1>1, Division
<1>3. b \in Nat /\ b < (a + 1) * w
  BY <1>1, <1>2 DEF Bits, NWords
<1>4. PICK d \in Nat, e \in 0..(w - 1) : d = b \div w /\ e = b % w /\ b = d * w + e
  BY <1>1, <1>3, Division
<1>5. /\ a * w \in Nat /\ d * w \in Nat /\ (a + 1) * w = a * w + w
  BY <1>1
<1>6. /\ a < d => a * w + w <= d * w
      /\ d < a => d * w + w <= a * w
  BY <1>1, Times
<1>7. d <= a
  BY <1>3, <1>4, <1>5, <1>6
<1>8. MaskBits = IF c = 0 THEN w - 1 ELSE c - 1
  <2>1. CASE c = 0
    <3>1. M + w - 1 = a * w + (w - 1) /\ w - 1 \in 0..(w - 1)
      BY <1>1, <1>2, <1>5, <2>1
    <3>2. (a * w + (w - 1)) % w = w - 1
      <4>1. PICK e1 \in 0..(w - 1) : e1 = w - 1
        BY <3>1
      <4>2. (a * w + e1) % w = e1
        BY <1>1, <1>2, DivisionIs
      <4> QED
        BY <4>1, <4>2
    <3> QED
      BY <1>1, <2>1, <3>1, <3>2 DEF MaskBits
  <2>2. CASE c # 0
    <3>1. M + w - 1 = (a + 1) * w + (c - 1) /\ c - 1 \in 0..(w - 1) /\ a + 1 \in Nat
      BY <1>1, <1>2, <1>5, <2>2
    <3>2. (M + w - 1) % w = c - 1
      <4>1. PICK A \in Nat, C \in 0..(w - 1) : A = a + 1 /\ C = c - 1
        BY <3>1
      <4>2. (A * w + C) % w = C
        BY DivisionIs
      <4> QED
        BY <3>1, <4>1, <4>2
    <3> QED
      BY <1>1, <2>2, <3>2 DEF MaskBits
  <2> QED
    BY <2>1, <2>2
<1>9. InMask(b) <=> d < a \/ e < MaskBits
  BY <1>1, <1>2, <1>4 DEF InMask, Word, NWords
<1>10. b \in Rows <=> b < M
  BY <1>1, <1>3 DEF Rows
<1>11. ASSUME b < M, b # M - 1 PROVE InMask(b)
  <2>1. CASE d < a
    BY <1>9, <2>1
  <2>2. CASE d = a
    <3>1. e < c /\ e # c - 1
      BY <1>2, <1>4, <1>5, <1>11, <2>2
    <3> QED
      BY <1>8, <1>9, <3>1
  <2> QED
    BY <1>7, <2>1, <2>2
<1>12. ASSUME c # 0, InMask(b) PROVE b < M
  <2>1. CASE d < a
    BY <1>2, <1>4, <1>5, <1>6, <2>1
  <2>2. CASE d = a
    <3>1. e < c - 1
      BY <1>8, <1>9, <1>12, <2>2
    <3> QED
      BY <1>2, <1>4, <1>5, <2>2, <3>1
  <2> QED
    BY <1>7, <2>1, <2>2
<1> QED
  BY <1>1, <1>2, <1>10, <1>11, <1>12

(* NOT keeps a result near its meaning.                                    *)
LEMMA NearComplement ==
  ASSUME NEW rows, NEW bits, Near(rows, bits)
  PROVE  Near(Rows \ rows, {b \in Bits \ bits : InMask(b)})
<1>1. \A r \in Rows : r \in Bits
  BY RowsAreBits
<1>2. ASSUME NEW r \in Rows, r # MaxRecords - 1
      PROVE  (r \in {b \in Bits \ bits : InMask(b)}) <=> r \in Rows \ rows
  <2>1. InMask(r)
    BY <1>1, <1>2, MaskLeaves
  <2>2. r \in bits <=> r \in rows
    BY <1>2 DEF Near
  <2> QED
    BY <1>1, <2>1, <2>2
<1>3. ASSUME MaxRecords % WordBits # 0, NEW b \in Bits, InMask(b) PROVE b \in Rows
  BY <1>3, MaskLeaves
<1> QED
  BY <1>2, <1>3 DEF Near

(* A set that is the intersection, or the union, of c + 1 others.          *)
AllOrAny(op, c, B, S) ==
  /\ op = "AND" => \A b : b \in S <=> \A j \in 0..c : b \in B[j]
  /\ op = "OR" => \A b : b \in S <=> \E j \in 0..c : b \in B[j]

Within(c, W, B) == \A j \in 0..c : W[j] \subseteq B[j]
NearAll(c, W, B) == \A j \in 0..c : Near(W[j], B[j])
Same(c, W, B) == \A j \in 0..c : B[j] = W[j]

(* A merge of fitting operands fits.                                       *)
LEMMA MergeFits ==
  ASSUME NEW c \in Nat, NEW op \in {"AND", "OR"}, NEW B, NEW W, NEW bits, NEW rows,
         AllOrAny(op, c, B, bits), AllOrAny(op, c, W, rows)
  PROVE  /\ Within(c, W, B) => rows \subseteq bits
         /\ NearAll(c, W, B) => Near(rows, bits)
         /\ Same(c, W, B) => \A e : e \in bits <=> e \in rows
<1>1. 0 \in 0..c
  OBVIOUS
<1>2. ASSUME \A j \in 0..c : W[j] \subseteq B[j] PROVE rows \subseteq bits
  BY <1>2 DEF AllOrAny
<1>3. ASSUME \A j \in 0..c : Near(W[j], B[j]) PROVE Near(rows, bits)
  <2>1. ASSUME NEW r \in Rows, r # MaxRecords - 1 PROVE r \in bits <=> r \in rows
    <3>1. \A j \in 0..c : r \in B[j] <=> r \in W[j]
      BY <1>3, <2>1 DEF Near
    <3> QED
      BY <3>1 DEF AllOrAny
  <2>2. ASSUME MaxRecords % WordBits # 0 PROVE bits \subseteq Rows
    <3>1. \A j \in 0..c : B[j] \subseteq Rows
      BY <1>3, <2>2 DEF Near
    <3> QED
      BY <1>1, <3>1 DEF AllOrAny
  <2> QED
    BY <2>1, <2>2 DEF Near
<1>4. ASSUME \A j \in 0..c : B[j] = W[j] PROVE \A e : e \in bits <=> e \in rows
  <2>1. \A j \in 0..c : \A b : b \in B[j] <=> b \in W[j]
    BY <1>4
  <2> QED
    BY <2>1 DEF AllOrAny
<1> QED
  BY <1>2, <1>3, <1>4 DEF Within, NearAll, Same

(* AND and OR merge the results of their substeps.                         *)
LEMMA MergeContents ==
  ASSUME ContentInv, NEW op \in {"AND", "OR"}, Runs(op),
         Merge(op, Len(query.subs[Step])), Advance
  PROVE  ContentInv'
<1>0. StackInv /\ StackInv'
  BY MergeKeeps DEF ContentInv
<1>1. phase = "executing" /\ pc > 0 /\ query.op[Step] = op /\ op # "EQ"
  BY DEF Runs
<1>2. /\ WellFormed(query) /\ Step \in DOMAIN query.op /\ bitmaps \in [1..Size(query) -> Bitmap]
  BY <1>0, <1>1, StepFacts
<1>3. PICK c \in Nat : Operator(c)
  <2>1. \E c : Operator(c)
    BY <1>0, <1>1, OperatorFacts
  <2> QED
    BY <2>1 DEF Operator
<1>4. /\ c + 1 = Len(query.subs[Step]) /\ Len(query.subs[Step]) - 1 = c
      /\ \A j \in 0..c : Result(j) \in 1..Size(query) /\ bitmaps[Result(j)] \in Bitmap
  BY <1>3 DEF Operator
<1>5. c \in 0..c
  OBVIOUS
<1>6. PICK b : b = Result(c)
  OBVIOUS
<1>7. b \in 1..Size(query)
  BY <1>4, <1>5, <1>6
<1>8. PICK x \in Bitmap : x = Merged(op, c + 1)
  BY <1>4, MergedBits
<1>9. /\ bitmaps' = [bitmaps EXCEPT ![b] = x]
      /\ resultTop' = resultTop - c /\ freeTop' = freeTop + c
  BY <1>4, <1>6, <1>8 DEF Merge
<1>10. /\ results' = Left(results, resultTop, c)
       /\ free' = Given(free, freeTop, results, resultTop, c)
  <2>1. results' = Left(results, resultTop, c)
    BY <1>9 DEF Merge, Left
  <2>2. free' = Given(free, freeTop, results, resultTop, c)
    BY <1>9 DEF Merge, Given, Result
  <2> QED
    BY <2>1, <2>2
<1>11. /\ Placed(results', results, resultTop - (c + 1), b)
       /\ c + 1 <= 1 => /\ freeTop' <= freeTop /\ SameOn(free', free, 1, freeTop')
                        /\ \A s \in 1..freeTop' : free[s] # b
  BY <1>0, <1>1, <1>3, <1>6, <1>9, <1>10, SlotsAfter
<1>12. PICK B : B = [j \in 0..c |-> bitmaps[Result(j)].bits]
  OBVIOUS
<1>13. AllOrAny(op, c, B, x.bits)
  <2>1. \A j \in 0..c : B[j] = bitmaps[Result(j)].bits
    BY <1>12
  <2>2. /\ op = "AND" => \A e : e \in x.bits <=> \A j \in 0..c : e \in bitmaps[Result(j)].bits
        /\ op = "OR" => \A e : e \in x.bits <=> \E j \in 0..c : e \in bitmaps[Result(j)].bits
    BY <1>4, <1>8, MergedBits
  <2> QED
    BY <2>1, <2>2 DEF AllOrAny
<1>14. Contents
  BY <1>1 DEF ContentInv
<1>15. ASSUME ~HasNot(query) PROVE x.bits \subseteq 0..(puts - 1)
  <2>1. \A j \in 0..c : B[j] \subseteq 0..(puts - 1)
    BY <1>4, <1>12, <1>14, <1>15 DEF Contents
  <2> QED
    BY <1>5, <1>13, <2>1 DEF AllOrAny
<1>16. ASSUME NEW m, IsMeaning(puts, query, m)
       PROVE  /\ Covering(query) /\ Held(query, pc, bitmaps, results, CoverOf(query, m))
                   => x \in CoverOf(query, m)[Step]
              /\ Agreeing(query) /\ Held(query, pc, bitmaps, results, AgreeOf(query, m))
                   => x \in AgreeOf(query, m)[Step]
  <2>1. PICK W : W = [j \in 0..c |-> m[query.subs[Step][c + 1 - j]]]
    OBVIOUS
  <2>2. \A j \in 0..c : W[j] = m[query.subs[Step][c + 1 - j]]
    BY <2>1
  <2>3. \A j \in 0..c : query.subs[Step][c + 1 - j] \in DOMAIN query.op
    <3>1. \A j \in 0..c : c + 1 - j \in 1..(c + 1)
      OBVIOUS
    <3>2. Tree(query, Len(query.op)) /\ DOMAIN query.op = 1..Len(query.op)
      BY <1>2, Executes DEF Tree
    <3> QED
      BY <1>2, <1>4, <3>1, <3>2, Substeps
  <2>4. AllOrAny(op, c, W, m[Step])
    <3>1. PICK subs, all : subs = SubMeanings(query, m, Step) /\ all = Together(query, m, Step)
      OBVIOUS
    <3>2. Means(puts, m[Step], query, Step, subs, all)
      BY <1>2, <1>16, <3>1, MeaningAt
    <3>3. /\ \A r : (r \in all) <=> \E j \in 0..c : r \in W[j]
          /\ \A r : (\A sub \in subs : r \in sub) <=> \A j \in 0..c : r \in W[j]
      <4>1. Gathers(c, W, subs, all)
        BY <1>3, <2>2, <3>1, SubstepMeanings
      <4> QED
        BY <4>1 DEF Gathers
    <3>4. \A r : r \in W[0] => r \in Rows
      <4>1. 0 \in 0..c
        OBVIOUS
      <4>2. W[0] \subseteq Rows
        BY <1>16, <2>2, <2>3, <4>1, MeaningAt
      <4> QED
        BY <4>2
    <3>5. CASE op = "AND"
      <4>1. m[Step] = {r \in Rows : \A sub \in subs : r \in sub}
        BY <1>1, <3>2, <3>5 DEF Means
      <4>2. 0 \in 0..c
        OBVIOUS
      <4>3. \A r : r \in m[Step] <=> \A j \in 0..c : r \in W[j]
        BY <3>3, <3>4, <4>1, <4>2
      <4> QED
        BY <3>5, <4>3 DEF AllOrAny
    <3>6. CASE op = "OR"
      <4>1. m[Step] = all
        BY <1>1, <3>2, <3>6 DEF Means
      <4> QED
        BY <3>3, <3>6, <4>1 DEF AllOrAny
    <3> QED
      BY <3>5, <3>6
  <2>5. ASSUME Covering(query), Held(query, pc, bitmaps, results, CoverOf(query, m))
        PROVE  x \in CoverOf(query, m)[Step]
    <3>1. ASSUME NEW j \in 0..c PROVE W[j] \subseteq B[j]
      <4>1. bitmaps[Result(j)] \in CoverOf(query, m)[query.subs[Step][c + 1 - j]]
        BY <1>0, <1>1, <1>3, <2>5, Operands
      <4>2. Covers(query, m, query.subs[Step][c + 1 - j], bitmaps[Result(j)])
        BY <2>3, <4>1 DEF CoverOf
      <4> QED
        BY <1>12, <2>2, <4>2 DEF Covers
    <3>2. m[Step] \subseteq x.bits
      <4>1. Within(c, W, B)
        BY <3>1 DEF Within
      <4> QED
        BY <1>13, <2>4, <4>1, MergeFits
    <3>3. Covers(query, m, Step, x)
      BY <1>1, <3>2 DEF Covers
    <3> QED
      BY <1>2, <3>3 DEF CoverOf
  <2>6. ASSUME Agreeing(query), Held(query, pc, bitmaps, results, AgreeOf(query, m))
        PROVE  x \in AgreeOf(query, m)[Step]
    <3>1. ASSUME NEW j \in 0..c PROVE Near(W[j], B[j]) /\ (~HasNot(query) => B[j] = W[j])
      <4>1. bitmaps[Result(j)] \in AgreeOf(query, m)[query.subs[Step][c + 1 - j]]
        BY <1>0, <1>1, <1>3, <2>6, Operands
      <4>2. Agrees(query, m, query.subs[Step][c + 1 - j], bitmaps[Result(j)])
        BY <2>3, <4>1 DEF AgreeOf
      <4>3. B[j] = bitmaps[Result(j)].bits
        BY <1>12
      <4>4. /\ Near(m[query.subs[Step][c + 1 - j]], bitmaps[Result(j)].bits)
            /\ ~HasNot(query) => bitmaps[Result(j)].bits = m[query.subs[Step][c + 1 - j]]
        BY <4>2 DEF Agrees
      <4> QED
        BY <2>2, <4>3, <4>4
    <3>2. Near(m[Step], x.bits)
      <4>1. NearAll(c, W, B)
        BY <3>1 DEF NearAll
      <4> QED
        BY <1>13, <2>4, <4>1, MergeFits
    <3>3. ~HasNot(query) => x.bits = m[Step]
      <4>1. ~HasNot(query) => Same(c, W, B)
        BY <3>1 DEF Same
      <4>2. Same(c, W, B) => \A e : e \in x.bits <=> e \in m[Step]
        BY <1>13, <2>4, MergeFits
      <4> QED
        BY <4>1, <4>2
    <3>4. Agrees(query, m, Step, x)
      BY <1>1, <3>2, <3>3 DEF Agrees
    <3> QED
      BY <1>2, <3>4 DEF AgreeOf
  <2> QED
    BY <2>5, <2>6
<1>17. PICK k : k = c + 1 /\ k = Len(query.subs[Step])
  BY <1>4
<1>18. /\ Placed(results', results, resultTop - k, b)
       /\ k <= 1 => /\ freeTop' <= freeTop /\ SameOn(free', free, 1, freeTop')
                    /\ \A s \in 1..freeTop' : free[s] # b
  BY <1>11, <1>17
<1> QED
  BY <1>0, <1>1, <1>7, <1>9, <1>15, <1>16, <1>17, <1>18, ContentStep


(* What NOT and EXPAND find: the result of their one substep on top.       *)
LEMMA TopOperand ==
  ASSUME StackInv, NEW op \in {"NOT", "EXPAND"}, Runs(op), NEW u, u = query.subs[Step][1]
  PROVE  /\ Operator(0) /\ Result(0) = results[resultTop]
         /\ u \in DOMAIN query.op
         /\ bitmaps[results[resultTop]] \in Bitmap /\ results[resultTop] \in 1..Size(query)
         /\ \A G : Held(query, pc, bitmaps, results, G) => bitmaps[results[resultTop]] \in G[u]
         /\ \A m : \A r : (r \in Together(query, m, Step)) <=> r \in m[u]
<1>1. phase = "executing" /\ pc > 0 /\ query.op[Step] \in {"NOT", "EXPAND"} /\ query.op[Step] # "EQ"
  BY DEF Runs
<1>2. Operator(0)
  BY <1>1, OperatorFacts
<1>3. /\ resultTop \in Nat /\ 0 \in 0..0 /\ 1 \in 1..(0 + 1) /\ 0 + 1 - 0 = 1
      /\ \A j \in 0..0 : j = 0
  BY <1>2 DEF Operator
<1>4. Result(0) = results[resultTop]
  BY <1>3 DEF Result
<1>5. u \in DOMAIN query.op
  <2>1. Step \in DOMAIN query.op /\ WellFormed(query)
    BY <1>1, StepFacts
  <2>2. Tree(query, Len(query.op)) /\ DOMAIN query.op = 1..Len(query.op)
    BY <2>1, Executes DEF Tree
  <2>3. DOMAIN query.subs[Step] = 1..(0 + 1)
    BY <1>2 DEF Operator
  <2> QED
    BY <1>3, <2>1, <2>2, <2>3, Substeps
<1>6. bitmaps[results[resultTop]] \in Bitmap /\ results[resultTop] \in 1..Size(query)
  BY <1>2, <1>3, <1>4 DEF Operator
<1>7. ASSUME NEW G, Held(query, pc, bitmaps, results, G)
      PROVE  bitmaps[results[resultTop]] \in G[u]
  <2>1. bitmaps[Result(0)] \in G[query.subs[Step][0 + 1 - 0]]
    BY <1>1, <1>2, <1>3, <1>7, Operands
  <2> QED
    BY <1>3, <1>4, <2>1
<1>8. ASSUME NEW m, NEW r PROVE (r \in Together(query, m, Step)) <=> r \in m[u]
  <2>1. PICK W : W = [j \in 0..0 |-> m[query.subs[Step][0 + 1 - j]]]
    OBVIOUS
  <2>2. W[0] = m[u]
    BY <1>3, <2>1
  <2>3. Gathers(0, W, SubMeanings(query, m, Step), Together(query, m, Step))
    BY <1>2, <2>1, SubstepMeanings
  <2>4. (r \in Together(query, m, Step)) <=> \E j \in 0..0 : r \in W[j]
    BY <2>3 DEF Gathers
  <2>5. (\E j \in 0..0 : r \in W[j]) <=> r \in W[0]
    BY <1>3
  <2> QED
    BY <2>2, <2>4, <2>5
<1> QED
  BY <1>2, <1>4, <1>5, <1>6, <1>7, <1>8

(* What is left to show of NOT and EXPAND, which change the result on top. *)
LEMMA InPlaceContents ==
  ASSUME ContentInv, NEW op \in {"NOT", "EXPAND"}, Runs(op), UNCHANGED stacks, Advance,
         NEW x \in Bitmap, bitmaps' = [bitmaps EXCEPT ![results[resultTop]] = x],
         ~HasNot(query) => x.bits \subseteq 0..(puts - 1),
         \A m : IsMeaning(puts, query, m) =>
           /\ Covering(query) /\ Held(query, pc, bitmaps, results, CoverOf(query, m))
                => x \in CoverOf(query, m)[Step]
           /\ Agreeing(query) /\ Held(query, pc, bitmaps, results, AgreeOf(query, m))
                => x \in AgreeOf(query, m)[Step]
  PROVE  ContentInv'
<1>1. StackInv /\ StackInv'
  BY InPlaceKeeps DEF ContentInv
<1>2. phase = "executing" /\ pc > 0
  BY DEF Runs
<1>3. PICK b : b = Result(0) /\ b = results[resultTop]
  BY <1>1, TopOperand
<1>4. Operator(0) /\ b \in 1..Size(query)
  BY <1>1, <1>3, TopOperand
<1>5. /\ results' = Left(results, resultTop, 0) /\ freeTop' = freeTop + 0
      /\ free' = Given(free, freeTop, results, resultTop, 0)
  <2>1. /\ Given(free, freeTop, results, resultTop, 0) = free /\ freeTop + 0 = freeTop
        /\ Left(results, resultTop, 0) = results
    BY <1>1, <1>2, StepFacts, GiveNothing
  <2>2. free' = free /\ freeTop' = freeTop /\ results' = results
    BY DEF stacks
  <2> QED
    BY <2>1, <2>2
<1>6. PICK k : k = 0 + 1 /\ k = Len(query.subs[Step])
  BY <1>4 DEF Operator
<1>7. /\ Placed(results', results, resultTop - (0 + 1), b)
      /\ 0 + 1 <= 1 => /\ freeTop' <= freeTop /\ SameOn(free', free, 1, freeTop')
                       /\ \A s \in 1..freeTop' : free[s] # b
  BY <1>1, <1>2, <1>3, <1>4, <1>5, SlotsAfter
<1>8. /\ Placed(results', results, resultTop - k, b)
      /\ k <= 1 => /\ freeTop' <= freeTop /\ SameOn(free', free, 1, freeTop')
                   /\ \A s \in 1..freeTop' : free[s] # b
  BY <1>6, <1>7
<1>9. bitmaps' = [bitmaps EXCEPT ![b] = x]
  BY <1>3
<1> QED
  BY <1>1, <1>2, <1>4, <1>6, <1>8, <1>9, ContentStep

(* NOT complements its operand under the mask of the last word.            *)
LEMMA NotContents == ASSUME ContentInv, Not PROVE ContentInv'
<1>0. StackInv /\ Runs("NOT") /\ UNCHANGED stacks /\ Advance
  BY DEF Not, ContentInv
<1>1. phase = "executing" /\ pc > 0 /\ query.op[Step] = "NOT"
  BY <1>0 DEF Runs
<1>2. PICK u : u = query.subs[Step][1]
  OBVIOUS
<1>3. PICK bm \in Bitmap : bm = bitmaps[results[resultTop]]
  BY <1>0, <1>2, TopOperand
<1>4. PICK x \in Bitmap : x = Complement(bm)
  BY ComplementTyped
<1>5. bitmaps' = [bitmaps EXCEPT ![results[resultTop]] = x]
  BY <1>3, <1>4 DEF Not
<1>6. HasNot(query) /\ Step \in DOMAIN query.op
  BY <1>0, <1>1, StepFacts DEF HasNot
<1>7. ASSUME NEW m, IsMeaning(puts, query, m), Held(query, pc, bitmaps, results, AgreeOf(query, m))
      PROVE  x \in AgreeOf(query, m)[Step]
  <2>1. u \in DOMAIN query.op /\ bm \in AgreeOf(query, m)[u]
    BY <1>0, <1>2, <1>3, <1>7, TopOperand
  <2>2. Near(m[u], bm.bits)
    BY <2>1 DEF AgreeOf, Agrees
  <2>3. Near(Rows \ m[u], {b \in Bits \ bm.bits : InMask(b)})
    BY <2>2, NearComplement
  <2>4. x.bits = {b \in Bits \ bm.bits : InMask(b)}
    BY <1>4 DEF Complement
  <2>5. \A r : r \in m[Step] <=> r \in Rows \ m[u]
    <3>1. PICK all : all = Together(query, m, Step)
      OBVIOUS
    <3>2. m[Step] = Rows \ all
      BY <1>1, <1>6, <1>7, <3>1, MeaningAt DEF Means
    <3>3. \A r : r \in all <=> r \in m[u]
      BY <1>0, <1>2, <3>1, TopOperand
    <3> QED
      BY <3>2, <3>3
  <2>6. Near(m[Step], x.bits)
    BY <2>3, <2>4, <2>5 DEF Near
  <2>7. Agrees(query, m, Step, x)
    BY <1>1, <1>6, <2>6 DEF Agrees
  <2> QED
    BY <1>6, <2>7 DEF AgreeOf
<1>8. ~Covering(query)
  BY <1>6 DEF Covering
<1> QED
  BY <1>0, <1>5, <1>6, <1>7, <1>8, InPlaceContents

(* EXPAND adds the rows of the same group, if its operand is not flagged   *)
(* empty; a leaf's flag tells the truth.                                   *)
LEMMA ExpandContents == ASSUME ContentInv, Expand PROVE ContentInv'
<1>0. StackInv /\ Runs("EXPAND") /\ UNCHANGED stacks /\ Advance
  BY DEF Expand, ContentInv
<1>1. phase = "executing" /\ pc > 0 /\ query.op[Step] = "EXPAND"
  BY <1>0 DEF Runs
<1>2. PICK u : u = query.subs[Step][1]
  OBVIOUS
<1>3. PICK bm \in Bitmap : bm = bitmaps[results[resultTop]]
  BY <1>0, <1>2, TopOperand
<1>4. PICK group : group = SameGroup(bm.bits)
  OBVIOUS
<1>5. group \subseteq 0..(puts - 1) /\ group \subseteq Bits
  <2>1. group \subseteq 0..(puts - 1)
    BY <1>4 DEF SameGroup
  <2> QED
    BY <1>0, <2>1, PutsAreRows, RowsAreBits
<1>6. PICK x \in Bitmap : x = IF bm.empty THEN bm ELSE Found(bm, group)
  BY <1>5, FoundTyped
<1>7. bitmaps' = [bitmaps EXCEPT ![results[resultTop]] = x]
  BY <1>3, <1>4, <1>6 DEF Expand
<1>8. /\ bm.empty => x = bm
      /\ ~bm.empty => /\ \A r : r \in x.bits <=> r \in bm.bits \/ r \in group
                      /\ x.empty => group = {} /\ bm.empty
  <2>1. ~bm.empty => x.bits = bm.bits \cup group /\ x.empty = (bm.empty /\ group = {})
    BY <1>6 DEF Found, Bitmap
  <2> QED
    BY <1>6, <2>1
<1>9. Contents
  BY <1>1 DEF ContentInv
<1>10. ASSUME ~HasNot(query) PROVE x.bits \subseteq 0..(puts - 1)
  <2>1. bm.bits \subseteq 0..(puts - 1)
    BY <1>0, <1>2, <1>3, <1>9, <1>10, TopOperand DEF Contents
  <2> QED
    BY <1>5, <1>8, <2>1
<1>11. ASSUME NEW m, IsMeaning(puts, query, m)
       PROVE  \A r : r \in m[Step] <=> r \in m[u] \/ r \in SameGroup(m[u])
  <2>1. PICK all : all = Together(query, m, Step)
    OBVIOUS
  <2>2. Step \in DOMAIN query.op
    BY <1>0, <1>1, StepFacts
  <2>3. m[Step] = all \cup GroupAt(puts, all)
    BY <1>1, <1>11, <2>1, <2>2, MeaningAt DEF Means
  <2>4. \A r : r \in all <=> r \in m[u]
    BY <1>0, <1>2, <2>1, TopOperand
  <2>5. \A r : r \in GroupAt(puts, all) <=> r \in SameGroup(m[u])
    BY <2>4 DEF SameGroup, GroupAt, Value, ValueAt
  <2> QED
    BY <2>3, <2>4, <2>5
<1>12. ASSUME ExpandsLeavesOnly(query) PROVE query.op[u] \in {"EQ", "EXPAND"}
  BY <1>0, <1>1, <1>2, <1>12, StepFacts DEF ExpandsLeavesOnly
<1>13. Step \in DOMAIN query.op /\ u \in DOMAIN query.op
  BY <1>0, <1>1, <1>2, StepFacts, TopOperand
<1>14. ASSUME NEW m, IsMeaning(puts, query, m), Covering(query),
              Held(query, pc, bitmaps, results, CoverOf(query, m))
       PROVE  x \in CoverOf(query, m)[Step]
  <2>1. bm \in CoverOf(query, m)[u]
    BY <1>0, <1>2, <1>3, <1>14, TopOperand
  <2>2. m[u] \subseteq bm.bits /\ (bm.empty => m[u] = {})
    BY <1>12, <1>13, <1>14, <2>1 DEF CoverOf, Covers, Covering
  <2>3. CASE bm.empty
    <3>1. \A r : ~(r \in m[Step])
      BY <1>11, <1>14, <2>2, <2>3 DEF SameGroup
    <3> QED
      BY <1>13, <3>1 DEF CoverOf, Covers
  <2>4. CASE ~bm.empty
    <3>1. \A r : r \in SameGroup(m[u]) => r \in group
      BY <1>4, <2>2 DEF SameGroup
    <3>2. \A r : r \in m[Step] => r \in x.bits
      BY <1>8, <1>11, <1>14, <2>2, <2>4, <3>1
    <3>3. ~x.empty
      BY <1>8, <2>4
    <3> QED
      BY <1>13, <3>2, <3>3 DEF CoverOf, Covers
  <2> QED
    BY <2>3, <2>4
<1>15. ASSUME NEW m, IsMeaning(puts, query, m), Agreeing(query),
              Held(query, pc, bitmaps, results, AgreeOf(query, m))
       PROVE  x \in AgreeOf(query, m)[Step]
  <2>1. bm \in AgreeOf(query, m)[u]
    BY <1>0, <1>2, <1>3, <1>15, TopOperand
  <2>2. (\A r : r \in m[u] <=> r \in bm.bits) /\ (bm.empty => bm.bits = {})
    BY <1>12, <1>13, <1>15, <2>1 DEF AgreeOf, Agrees, Agreeing
  <2>3. (\A r : r \in x.bits <=> r \in m[Step]) /\ (x.empty => x.bits = {})
    <3>1. CASE bm.empty
      <4>1. \A r : ~(r \in m[Step])
        BY <1>11, <1>15, <2>2, <3>1 DEF SameGroup
      <4> QED
        BY <1>8, <2>2, <3>1, <4>1
    <3>2. CASE ~bm.empty
      <4>1. \A r : r \in SameGroup(m[u]) <=> r \in group
        BY <1>4, <2>2 DEF SameGroup
      <4>2. \A r : r \in x.bits <=> r \in m[Step]
        BY <1>8, <1>11, <1>15, <2>2, <3>2, <4>1
      <4> QED
        BY <1>8, <3>2, <4>2
    <3> QED
      BY <3>1, <3>2
  <2>4. m[Step] \subseteq Rows
    BY <1>13, <1>15, MeaningAt
  <2>5. Near(m[Step], x.bits)
    BY <2>3, <2>4 DEF Near
  <2>6. Agrees(query, m, Step, x)
    BY <2>3, <2>5 DEF Agrees
  <2> QED
    BY <1>13, <2>6 DEF AgreeOf
<1> QED
  BY <1>0, <1>7, <1>10, <1>14, <1>15, InPlaceContents


(* All bitmaps are cleared at first.                                       *)
LEMMA PrepareContents ==
  ASSUME ContentInv, NEW q \in Queries, Prepare(q) PROVE ContentInv'
<1>0. StackInv /\ StackInv'
  BY PrepareKeeps DEF ContentInv
<1>1. /\ phase' = "executing" /\ query' = q /\ pc' = Len(Build(q)) /\ WellFormed(q)
      /\ answer' = answer /\ phase = "idle"
  BY DEF Prepare
<1>2. Executing'
  BY <1>0, <1>1 DEF StackInv
<1>3. /\ Running(q, pc', bitmaps', free', freeTop', results', resultTop')
      /\ Pools(Size(q), free', freeTop', results', resultTop')
  BY <1>1, <1>2 DEF Executing, Running
<1>4. PICK M \in Nat : M = Size(q)
  BY <1>3 DEF Pools
<1>5. bitmaps' = [b \in 1..M |-> [bits |-> {}, full |-> FALSE, empty |-> TRUE]]
  <2>1. M = BitmapStackSize(q, steps')
    BY <1>4 DEF Prepare, Size
  <2> QED
    BY <2>1 DEF Prepare
<1>6. \A b \in 1..M : Cleared(bitmaps'[b])
  BY <1>5 DEF Cleared
<1>7. \A s \in 1..freeTop' : Cleared(bitmaps'[free'[s]])
  <2>1. \A s \in 1..freeTop' : free'[s] \in 1..M
    BY <1>3, <1>4 DEF Pools
  <2> QED
    BY <1>6, <2>1
<1>8. \A b \in 1..Size(query') : bitmaps'[b].bits \subseteq 0..(puts' - 1)
  BY <1>1, <1>4, <1>6 DEF Cleared
<1>9. Len(TheStages(q)[pc' + 1]) = 0
  <2>1. TheStages(q)[Len(Build(q)) + 1] = << >>
    BY <1>1, StagesExist DEF Stages
  <2> QED
    BY <1>1, <2>1
<1>10. ASSUME NEW G PROVE Held(q, pc', bitmaps', results', G)
  <2>1. \A s \in 1..0 : FALSE
    OBVIOUS
  <2> QED
    BY <1>9, <2>1 DEF Held
<1>11. Contents'
  BY <1>1, <1>7, <1>8, <1>10 DEF Contents, Holds
<1>12. answer' = None
  BY <1>0, <1>1 DEF StackInv
<1> QED
  BY <1>0, <1>11, <1>12 DEF ContentInv

(* The last result is that of the root: it becomes the answer.             *)
LEMMA ReturnContents == ASSUME ContentInv, Return PROVE ContentInv'
<1>0. StackInv /\ StackInv'
  BY ReturnKeeps DEF ContentInv
<1>1. /\ phase = "executing" /\ pc = 0 /\ resultTop = 1 /\ phase' = "returned"
      /\ answer' = bitmaps[results[1]].bits /\ puts' = puts /\ query' = query
  BY DEF Return
<1>2. Contents /\ Executing
  BY <1>0, <1>1 DEF ContentInv, StackInv
<1>3. /\ WellFormed(query) /\ Running(query, 0, bitmaps, free, freeTop, results, resultTop)
      /\ Pools(Size(query), free, freeTop, results, resultTop)
      /\ bitmaps \in [1..Size(query) -> Bitmap]
  BY <1>1, <1>2 DEF Executing, Running
<1>4. results[1] \in 1..Size(query)
  BY <1>1, <1>3 DEF Pools
<1>5. PICK bm \in Bitmap : bm = bitmaps[results[1]]
  BY <1>3, <1>4
<1>6. ASSUME ~HasNot(query) PROVE answer' \subseteq 0..(puts - 1)
  BY <1>1, <1>2, <1>4, <1>6 DEF Contents
<1>7. TheStages(query)[1] = <<1>>
  BY <1>3, StagesExist DEF Stages
<1>8. ASSUME NEW G, Held(query, pc, bitmaps, results, G) PROVE bm \in G[1]
  <2>1. TheStages(query)[pc + 1] = <<1>>
    BY <1>1, <1>7
  <2>2. \A s \in 1..Len(<<1>>) : bitmaps[results[s]] \in G[<<1>>[s]]
    BY <1>8, <2>1 DEF Held
  <2> QED
    BY <1>5, <2>2
<1>9. 1 \in DOMAIN query.op
  <2>1. query.op \in Seq(Ops) /\ query.op # << >>
    BY <1>3 DEF WellFormed, QueryTree
  <2> QED
    BY <2>1
<1>10. ASSUME NEW m, IsMeaning(puts, query, m) PROVE Answers(query, m[1], answer')
  <2>1. Holds(query, m, pc, bitmaps, results)
    BY <1>2, <1>10 DEF Contents
  <2>2. ASSUME Covering(query) PROVE m[1] \subseteq bm.bits
    <3>1. bm \in CoverOf(query, m)[1]
      BY <1>8, <2>1, <2>2 DEF Holds
    <3> QED
      BY <1>9, <3>1 DEF CoverOf, Covers
  <2>3. ASSUME Agreeing(query)
        PROVE  Near(m[1], bm.bits) /\ (~HasNot(query) => bm.bits = m[1])
    <3>1. bm \in AgreeOf(query, m)[1]
      BY <1>8, <2>1, <2>3 DEF Holds
    <3> QED
      BY <1>9, <3>1 DEF AgreeOf, Agrees
  <2>4. answer' = bm.bits
    BY <1>1, <1>5
  <2> QED
    BY <2>2, <2>3, <2>4 DEF Answers
<1>11. query' \in Queries /\ WellFormed(query')
  BY <1>1, <1>2 DEF Executing
<1> QED
  BY <1>0, <1>1, <1>6, <1>10, <1>11 DEF ContentInv

(* The invariant of the bitmaps' contents holds of every search.           *)
LEMMA ContentInvHolds == Spec => []ContentInv
<1>1. Init => ContentInv
  <2>1. Init => StackInv
    BY DEF Init, StackInv, Idle
  <2> QED
    BY <2>1 DEF Init, ContentInv
<1>2. ContentInv /\ [Next]_vars => ContentInv'
  <2> SUFFICES ASSUME ContentInv, [Next]_vars PROVE ContentInv'
    OBVIOUS
  <2>0. StackInv
    BY DEF ContentInv
  <2>1. CASE \E q \in Queries : Prepare(q)
    BY <2>1, PrepareContents
  <2>2. CASE \E q \in Queries : PrepareFaults(q)
    <3>1. StackInv' /\ phase' = "faulted" /\ answer' = None
      BY <2>0, <2>2 DEF PrepareFaults, StackInv, Idle, stacks
    <3> QED
      BY <3>1 DEF ContentInv
  <2>3. CASE Leaf
    BY <2>3, LeafContents
  <2>4. CASE And
    BY <2>4, MergeContents DEF And
  <2>5. CASE Or
    BY <2>5, MergeContents DEF Or
  <2>6. CASE Not
    BY <2>6, NotContents
  <2>7. CASE Expand
    BY <2>7, ExpandContents
  <2>8. CASE Return
    BY <2>8, ReturnContents
  <2>9. CASE Done
    <3>1. StackInv' /\ phase' = "idle" /\ answer' = None
      BY <2>0, <2>9 DEF Done, StackInv, Idle, stacks
    <3> QED
      BY <3>1 DEF ContentInv
  <2>10. CASE UNCHANGED vars
    BY <2>10 DEF vars, stacks, ContentInv, StackInv, Idle, Executing, Contents
  <2>11. CASE \E q \in Queries : RunMalformed(q)
    <3>1. StackInv' /\ phase' # "executing" /\ answer' = None
      BY <2>0, <2>11 DEF RunMalformed, StackInv, Idle, stacks
    <3> QED
      BY <3>1 DEF ContentInv
  <2> QED
    BY <2>1, <2>2, <2>3, <2>4, <2>5, <2>6, <2>7, <2>8, <2>9, <2>10, <2>11 DEF Next
<1> QED
  BY <1>1, <1>2, PTL DEF Spec

(* The answer, in terms of what the query means.                           *)
LEMMA AnswerFacts ==
  ASSUME ContentInv, answer # None
  PROVE  /\ Answers(query, Matches(query), answer)
         /\ Matches(query) \subseteq Rows
<1>1. WellFormed(query)
  BY DEF ContentInv
<1>2. puts \in 0..MaxRecords
  BY SizesAssumption DEF ContentInv, StackInv
<1>3. IsMeaning(puts, query, Meanings(query))
  BY <1>1, <1>2, MeaningsAre
<1>4. Answers(query, Meanings(query)[1], answer)
  BY <1>3 DEF ContentInv
<1>5. Meanings(query)[1] \subseteq Rows
  <2>1. query.op \in Seq(Ops) /\ query.op # << >>
    BY <1>1 DEF WellFormed, QueryTree
  <2>2. 1 \in DOMAIN query.op
    BY <2>1
  <2> QED
    BY <1>3, <2>2, MeaningAt
<1> QED
  BY <1>4, <1>5 DEF Matches

(* For every query without NOT whose EXPANDs expand leaves, a search       *)
(* returns every record that matches (mos.h:179), although bitmaps that    *)
(* were given back are used again with what they hold.                     *)
THEOREM NoMatchIsMissed == Spec => []NothingMissed
<1>1. ContentInv => NothingMissed
  BY AnswerFacts DEF NothingMissed, Answers, Covering
<1> QED
  BY <1>1, ContentInvHolds, PTL

(* For every query whose leaves all run before a merge gives bitmaps back, *)
(* a search returns exactly the records that match; under NOT the last row *)
(* of the storage excepted, and the bits beyond the last row when the rows *)
(* fill their words.                                                       *)
THEOREM ClearedBitmapsAnswerExactly == Spec => []ExactOnClearedBitmaps
<1>1. ASSUME ContentInv PROVE ExactOnClearedBitmaps
  <2> SUFFICES ASSUME answer # None, LeavesRunFirst(query), ExpandsLeavesOnly(query)
               PROVE  IF HasNot(query)
                      THEN /\ (answer \cap Rows) \ {MaxRecords - 1}
                                = Matches(query) \ {MaxRecords - 1}
                           /\ MaxRecords % WordBits # 0 => answer \subseteq Rows
                      ELSE answer = Matches(query)
    BY DEF ExactOnClearedBitmaps
  <2>1. Near(Matches(query), answer) /\ (~HasNot(query) => answer = Matches(query))
    BY <1>1, AnswerFacts DEF Answers, Agreeing
  <2>2. Matches(query) \subseteq Rows
    BY <1>1, AnswerFacts
  <2> QED
    BY <2>1, <2>2 DEF Near
<1> QED
  BY <1>1, ContentInvHolds, PTL

(* For every query without NOT, a search returns no row that was never     *)
(* put.                                                                    *)
THEOREM OnlyPutRowsAnswer == Spec => []OnlyRowsPut
<1>1. ContentInv => OnlyRowsPut
  BY DEF ContentInv, OnlyRowsPut
<1> QED
  BY <1>1, ContentInvHolds, PTL
==============================================================================
