------------------------------ MODULE LeftFolds ------------------------------
(***************************************************************************)
(* Folds from the left, of any operator: FoldLeft() passes through the     *)
(* values one expects, so that what it returns can be told step by step.   *)
(* A module that folds has an instance for each operator it folds; what    *)
(* that operator knows beside its two arguments is env.                    *)
(***************************************************************************)
EXTENDS Naturals, SequencesExt, WellFoundedInduction, TLAPS

CONSTANT Op(_, _, _)

Folded(env, base, seq) == FoldLeft(LAMBDA a, b : Op(env, a, b), base, seq)

\* f has the values on the way through the n elements of seq.
Follows(f, n, env, base, seq) ==
  /\ f[0] = base
  /\ \A k \in 1..n : f[k] = Op(env, f[k - 1], seq[k])
  /\ Folded(env, base, seq) = f[n]

\* st has the states that each step leads to, and no step leaves S.
Passes(st, n, env, seq) == \A k \in 1..n : Op(env, st[k - 1], seq[k]) = st[k]
Stays(S, n, env, seq) == \A k \in 1..n : \A v \in S : Op(env, v, seq[k]) \in S

-----------------------------------------------------------------------------
(* Numbers                                                                 *)

LEMMA LeastNatural ==
  ASSUME NEW S, S \subseteq Nat, S # {}
  PROVE  \E x \in S : \A y \in S : x <= y
<1>1. PICK x \in S : \A y \in S : ~ (<<y, x>> \in OpToRel(<, Nat))
  BY NatLessThanWellFounded, WFMin
<1>2. \A y \in Nat : y < x => <<y, x>> \in OpToRel(<, Nat)
  BY DEF OpToRel
<1>3. ASSUME NEW y \in S
      PROVE  x <= y
  <2>1. x \in Nat /\ y \in Nat
    OBVIOUS
  <2>2. ~ (y < x)
    BY <1>1, <1>2, <2>1, Zenon
  <2> QED BY <2>1, <2>2
<1> QED
  BY <1>3

\* What holds of 0, and of k + 1 when of k, holds up to n.
LEMMA Climb ==
  ASSUME NEW n \in Nat, NEW S, 0 \in S, \A k \in 0..n : k \in S /\ k < n => k + 1 \in S
  PROVE  \A k \in 0..n : k \in S
<1> DEFINE Bad == {k \in 0..n : k \notin S}
<1>1. SUFFICES ASSUME Bad # {} PROVE FALSE
  OBVIOUS
<1>2. PICK x \in Bad : \A y \in Bad : x <= y
  <2>1. Bad \subseteq Nat
    OBVIOUS
  <2> HIDE DEF Bad
  <2> QED BY <1>1, <2>1, LeastNatural
<1>3. x \in 0..n /\ x \notin S /\ x # 0 /\ x - 1 \in 0..n /\ x - 1 \notin Bad
  <2>1. x \in 0..n /\ x \notin S /\ x # 0
    BY <1>2
  <2>2. x - 1 \in 0..n /\ ~ (x <= x - 1)
    BY <2>1
  <2> HIDE DEF Bad
  <2> QED BY <1>2, <2>1, <2>2
<1>4. x - 1 \in S /\ x - 1 < n /\ (x - 1) + 1 = x
  BY <1>3
<1> QED
  BY <1>3, <1>4

\* FoldLeft() takes the last of the indices that are left.
LEMMA LastIndex ==
  ASSUME NEW k \in Nat, NEW S, S \subseteq 1..k, S # {}
  PROVE  Max(S) \in S /\ S \ {Max(S)} \subseteq 1..(k - 1)
<1> DEFINE above == {b \in 0..k : \A y \in S : y <= b}
<1>1. above \subseteq Nat /\ k \in above
  OBVIOUS
<1>2. PICK m \in above : \A b \in above : m <= b
  <2> HIDE DEF above
  <2> QED BY <1>1, LeastNatural
<1>3. m \in 0..k /\ (\A y \in S : y <= m) /\ m # 0
  <2>1. m \in 0..k /\ \A y \in S : y <= m
    OBVIOUS
  <2>2. PICK y \in S : y \in 1..k
    OBVIOUS
  <2> HIDE DEF above
  <2> QED BY <2>1, <2>2
<1>4. m \in S
  <2>1. SUFFICES ASSUME m \notin S PROVE FALSE
    OBVIOUS
  <2>2. m - 1 \in 0..k /\ \A y \in S : y <= m - 1
    BY <1>3, <2>1
  <2>3. m - 1 \in above
    BY <2>2
  <2> HIDE DEF above
  <2> QED BY <1>2, <1>3, <2>3
<1>5. PICK x : x = Max(S)
  OBVIOUS
<1>6. x \in S /\ \A y \in S : x >= y
  BY <1>3, <1>4, <1>5 DEF Max
<1>7. S \ {x} \subseteq 1..(k - 1)
  BY <1>6
<1> QED
  BY <1>5, <1>6, <1>7

LEMMA LastOfAll ==
  ASSUME NEW k \in Nat, k # 0
  PROVE  Max(1..k) = k /\ (1..k) \ {k} = 1..(k - 1)
<1>1. PICK m : m = Max(1..k)
  OBVIOUS
<1>2. k \in 1..k /\ \A y \in 1..k : k >= y
  OBVIOUS
<1>3. m \in 1..k /\ \A y \in 1..k : m >= y
  BY <1>1, <1>2 DEF Max
<1> QED
  BY <1>1, <1>3

-----------------------------------------------------------------------------
(* Folds                                                                   *)

\* What FoldLeft() does with the indices s that are left.
Body(g, env, base, seq, s) == IF s = {} THEN base ELSE Op(env, g[s \ {Max(s)}], seq[Max(s)])

\* g is a function as FoldLeft() defines it.
Iterates(g, n, env, base, seq) == g = [s \in SUBSET (1..n) |-> Body(g, env, base, seq, s)]

LEMMA IterThere ==
  ASSUME NEW n \in Nat, NEW env, NEW base, NEW seq
  PROVE  \E g : Iterates(g, n, env, base, seq)
<1> DEFINE Good(g, k) == \A s \in SUBSET (1..k) : g[s] = Body(g, env, base, seq, s)
           Upto == {k \in 0..n : \E g : Good(g, k)}
<1>1. 0 \in Upto
  <2>1. PICK g : g = [s \in {{}} |-> base]
    OBVIOUS
  <2>2. \A s \in SUBSET (1..0) : s = {} /\ g[s] = base
    BY <2>1
  <2>3. Good(g, 0)
    BY <2>2 DEF Body
  <2> HIDE DEF Good
  <2> QED BY <2>3
<1>2. \A k \in 0..n : k \in Upto /\ k < n => k + 1 \in Upto
  <2> SUFFICES ASSUME NEW k \in 0..n, k \in Upto, k < n
               PROVE  k + 1 \in Upto
    OBVIOUS
  <2>1. k \in Nat /\ k + 1 \in Nat /\ (k + 1) - 1 = k /\ k + 1 \in 0..n
    <3> HIDE DEF Upto
    <3> QED OBVIOUS
  <2>2. PICK g : Good(g, k)
    <3> HIDE DEF Good
    <3> QED OBVIOUS
  <2>3. PICK h : h = [s \in SUBSET (1..(k + 1)) |-> Body(g, env, base, seq, s)]
    OBVIOUS
  <2>4. ASSUME NEW s \in SUBSET (1..(k + 1)), s # {}
        PROVE  h[s \ {Max(s)}] = g[s \ {Max(s)}]
    <3>1. PICK t : t = s \ {Max(s)}
      OBVIOUS
    <3>2. t \in SUBSET (1..k)
      BY <2>1, <2>4, <3>1, LastIndex
    <3>3. t \in SUBSET (1..(k + 1))
      BY <2>1, <3>2
    <3> QED BY <2>2, <2>3, <3>1, <3>2, <3>3
  <2>5. Good(h, k + 1)
    BY <2>3, <2>4 DEF Body
  <2> HIDE DEF Good
  <2> QED
    BY <2>1, <2>5
<1>3. n \in Upto
  <2> HIDE DEF Upto
  <2> QED BY <1>1, <1>2, Climb
<1>4. PICK g : Good(g, n)
  <2> HIDE DEF Good
  <2> QED BY <1>3
<1>5. PICK h : h = [s \in SUBSET (1..n) |-> Body(g, env, base, seq, s)]
  OBVIOUS
<1>6. \A s \in SUBSET (1..n) : h[s] = g[s]
  BY <1>4, <1>5
<1>7. ASSUME NEW s \in SUBSET (1..n)
      PROVE  Body(g, env, base, seq, s) = Body(h, env, base, seq, s)
  BY <1>6 DEF Body
<1>8. Iterates(h, n, env, base, seq)
  BY <1>5, <1>7 DEF Iterates
<1> QED
  BY <1>8

\* What a fold returns is the last of values each of which is made of the one before it.
THEOREM FoldSteps ==
  ASSUME NEW n \in Nat, NEW env, NEW base, NEW seq, DOMAIN seq = 1..n
  PROVE  \E f : Follows(f, n, env, base, seq)
<1>1. PICK h : h = CHOOSE x : Iterates(x, n, env, base, seq)
  OBVIOUS
<1>2. h = [s \in SUBSET (1..n) |-> Body(h, env, base, seq, s)]
  BY <1>1, IterThere DEF Iterates
<1>3. Folded(env, base, seq) = h[1..n]
  BY <1>1 DEF Iterates, Folded, FoldLeft, MapThenFoldSet, Body
<1>4. PICK f : f = [k \in 0..n |-> h[1..k]]
  OBVIOUS
<1>5. f[0] = base
  <2>1. 1..0 = {}
    OBVIOUS
  <2> QED BY <1>2, <1>4, <2>1 DEF Body
<1>6. ASSUME NEW k \in 1..n
      PROVE  f[k] = Op(env, f[k - 1], seq[k])
  <2>1. k \in 0..n /\ k - 1 \in 0..n /\ k \in 1..k /\ k \in Nat
    OBVIOUS
  <2>2. Max(1..k) = k /\ (1..k) \ {k} = 1..(k - 1)
    BY <2>1, LastOfAll
  <2>3. 1..k \in SUBSET (1..n) /\ 1..k # {}
    BY <2>1
  <2>4. h[1..k] = Body(h, env, base, seq, 1..k)
    BY <1>2, <2>3
  <2> QED
    BY <1>4, <2>1, <2>2, <2>3, <2>4 DEF Body
<1>7. f[n] = h[1..n]
  BY <1>4
<1> QED
  BY <1>3, <1>5, <1>6, <1>7 DEF Follows

\* A fold goes through the states that each step leads to.
THEOREM FoldPasses ==
  ASSUME NEW n \in Nat, NEW env, NEW seq, DOMAIN seq = 1..n, NEW st,
         Passes(st, n, env, seq)
  PROVE  Folded(env, st[0], seq) = st[n]
<1>1. PICK f : Follows(f, n, env, st[0], seq)
  BY FoldSteps
<1> DEFINE S == {k \in 0..n : f[k] = st[k]}
<1>2. 0 \in S
  BY <1>1 DEF Follows
<1>3. \A k \in 0..n : k \in S /\ k < n => k + 1 \in S
  <2> TAKE k \in 0..n
  <2> HAVE k \in S /\ k < n
  <2>1. k + 1 \in 1..n /\ (k + 1) - 1 = k /\ k + 1 \in 0..n
    OBVIOUS
  <2>2. f[k + 1] = Op(env, f[k], seq[k + 1])
    BY <1>1, <2>1 DEF Follows
  <2>3. st[k + 1] = Op(env, st[k], seq[k + 1])
    BY <2>1 DEF Passes
  <2> QED
    BY <2>1, <2>2, <2>3
<1>4. n \in S
  <2>1. n \in 0..n
    OBVIOUS
  <2> HIDE DEF S
  <2> QED BY <1>2, <1>3, <2>1, Climb
<1> QED
  BY <1>1, <1>4 DEF Follows

\* A fold stays in a set that no step leaves.
THEOREM FoldStays ==
  ASSUME NEW n \in Nat, NEW env, NEW seq, DOMAIN seq = 1..n, NEW S, NEW base \in S,
         Stays(S, n, env, seq)
  PROVE  Folded(env, base, seq) \in S
<1>1. PICK f : Follows(f, n, env, base, seq)
  BY FoldSteps
<1> DEFINE In == {k \in 0..n : f[k] \in S}
<1>2. 0 \in In
  BY <1>1 DEF Follows
<1>3. \A k \in 0..n : k \in In /\ k < n => k + 1 \in In
  <2> TAKE k \in 0..n
  <2> HAVE k \in In /\ k < n
  <2>1. k + 1 \in 1..n /\ (k + 1) - 1 = k /\ k + 1 \in 0..n
    OBVIOUS
  <2>2. f[k + 1] = Op(env, f[k], seq[k + 1])
    BY <1>1, <2>1 DEF Follows
  <2> QED
    BY <2>1, <2>2 DEF Stays
<1>4. n \in In
  <2>1. n \in 0..n
    OBVIOUS
  <2> HIDE DEF In
  <2> QED BY <1>2, <1>3, <2>1, Climb
<1> QED
  BY <1>1, <1>4 DEF Follows

=============================================================================
