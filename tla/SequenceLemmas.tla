---------------------------- MODULE SequenceLemmas ----------------------------
(***************************************************************************)
(* Facts about numbers, recursive functions and sequences that the proofs  *)
(* of several modules need.  None is about the program.                    *)
(***************************************************************************)
EXTENDS Naturals, SequencesExt, WellFoundedInduction, TLAPS

-------------------------------------------------------------------------------
(* Induction                                                               *)

\* Every set of numbers has a least element.
LEMMA LeastNumber ==
  ASSUME NEW T, T \subseteq Nat, T # {}
  PROVE  \E m \in T : \A k \in T : m <= k
<1> DEFINE R == OpToRel(<, Nat)
<1>1. IsWellFoundedOn(R, Nat)
  BY NatLessThanWellFounded
<1>2. ASSUME NEW x \in Nat, NEW y \in Nat, x < y
      PROVE  <<x, y>> \in R
  BY <1>2 DEF OpToRel
<1> HIDE DEF R
<1>3. PICK x \in T : \A y \in T : ~ (<<y, x>> \in R)
  BY <1>1, WFMin
<1>4. ASSUME NEW k \in T
      PROVE  x <= k
  <2>1. x \in Nat /\ k \in Nat
    OBVIOUS
  <2>2. ~(k < x)
    BY <2>1, <1>2, <1>3
  <2> QED
    BY <2>1, <2>2
<1> QED
  BY <1>4

\* Induction, for sets.
LEMMA Induction ==
  ASSUME NEW S, 0 \in S, \A n \in Nat : n \in S => n + 1 \in S
  PROVE  \A n \in Nat : n \in S
<1> SUFFICES ASSUME NEW x \in Nat, x \notin S
             PROVE  FALSE
  OBVIOUS
<1> DEFINE T == { n \in Nat : n \notin S }
<1>1. T \subseteq Nat /\ T # {}
  OBVIOUS
<1> HIDE DEF T
<1>2. PICK m \in T : \A k \in T : m <= k
  BY <1>1, LeastNumber
<1>3. m \in Nat /\ m \notin S /\ m # 0
  BY <1>2 DEF T
<1>4. m - 1 \in Nat /\ m - 1 \notin T
  BY <1>3, <1>2, <1>1
<1>5. m - 1 \in S
  BY <1>4 DEF T
<1> QED
  BY <1>3, <1>4, <1>5

\* A set of numbers with a bound has a greatest element.
LEMMA GreatestNumber ==
  ASSUME NEW T, NEW n \in Nat, T \subseteq 0..n, T # {}
  PROVE  \E m \in T : \A k \in T : k <= m
<1> DEFINE U == { u \in Nat : \A k \in T : k <= u }
<1>1. U \subseteq Nat /\ n \in U
  OBVIOUS
<1>2. PICK u \in U : \A k \in U : u <= k
  <2> HIDE DEF U
  <2> QED
    BY <1>1, LeastNumber
<1>3. SUFFICES ASSUME u \notin T
               PROVE  FALSE
  BY <1>2
<1>4. u \in Nat /\ \A k \in T : k \in Nat /\ k <= u - 1
  BY <1>2, <1>3
<1>5. PICK t \in T : TRUE
  OBVIOUS
<1>6. u - 1 \in U
  BY <1>4, <1>5
<1> QED
  BY <1>2, <1>4, <1>6

\* Functions that take the same steps are the same.
LEMMA SameSteps ==
  ASSUME NEW f, NEW g, NEW n \in Nat, f[0] = g[0],
         \A k \in 1..n : f[k - 1] = g[k - 1] => f[k] = g[k]
  PROVE  \A k \in 0..n : f[k] = g[k]
<1> DEFINE S == { k \in Nat : k <= n => f[k] = g[k] }
<1>1. 0 \in S
  OBVIOUS
<1>2. ASSUME NEW k \in Nat, k \in S
      PROVE  k + 1 \in S
  <2>1. k + 1 <= n => k + 1 \in 1..n /\ (k + 1) - 1 = k /\ k <= n
    OBVIOUS
  <2> QED
    BY <2>1, <1>2
<1> HIDE DEF S
<1>3. \A k \in Nat : k \in S
  BY <1>1, <1>2, Induction
<1> QED
  BY <1>3 DEF S

\* Steps that stay in a set do so from its elements on.
LEMMA StepsStay ==
  ASSUME NEW V, NEW f, NEW n \in Nat, f[0] \in V,
         \A k \in 1..n : f[k - 1] \in V => f[k] \in V
  PROVE  \A k \in 0..n : f[k] \in V
<1> DEFINE S == { k \in Nat : k <= n => f[k] \in V }
<1>1. 0 \in S
  OBVIOUS
<1>2. ASSUME NEW k \in Nat, k \in S
      PROVE  k + 1 \in S
  <2>1. k + 1 <= n => k + 1 \in 1..n /\ (k + 1) - 1 = k /\ k <= n
    OBVIOUS
  <2> QED
    BY <2>1, <1>2
<1> HIDE DEF S
<1>3. \A k \in Nat : k \in S
  BY <1>1, <1>2, Induction
<1> QED
  BY <1>3 DEF S

\* h begins with base and takes the given steps in V.
Runs(h, j, V, base, step) ==
  /\ h \in [0..j -> V] /\ h[0] = base
  /\ \A k \in 1..j : h[k] = step[<<h[k - 1], k>>]

\* There is such a function.
LEMMA Recursion ==
  ASSUME NEW V, NEW n \in Nat, NEW base \in V, NEW step,
         \A v \in V : \A k \in 1..n : step[<<v, k>>] \in V
  PROVE  \E h : Runs(h, n, V, base, step)
<1> DEFINE S == { j \in Nat : j <= n => \E h : Runs(h, j, V, base, step) }
<1>1. 0 \in S
  <2>1. Runs([k \in 0..0 |-> base], 0, V, base, step)
    BY DEF Runs
  <2> QED
    BY <2>1
<1>2. ASSUME NEW j \in Nat, j \in S
      PROVE  j + 1 \in S
  <2>1. SUFFICES ASSUME j + 1 <= n
                 PROVE  \E h : Runs(h, j + 1, V, base, step)
    OBVIOUS
  <2>2. PICK h : Runs(h, j, V, base, step)
    BY <1>2, <2>1
  <2> DEFINE next == step[<<h[j], j + 1>>]
             g == [k \in 0..(j + 1) |-> IF k <= j THEN h[k] ELSE next]
  <2>3. h[j] \in V /\ j + 1 \in 1..n
    BY <2>1, <2>2 DEF Runs
  <2>4. next \in V
    BY <2>3
  <2> HIDE DEF next
  <2>5. g \in [0..(j + 1) -> V] /\ g[0] = base
    BY <2>2, <2>4 DEF Runs
  <2>6. ASSUME NEW k \in 1..(j + 1)
        PROVE  g[k] = step[<<g[k - 1], k>>]
    <3>1. CASE k \in 1..j
      <4>1. k \in 0..(j + 1) /\ k - 1 \in 0..(j + 1) /\ k <= j /\ k - 1 <= j
        BY <3>1
      <4>2. g[k] = h[k] /\ g[k - 1] = h[k - 1]
        BY <4>1
      <4> QED
        BY <4>2, <3>1, <2>2 DEF Runs
    <3>2. CASE k = j + 1
      <4>1. g[k] = next /\ g[k - 1] = h[j]
        BY <3>2
      <4> QED
        BY <4>1, <3>2 DEF next
    <3> QED
      BY <3>1, <3>2
  <2>7. Runs(g, j + 1, V, base, step)
    BY <2>5, <2>6 DEF Runs
  <2> QED
    BY <2>7
<1> HIDE DEF S
<1>3. n \in S
  BY <1>1, <1>2, Induction
<1> QED
  BY <1>3 DEF S

-------------------------------------------------------------------------------
(* Sequences                                                               *)

\* One more element.
LEMMA AppendProperties ==
  ASSUME NEW V, NEW s \in Seq(V), NEW v \in V
  PROVE  /\ Append(s, v) \in Seq(V) /\ Len(s) \in Nat /\ Len(Append(s, v)) = Len(s) + 1
         /\ \A k \in 1..Len(s) : Append(s, v)[k] = s[k]
         /\ Append(s, v)[Len(s) + 1] = v
OBVIOUS

\* Every sequence is empty or another one with one more element.
LEMMA FrontAndLast ==
  ASSUME NEW V, NEW s \in Seq(V), s # <<>>
  PROVE  /\ Len(s) \in Nat \ {0} /\ s[Len(s)] \in V
         /\ SubSeq(s, 1, Len(s) - 1) \in Seq(V)
         /\ Len(SubSeq(s, 1, Len(s) - 1)) = Len(s) - 1
         /\ \A k \in 1..(Len(s) - 1) : SubSeq(s, 1, Len(s) - 1)[k] = s[k]
         /\ s = Append(SubSeq(s, 1, Len(s) - 1), s[Len(s)])
<1>1. Len(s) \in Nat \ {0} /\ s[Len(s)] \in V
  OBVIOUS
<1> DEFINE m == Len(s) - 1
           t == SubSeq(s, 1, Len(s) - 1)
<1>2. /\ t \in Seq(V) /\ Len(t) = Len(s) - 1
      /\ \A k \in 1..(Len(s) - 1) : t[k] = s[k]
  <2>1. m \in Nat /\ m <= Len(s) /\ Len(s) \in Nat
    BY <1>1
  <2> HIDE DEF m
  <2>2. \A k \in 1..m : k \in 1..Len(s) /\ s[k] \in V
    BY <2>1
  <2>3. /\ SubSeq(s, 1, m) \in Seq(V) /\ Len(SubSeq(s, 1, m)) = m
        /\ \A k \in 1..m : SubSeq(s, 1, m)[k] = s[k]
    BY <2>1, <2>2
  <2> QED
    BY <2>3 DEF m
<1> HIDE DEF t
<1>3. s = Append(t, s[Len(s)])
  BY <1>1, <1>2
<1> QED
  BY <1>1, <1>2, <1>3 DEF t

\* What holds of the empty sequence, and of a sequence with one more element
\* when it does of the sequence, holds of all sequences.
LEMMA SequenceInduction ==
  ASSUME NEW V, NEW S, <<>> \in S,
         \A s \in Seq(V) : s \in S => \A v \in V : Append(s, v) \in S
  PROVE  \A s \in Seq(V) : s \in S
<1> DEFINE T == { n \in Nat : \A s \in Seq(V) : Len(s) = n => s \in S }
<1>1. 0 \in T
  OBVIOUS
<1>2. ASSUME NEW n \in Nat, n \in T
      PROVE  n + 1 \in T
  <2>1. SUFFICES ASSUME NEW s \in Seq(V), Len(s) = n + 1
                 PROVE  s \in S
    OBVIOUS
  <2> DEFINE t == SubSeq(s, 1, Len(s) - 1)
  <2>2. s # <<>>
    BY <2>1
  <2>3. t \in Seq(V) /\ Len(t) = Len(s) - 1 /\ s = Append(t, s[Len(s)]) /\ s[Len(s)] \in V
    BY <2>2, FrontAndLast
  <2> HIDE DEF t
  <2>4. t \in S
    BY <2>1, <2>3, <1>2
  <2> QED
    BY <2>3, <2>4
<1> HIDE DEF T
<1>3. \A n \in Nat : n \in T
  BY <1>1, <1>2, Induction
<1> QED
  BY <1>3 DEF T

\* Concatenation.
LEMMA ConcatProperties ==
  ASSUME NEW V, NEW s \in Seq(V), NEW t \in Seq(V)
  PROVE  /\ s \o t \in Seq(V) /\ s \o <<>> = s /\ <<>> \o s = s
         /\ Len(s \o t) = Len(s) + Len(t)
         /\ \A k \in 1..Len(s) : (s \o t)[k] = s[k]
         /\ \A k \in 1..Len(t) : (s \o t)[Len(s) + k] = t[k]
OBVIOUS

\* Concatenation is associative.
LEMMA ConcatAssociative ==
  ASSUME NEW V, NEW r \in Seq(V), NEW s \in Seq(V), NEW t \in Seq(V)
  PROVE  (r \o s) \o t = r \o (s \o t)
<1> DEFINE a == (r \o s) \o t
           b == r \o (s \o t)
<1>1. /\ a \in Seq(V) /\ b \in Seq(V)
      /\ Len(r) \in Nat /\ Len(s) \in Nat /\ Len(t) \in Nat
      /\ Len(a) = Len(r) + Len(s) + Len(t) /\ Len(b) = Len(r) + Len(s) + Len(t)
  OBVIOUS
<1>2. ASSUME NEW k \in 1..(Len(r) + Len(s) + Len(t))
      PROVE  a[k] = b[k]
  OBVIOUS
<1> HIDE DEF a, b
<1>3. a = b
  BY <1>1, <1>2
<1> QED
  BY <1>3 DEF a, b

\* The elements of a concatenation.
LEMMA ConcatElements ==
  ASSUME NEW V, NEW s \in Seq(V), NEW t \in Seq(V), NEW k \in 1..Len(s \o t)
  PROVE  \/ \E j \in 1..Len(s) : (s \o t)[k] = s[j]
         \/ \E j \in 1..Len(t) : (s \o t)[k] = t[j]
<1>1. Len(s) \in Nat /\ Len(t) \in Nat /\ Len(s \o t) = Len(s) + Len(t)
  BY ConcatProperties
<1>2. CASE k <= Len(s)
  BY <1>1, <1>2, ConcatProperties
<1>3. CASE ~(k <= Len(s))
  <2>1. k - Len(s) \in 1..Len(t) /\ Len(s) + (k - Len(s)) = k
    BY <1>1, <1>3
  <2>2. (s \o t)[k] = t[k - Len(s)]
    BY <2>1, ConcatProperties
  <2> QED
    BY <2>1, <2>2
<1> QED
  BY <1>2, <1>3

Flat(flatten, ss) ==
  flatten = [i \in 1..Len(ss) |-> IF i = 1 THEN ss[i] ELSE flatten[i - 1] \o ss[i]]

\* The equation of FlattenSeq, one step at a time.
LEMMA FlatSteps ==
  ASSUME NEW ss, NEW f, Flat(f, ss), NEW i \in 1..Len(ss)
  PROVE  f[i] = IF i = 1 THEN ss[i] ELSE f[i - 1] \o ss[i]
<1> DEFINE body(j) == IF j = 1 THEN ss[j] ELSE f[j - 1] \o ss[j]
<1>1. f = [j \in 1..Len(ss) |-> body(j)]
  BY DEF Flat
<1> HIDE DEF body
<1>2. f[i] = body(i)
  BY <1>1
<1> QED
  BY <1>2 DEF body

Sums(f, ss, V) ==
  /\ f[0] = <<>> /\ FlattenSeq(ss) = f[Len(ss)]
  /\ \A k \in 1..Len(ss) : f[k] = f[k - 1] \o ss[k]
  /\ \A k \in 0..Len(ss) : f[k] \in Seq(V)

\* FlattenSeq concatenates one sequence after the other.
LEMMA FlattenEquation ==
  ASSUME NEW V, NEW ss \in Seq(Seq(V))
  PROVE  \E f : Sums(f, ss, V)
<1> DEFINE n == Len(ss)
           W == Seq(V)
           e == <<>>
           step == [x \in W \X (1..n) |-> x[1] \o ss[x[2]]]
<1>1. n \in Nat /\ e \in W /\ \A k \in 1..n : ss[k] \in W
  OBVIOUS
<1>2. n # 0 => FlattenSeq(ss) = (CHOOSE f : Flat(f, ss))[n]
  BY DEF FlattenSeq, Flat
<1>3. n = 0 => FlattenSeq(ss) = <<>>
  BY DEF FlattenSeq
<1>4. \A r \in W : \A k \in 1..n : step[<<r, k>>] = r \o ss[k] /\ r \o ss[k] \in W
  <2>1. ASSUME NEW r \in W, NEW k \in 1..n
        PROVE  step[<<r, k>>] = r \o ss[k]
    BY <2>1
  <2>2. ASSUME NEW r \in W, NEW k \in 1..n
        PROVE  r \o ss[k] \in W
    BY <1>1, ConcatProperties
  <2> QED
    BY <2>1, <2>2
<1>5. \A r \in W : e \o r = r
  BY ConcatProperties
<1> HIDE DEF n, W, e, step
<1>6. \E h : Runs(h, n, W, e, step)
  BY <1>1, <1>4, Recursion
<1>7. PICK h : /\ h \in [0..n -> W] /\ h[0] = e
               /\ \A k \in 1..n : h[k] = step[<<h[k - 1], k>>]
  BY <1>6 DEF Runs
<1>8. ASSUME NEW k \in 1..n
      PROVE  h[k - 1] \in W /\ h[k] = h[k - 1] \o ss[k] /\ h[k] \in W
  <2>1. k \in 0..n /\ k - 1 \in 0..n
    BY <1>1
  <2>2. h[k - 1] \in W /\ h[k] \in W
    BY <2>1, <1>7
  <2> QED
    BY <2>2, <1>4, <1>7
<1> DEFINE g == [k \in 1..n |-> h[k]]
<1>9. ASSUME NEW k \in 1..n
      PROVE  g[k] = IF k = 1 THEN ss[k] ELSE g[k - 1] \o ss[k]
  <2>1. CASE k = 1
    <3>1. h[k] = e \o ss[k]
      <4>1. h[k - 1] = e
        BY <2>1, <1>7
      <4> QED
        BY <4>1, <1>8
    <3> QED
      BY <2>1, <3>1, <1>1, <1>5
  <2>2. CASE k # 1
    <3>1. k - 1 \in 1..n
      BY <2>2, <1>1
    <3> QED
      BY <3>1, <2>2, <1>8
  <2> QED
    BY <2>1, <2>2
<1>10. Flat(g, ss)
  <2>1. g = [k \in 1..n |-> IF k = 1 THEN ss[k] ELSE g[k - 1] \o ss[k]]
    BY <1>9
  <2> QED
    BY <2>1 DEF Flat, n
<1> HIDE DEF g
<1>11. PICK f : f = (CHOOSE g0 : Flat(g0, ss)) /\ Flat(f, ss)
  BY <1>10
<1> DEFINE F == [k \in 0..n |-> IF k = 0 THEN e ELSE f[k]]
<1>12. F[0] = e
  BY <1>1
<1>13. ASSUME NEW k \in 1..n
       PROVE  F[k] = F[k - 1] \o ss[k]
  <2>1. f[k] = IF k = 1 THEN ss[k] ELSE f[k - 1] \o ss[k]
    BY <1>11, FlatSteps DEF n
  <2>2. k \in 0..n /\ k - 1 \in 0..n /\ k # 0 /\ F[k] = f[k]
    BY <1>1
  <2>3. CASE k = 1
    <3>1. F[k - 1] = e
      BY <2>3, <1>12
    <3> QED
      BY <3>1, <2>3, <2>1, <2>2, <1>1, <1>5
  <2>4. CASE k # 1
    <3>1. F[k - 1] = f[k - 1]
      BY <2>4, <2>2
    <3> QED
      BY <3>1, <2>4, <2>1, <2>2
  <2> QED
    BY <2>3, <2>4
<1>14. FlattenSeq(ss) = F[n]
  BY <1>1, <1>2, <1>3, <1>11, <1>12 DEF e
<1> HIDE DEF F
<1>15. \A k \in 1..n : F[k - 1] \in W => F[k] \in W
  BY <1>1, <1>4, <1>13
<1>16. \A k \in 0..n : F[k] \in W
  BY <1>1, <1>12, <1>15, StepsStay
<1>17. Sums(F, ss, V)
  BY <1>12, <1>13, <1>14, <1>16 DEF n, W, e, Sums
<1> QED
  BY <1>17

\* One more sequence.
LEMMA Flatten ==
  ASSUME NEW V, NEW ss \in Seq(Seq(V)), NEW s \in Seq(V)
  PROVE  /\ FlattenSeq(<<>>) = <<>>
         /\ FlattenSeq(ss) \in Seq(V)
         /\ FlattenSeq(Append(ss, s)) = FlattenSeq(ss) \o s
<1> DEFINE t == Append(ss, s)
           W == Seq(V)
<1>1. FlattenSeq(<<>>) = <<>>
  BY DEF FlattenSeq
<1>2. PICK f : Sums(f, ss, V)
  BY FlattenEquation
<1>3. /\ t \in Seq(W) /\ Len(ss) \in Nat /\ Len(t) = Len(ss) + 1
      /\ \A k \in 1..Len(ss) : t[k] = ss[k]
      /\ t[Len(ss) + 1] = s
  <2>1. ss \in Seq(W) /\ s \in W
    OBVIOUS
  <2> HIDE DEF W
  <2> QED
    BY <2>1, AppendProperties
<1> HIDE DEF t
<1>4. PICK g : Sums(g, t, V)
  BY <1>3, FlattenEquation
<1>5. \A k \in 0..Len(ss) : f[k] = g[k]
  <2>1. ASSUME NEW k \in 1..Len(ss), f[k - 1] = g[k - 1]
        PROVE  f[k] = g[k]
    <3>1. k \in 1..Len(t)
      BY <1>3
    <3>2. f[k] = f[k - 1] \o ss[k]
      BY <1>2 DEF Sums
    <3>3. g[k] = g[k - 1] \o t[k]
      BY <3>1, <1>4 DEF Sums
    <3> QED
      BY <2>1, <3>2, <3>3, <1>3
  <2>2. f[0] = g[0]
    BY <1>2, <1>4 DEF Sums
  <2> QED
    BY <1>3, <2>1, <2>2, SameSteps, ZenonT(40)
<1>6. g[Len(t)] = g[Len(ss)] \o s
  <2>1. Len(t) \in 1..Len(t) /\ Len(t) - 1 = Len(ss)
    BY <1>3
  <2>2. g[Len(t)] = g[Len(t) - 1] \o t[Len(t)]
    BY <2>1, <1>4 DEF Sums
  <2>3. t[Len(t)] = s
    BY <1>3
  <2> QED
    BY <2>1, <2>2, <2>3
<1>7. FlattenSeq(t) = FlattenSeq(ss) \o s
  <2>1. FlattenSeq(t) = g[Len(t)] /\ FlattenSeq(ss) = f[Len(ss)]
    BY <1>2, <1>4 DEF Sums
  <2>2. f[Len(ss)] = g[Len(ss)]
    BY <1>3, <1>5
  <2> QED
    BY <2>1, <2>2, <1>6
<1>8. FlattenSeq(ss) \in Seq(V)
  BY <1>2, <1>3 DEF Sums
<1> QED
  BY <1>1, <1>7, <1>8 DEF t

-------------------------------------------------------------------------------
(* Scanners                                                                *)

\* h has the states of a scanner while it reads s.
Scans(h, s, W, base, step) ==
  /\ h \in [0..Len(s) -> W] /\ h[0] = base
  /\ \A k \in 1..Len(s) : h[k] = step[<<h[k - 1], s[k]>>]

\* A scanner runs over every input.
LEMMA ScanExists ==
  ASSUME NEW V, NEW s \in Seq(V), NEW W, NEW base \in W, NEW step \in [W \X V -> W]
  PROVE  \E h : Scans(h, s, W, base, step)
<1> DEFINE n == Len(s)
           next == [x \in W \X (1..n) |-> step[<<x[1], s[x[2]]>>]]
<1>1. n \in Nat /\ \A k \in 1..n : s[k] \in V
  OBVIOUS
<1> HIDE DEF n
<1>2. \A w \in W : \A k \in 1..n : next[<<w, k>>] = step[<<w, s[k]>>]
  OBVIOUS
<1> HIDE DEF next
<1>3. ASSUME NEW w \in W, NEW k \in 1..n
      PROVE  next[<<w, k>>] \in W
  <2>1. <<w, s[k]>> \in W \X V
    BY <1>1
  <2>2. step[<<w, s[k]>>] \in W
    BY <2>1
  <2> QED
    BY <2>2, <1>2
<1>4. PICK h : Runs(h, n, W, base, next)
  BY <1>1, <1>3, Recursion
<1>5. ASSUME NEW k \in 1..n
      PROVE  h[k] = step[<<h[k - 1], s[k]>>]
  <2>1. k - 1 \in 0..n
    BY <1>1
  <2>2. h[k - 1] \in W
    BY <2>1, <1>4 DEF Runs
  <2> QED
    BY <2>2, <1>2, <1>4 DEF Runs
<1>6. Scans(h, s, W, base, step)
  BY <1>4, <1>5 DEF Runs, Scans, n
<1> QED
  BY <1>6

\* There is one only.
LEMMA ScanUnique ==
  ASSUME NEW V, NEW s \in Seq(V), NEW W, NEW base, NEW step, NEW h,
         Scans(h, s, W, base, step), NEW f, f[0] = base,
         \A k \in 1..Len(s) : f[k - 1] \in W => f[k] = step[<<f[k - 1], s[k]>>]
  PROVE  \A k \in 0..Len(s) : f[k] = h[k]
<1>1. Len(s) \in Nat /\ f[0] = h[0]
  BY DEF Scans
<1>2. ASSUME NEW k \in 1..Len(s), f[k - 1] = h[k - 1]
      PROVE  f[k] = h[k]
  <2>1. k - 1 \in 0..Len(s)
    BY <1>1
  <2>2. f[k - 1] \in W
    BY <2>1, <1>2 DEF Scans
  <2> QED
    BY <2>2, <1>2 DEF Scans
<1> QED
  BY <1>1, <1>2, SameSteps

\* One more character.
LEMMA ScanAppend ==
  ASSUME NEW V, NEW s \in Seq(V), NEW v \in V, NEW W, NEW base, NEW step, NEW h, NEW g,
         Scans(h, s, W, base, step), Scans(g, Append(s, v), W, base, step)
  PROVE  g[Len(Append(s, v))] = step[<<h[Len(s)], v>>]
<1> DEFINE t == Append(s, v)
<1>1. /\ Len(s) \in Nat /\ Len(t) = Len(s) + 1 /\ t[Len(s) + 1] = v
      /\ \A k \in 1..Len(s) : t[k] = s[k]
  BY AppendProperties
<1> HIDE DEF t
<1>2. g[0] = base /\ \A k \in 1..(Len(s) + 1) : g[k] = step[<<g[k - 1], t[k]>>]
  BY <1>1 DEF Scans, t
<1>3. \A k \in 1..Len(s) : g[k] = step[<<g[k - 1], s[k]>>]
  BY <1>1, <1>2
<1>4. g[Len(s)] = h[Len(s)]
  BY <1>1, <1>2, <1>3, ScanUnique
<1>5. g[Len(s) + 1] = step[<<g[Len(s)], v>>]
  BY <1>1, <1>2
<1> QED
  BY <1>1, <1>4, <1>5 DEF t

\* One or two elements more.
LEMMA Short ==
  ASSUME NEW C, NEW s \in Seq(C), NEW a \in C, NEW b \in C
  PROVE  s \o <<a>> = Append(s, a) /\ s \o <<a, b>> = Append(Append(s, a), b)
OBVIOUS

\* A sequence between two equal elements.
LEMMA Enclosed ==
  ASSUME NEW C, NEW s \in Seq(C), NEW e \in Seq(C), NEW q \in C
  PROVE  /\ <<q>> \o e \o <<q>> \in Seq(C)
         /\ s \o (<<q>> \o e \o <<q>>) = Append(Append(s, q) \o e, q)
<1> DEFINE p == <<q>>
<1>1. p \in Seq(C) /\ p \o e \in Seq(C) /\ (p \o e) \o p \in Seq(C)
  OBVIOUS
<1>2. s \o p = Append(s, q) /\ Append(s, q) \o e \in Seq(C)
  BY Short, ConcatProperties
<1>3. (Append(s, q) \o e) \o p = Append(Append(s, q) \o e, q)
  BY <1>2, Short
<1> HIDE DEF p
<1>4. (s \o (p \o e)) \o p = s \o ((p \o e) \o p)
  BY <1>1, ConcatAssociative, SMTT(60)
<1>5. (s \o p) \o e = s \o (p \o e)
  BY <1>1, ConcatAssociative, SMTT(60)
<1> QED
  BY <1>1, <1>2, <1>3, <1>4, <1>5 DEF p

\* Appending to the second of two sequences.
LEMMA ConcatAppend ==
  ASSUME NEW C, NEW s \in Seq(C), NEW e \in Seq(C), NEW c \in C
  PROVE  s \o e \in Seq(C) /\ s \o Append(e, c) = Append(s \o e, c)
OBVIOUS

\* A part of a sequence.
LEMMA PartOfText ==
  ASSUME NEW V, NEW s \in Seq(V), NEW m \in 1..(Len(s) + 1), NEW n \in (m - 1)..Len(s)
  PROVE  SubSeq(s, m, n) \in Seq(V)
<1>1. Len(s) \in Nat /\ m \in Int /\ n \in Int
  OBVIOUS
<1>2. SubSeq(s, m, n) = [k \in 1..(n - m + 1) |-> s[m + k - 1]]
  BY <1>1
<1>3. n - m + 1 \in Nat /\ \A k \in 1..(n - m + 1) : m + k - 1 \in 1..Len(s)
  BY <1>1
<1>4. \A k \in 1..(n - m + 1) : s[m + k - 1] \in V
  BY <1>3
<1> QED
  BY <1>2, <1>3, <1>4

\* The first and the last of some positions; 0 if there are none.
LEMMA Positions ==
  ASSUME NEW V, NEW s \in Seq(V), NEW I, I \subseteq 1..Len(s)
  PROVE  (IF I # {} THEN Max(I) ELSE 0) \in 0..Len(s) /\ (IF I # {} THEN Min(I) ELSE 0) \in 0..Len(s)
<1>1. Len(s) \in Nat /\ I \subseteq 0..Len(s) /\ I \subseteq Nat
  OBVIOUS
<1>2. CASE I = {}
  BY <1>1, <1>2
<1>3. CASE I # {}
  <2>1. PICK m \in I : \A k \in I : k <= m
    BY <1>1, <1>3, GreatestNumber
  <2>2. PICK l \in I : \A k \in I : l <= k
    BY <1>1, <1>3, LeastNumber
  <2>3. \A k \in I : m >= k
    BY <1>1, <2>1
  <2>4. Max(I) \in I
    BY <2>1, <2>3 DEF Max
  <2>5. Min(I) \in I
    BY <2>2 DEF Min
  <2> QED
    BY <1>1, <1>3, <2>4, <2>5
<1> QED
  BY <1>2, <1>3
===============================================================================
