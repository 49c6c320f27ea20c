---------------------------- MODULE UnitParseProofs ----------------------------
(***************************************************************************)
(* Proofs about UnitParse, for files of any lines and any length.          *)
(*                                                                         *)
(* parse_ini works on one line at a time, the properties look at the whole *)
(* file.  The invariant says that what the loop has is what the file read  *)
(* so far gives; the lemmas say how that changes with one more line.       *)
(***************************************************************************)
EXTENDS UnitParse, SequenceLemmas

-------------------------------------------------------------------------------
(* split_rs and split_list                                                 *)

Kept(kept, s) ==
  kept = [k \in 0..Len(s) |->
            IF k = 0 THEN <<>>
            ELSE IF s[k] # NoValue THEN Append(kept[k - 1], s[k]) ELSE kept[k - 1]]

\* split_rs, one value at a time.
LEMMA KeptSteps ==
  ASSUME NEW s, NEW kept, Len(s) \in Nat, Kept(kept, s)
  PROVE  /\ kept[0] = <<>>
         /\ \A k \in 1..Len(s) :
              kept[k] = IF s[k] # NoValue THEN Append(kept[k - 1], s[k]) ELSE kept[k - 1]
<1>1. kept[0] = <<>>
  BY DEF Kept
<1>2. ASSUME NEW k \in 1..Len(s)
      PROVE  kept[k] = IF s[k] # NoValue THEN Append(kept[k - 1], s[k]) ELSE kept[k - 1]
  <2>1. k \in 0..Len(s) /\ k # 0
    OBVIOUS
  <2> DEFINE body(j) == IF j = 0 THEN <<>>
                        ELSE IF s[j] # NoValue THEN Append(kept[j - 1], s[j]) ELSE kept[j - 1]
  <2>2. kept = [j \in 0..Len(s) |-> body(j)]
    BY DEF Kept
  <2> HIDE DEF body
  <2>3. kept[k] = body(k)
    BY <2>1, <2>2
  <2> QED
    BY <2>1, <2>3 DEF body
<1> QED
  BY <1>1, <1>2

\* The equation of split_rs has a solution.
LEMMA SplitRsEquation ==
  ASSUME NEW V, NEW s \in Seq(V)
  PROVE  \E kept : /\ Kept(kept, s) /\ split_rs(s) = kept[Len(s)]
                   /\ \A k \in 0..Len(s) : kept[k] \in Seq(V)
<1> DEFINE n == Len(s)
           step == [x \in Seq(V) \X (1..n) |->
                      IF s[x[2]] # NoValue THEN Append(x[1], s[x[2]]) ELSE x[1]]
<1>1. n \in Nat /\ <<>> \in Seq(V) /\ \A k \in 1..n : s[k] \in V
  OBVIOUS
<1>2. split_rs(s) = (CHOOSE f : Kept(f, s))[n]
  BY DEF split_rs, Kept
<1> HIDE DEF n
<1>3. ASSUME NEW x \in Seq(V) \X (1..n)
      PROVE  (IF s[x[2]] # NoValue THEN Append(x[1], s[x[2]]) ELSE x[1]) \in Seq(V)
  <2>1. x[1] \in Seq(V) /\ s[x[2]] \in V
    BY <1>1
  <2> QED
    BY <2>1
<1>4. \A r \in Seq(V) : \A k \in 1..n : step[<<r, k>>] \in Seq(V)
  BY <1>3
<1>5. \A k \in 1..n : \A r \in Seq(V) :
        step[<<r, k>>] = IF s[k] # NoValue THEN Append(r, s[k]) ELSE r
  OBVIOUS
<1> HIDE DEF step
<1> DEFINE W == Seq(V)
           e == <<>>
<1>6. PICK h \in [0..n -> Seq(V)] :
        h[0] = <<>> /\ \A k \in 1..n : h[k] = step[<<h[k - 1], k>>]
  <2>1. n \in Nat /\ e \in W /\ \A r \in W : \A k \in 1..n : step[<<r, k>>] \in W
    BY <1>1, <1>4
  <2> HIDE DEF W, e
  <2>2. \E h : Runs(h, n, W, e, step)
    BY <2>1, Recursion
  <2> QED
    BY <2>2 DEF W, e, Runs
<1>7. ASSUME NEW k \in 0..n
      PROVE  h[k] = IF k = 0 THEN <<>>
                    ELSE IF s[k] # NoValue THEN Append(h[k - 1], s[k]) ELSE h[k - 1]
  <2>1. CASE k = 0
    BY <2>1, <1>6
  <2>2. CASE k # 0
    <3>1. k \in 1..n /\ k - 1 \in 0..n
      BY <2>2, <1>1
    <3>2. h[k - 1] \in Seq(V)
      BY <3>1
    <3> QED
      BY <2>2, <3>1, <3>2, <1>5, <1>6
  <2> QED
    BY <2>1, <2>2
<1>8. h = [k \in 0..n |->
            IF k = 0 THEN <<>>
            ELSE IF s[k] # NoValue THEN Append(h[k - 1], s[k]) ELSE h[k - 1]]
  BY <1>7
<1>9. Kept(h, s)
  BY <1>8 DEF Kept, n
<1>10. PICK f : f = (CHOOSE g0 : Kept(g0, s)) /\ Kept(f, s)
  BY <1>9
<1>11. f[0] = <<>> /\ \A k \in 1..n : f[k - 1] \in Seq(V) => f[k] \in Seq(V)
  <2>1. f[0] = <<>> /\ \A k \in 1..n :
          f[k] = IF s[k] # NoValue THEN Append(f[k - 1], s[k]) ELSE f[k - 1]
    BY <1>1, <1>10, KeptSteps DEF n
  <2>2. ASSUME NEW k \in 1..n, f[k - 1] \in Seq(V)
        PROVE  f[k] \in Seq(V)
    <3>1. s[k] \in V /\ Append(f[k - 1], s[k]) \in Seq(V)
      BY <1>1, <2>2
    <3> QED
      BY <2>1, <2>2, <3>1
  <2> QED
    BY <2>1, <2>2
<1>12. \A k \in 0..n : f[k] \in Seq(V)
  <2>1. f[0] \in Seq(V)
    BY <1>11
  <2> QED
    BY <2>1, <1>1, <1>11, StepsStay
<1> QED
  BY <1>2, <1>10, <1>12 DEF n

\* split_rs drops the empty values, one at a time.
LEMMA SplitRs ==
  ASSUME NEW V, NEW s \in Seq(V), NEW v \in V
  PROVE  /\ split_rs(<<>>) = <<>>
         /\ split_rs(s) \in Seq(V)
         /\ split_rs(Append(s, v)) =
              IF v # NoValue THEN Append(split_rs(s), v) ELSE split_rs(s)
<1> DEFINE t == Append(s, v)
<1>1. <<>> \in Seq(V) /\ Len(<<>>) = 0
  OBVIOUS
<1>2. split_rs(<<>>) = <<>>
  <2>1. PICK e : Kept(e, <<>>) /\ split_rs(<<>>) = e[0]
    BY <1>1, SplitRsEquation
  <2> QED
    BY <2>1, <1>1 DEF Kept
<1>3. PICK f : /\ Kept(f, s) /\ split_rs(s) = f[Len(s)]
               /\ \A k \in 0..Len(s) : f[k] \in Seq(V)
  BY SplitRsEquation
<1>4. /\ t \in Seq(V) /\ Len(s) \in Nat /\ Len(t) = Len(s) + 1
      /\ \A k \in 1..Len(s) : t[k] = s[k]
      /\ t[Len(s) + 1] = v
  BY AppendProperties
<1> HIDE DEF t
<1>5. PICK g : Kept(g, t) /\ split_rs(t) = g[Len(t)]
  BY <1>4, SplitRsEquation
<1>10. f[0] = <<>> /\ \A k \in 1..Len(s) :
         f[k] = IF s[k] # NoValue THEN Append(f[k - 1], s[k]) ELSE f[k - 1]
  BY <1>3, <1>4, KeptSteps
<1>11. g[0] = <<>> /\ \A k \in 1..Len(t) :
         g[k] = IF t[k] # NoValue THEN Append(g[k - 1], t[k]) ELSE g[k - 1]
  BY <1>5, <1>4, KeptSteps
<1>6. \A k \in 0..Len(s) : f[k] = g[k]
  <2>1. f[0] = g[0]
    BY <1>10, <1>11
  <2>2. \A k \in 1..Len(s) : f[k - 1] = g[k - 1] => f[k] = g[k]
    BY <1>4, <1>10, <1>11
  <2> QED
    BY <1>4, <2>1, <2>2, SameSteps, ZenonT(40)
<1>7. g[Len(t)] = IF v # NoValue THEN Append(g[Len(s)], v) ELSE g[Len(s)]
  BY <1>4, <1>11
<1>8. split_rs(t) = IF v # NoValue THEN Append(split_rs(s), v) ELSE split_rs(s)
  BY <1>3, <1>4, <1>5, <1>6, <1>7
<1>9. split_rs(s) \in Seq(V)
  BY <1>3, <1>4
<1> QED
  BY <1>2, <1>8, <1>9 DEF t

\* What is tested is a value without its marks.
LEMMA ValueFields ==
  /\ NoValue \in Value /\ ~Negated(NoValue)
  /\ \A v \in Value : Tested(v) \in Seq(Word) /\ Negated(v) \in BOOLEAN
<1>1. NoValue \in Value /\ ~Negated(NoValue)
  BY DEF NoValue, Value, Negated, WithoutBar
<1>2. ASSUME NEW v \in Value
      PROVE  Tested(v) \in Seq(Word) /\ Negated(v) \in BOOLEAN
  <2>1. v \in Seq(Word)
    BY DEF Value
  <2>2. WithoutBar(v) \in Seq(Word)
    BY <2>1 DEF WithoutBar
  <2>3. Negated(v) => Tail(WithoutBar(v)) \in Seq(Word)
    BY <2>2 DEF Negated
  <2> QED
    BY <2>2, <2>3 DEF Tested, Negated
<1> QED
  BY <1>1, <1>2

\* A list has the same words whether its empty values are dropped or not.
LEMMA SplitKeepsWords ==
  ASSUME NEW s \in Seq(Value)
  PROVE  FlattenSeq(split_rs(s)) = FlattenSeq(s)
<1> DEFINE Same(t) == FlattenSeq(split_rs(t)) = FlattenSeq(t)
           S == { t \in Seq(Value) : Same(t) }
<1>1. <<>> \in S
  <2>1. split_rs(<<>>) = <<>>
    BY SplitRs, ValueFields
  <2> QED
    BY <2>1
<1>2. ASSUME NEW t \in Seq(Value), t \in S, NEW v \in Value
      PROVE  Append(t, v) \in S
  <2>1. FlattenSeq(split_rs(t)) = FlattenSeq(t)
    BY <1>2
  <2>2. v \in Seq(Word) /\ t \in Seq(Seq(Word))
    BY DEF Value
  <2>3. FlattenSeq(Append(t, v)) = FlattenSeq(t) \o v
    BY <2>2, Flatten
  <2>4. FlattenSeq(t) \in Seq(Word)
    BY <2>2, Flatten
  <2>5. split_rs(t) \in Seq(Seq(Word))
    <3>1. split_rs(t) \in Seq(Value)
      BY SplitRs, ValueFields
    <3> QED
      BY <3>1 DEF Value
  <2>6. CASE v = NoValue
    <3>1. split_rs(Append(t, v)) = split_rs(t)
      BY <2>6, SplitRs
    <3>2. FlattenSeq(t) \o v = FlattenSeq(t)
      BY <2>4, <2>6, ConcatProperties DEF NoValue
    <3>3. Same(Append(t, v))
      BY <2>1, <2>3, <3>1, <3>2
    <3> HIDE DEF Same
    <3> QED
      BY <3>3, AppendProperties
  <2>7. CASE v # NoValue
    <3>1. split_rs(Append(t, v)) = Append(split_rs(t), v)
      BY <2>7, SplitRs
    <3>2. FlattenSeq(Append(split_rs(t), v)) = FlattenSeq(split_rs(t)) \o v
      BY <2>2, <2>5, Flatten
    <3>3. Same(Append(t, v))
      BY <2>1, <2>3, <3>1, <3>2
    <3> HIDE DEF Same
    <3> QED
      BY <3>3, AppendProperties
  <2> QED
    BY <2>6, <2>7
<1> HIDE DEF S
<1>3. s \in S
  BY <1>1, <1>2, SequenceInduction
<1> QED
  BY <1>3 DEF S

\* What parse_ini joins, split_rs takes apart.
LEMMA SplitJoined ==
  ASSUME NEW s \in Seq(Value), NEW v \in Value
  PROVE  /\ Joined(s, v) \in Seq(Value)
         /\ split_rs(Joined(s, v)) = IF v # NoValue THEN Append(split_rs(s), v)
                                     ELSE split_rs(s)
<1>1. CASE s # <<>>
  <2>1. Joined(s, v) = Append(s, v)
    BY <1>1 DEF Joined
  <2> QED
    BY <2>1, SplitRs, AppendProperties
<1>2. CASE s = <<>>
  <2>1. <<v>> = Append(s, v)
    BY <1>2
  <2>2. Joined(s, v) = IF v # NoValue THEN Append(s, v) ELSE s
    BY <1>2, <2>1 DEF Joined
  <2>3. CASE v = NoValue
    <3>1. Joined(s, v) = s
      BY <2>2, <2>3
    <3> QED
      BY <3>1, <2>3
  <2>4. CASE v # NoValue
    <3>1. Joined(s, v) = Append(s, v)
      BY <2>2, <2>4
    <3> QED
      BY <3>1, SplitRs, AppendProperties
  <2> QED
    BY <2>3, <2>4
<1> QED
  BY <1>1, <1>2

-------------------------------------------------------------------------------
(* Lines and the lines they continue                                       *)

\* The fields of a line.
LEMMA LineFields ==
  ASSUME NEW l \in Line
  PROVE  /\ l.raw \in Seq(Word) /\ l.cont \in BOOLEAN
         /\ l.kind \in {"section", "entry", "comment", "text"}
         /\ l.cont => l.kind \in {"entry", "comment"}
         /\ l.kind = "section" => l.name \in Sections
         /\ l.kind = "entry" =>
              l \in [kind : {"entry"}, cont : BOOLEAN, raw : Seq(Word), key : Keys, val : Value]
BY LineAssumption

\* The lines from k to e are one, as EndOf chooses e.
IsEnd(f, k, e) ==
  /\ e \in k..Len(f)
  /\ \A j \in k..(e - 1) : f[j].cont
  /\ e = Len(f) \/ ~f[e].cont

\* EndOf is the end: the first line without a backslash, or the last line.
LEMMA EndIs ==
  ASSUME NEW f \in Seq(Line), NEW k \in 1..Len(f), NEW e, IsEnd(f, k, e)
  PROVE  EndOf(f, k) = e
<1>1. Len(f) \in Nat /\ e \in k..Len(f) /\ e \in Nat /\ k \in Nat
  BY DEF IsEnd
<1>2. ASSUME NEW d \in k..Len(f), IsEnd(f, k, d)
      PROVE  d = e
  <2>1. d \in Nat
    BY <1>1
  <2>2. ~(d < e)
    <3>1. SUFFICES ASSUME d < e PROVE FALSE
      OBVIOUS
    <3>2. d \in k..(e - 1) /\ d # Len(f)
      BY <3>1, <1>1, <2>1
    <3> QED
      BY <3>2, <1>2 DEF IsEnd
  <2>3. ~(e < d)
    <3>1. SUFFICES ASSUME e < d PROVE FALSE
      OBVIOUS
    <3>2. e \in k..(d - 1) /\ e # Len(f)
      BY <3>1, <1>1, <2>1
    <3> QED
      BY <3>2, <1>2 DEF IsEnd
  <2> QED
    BY <1>1, <2>1, <2>2, <2>3
<1>3. EndOf(f, k) = CHOOSE d \in k..Len(f) : IsEnd(f, k, d)
  <2>1. \A d \in k..Len(f) :
          IsEnd(f, k, d) <=> ((\A j \in k..(d - 1) : f[j].cont) /\ (d = Len(f) \/ ~f[d].cont))
    BY DEF IsEnd
  <2> QED
    BY <2>1 DEF EndOf
<1>4. \E d \in k..Len(f) : IsEnd(f, k, d)
  BY <1>1
<1>5. EndOf(f, k) \in k..Len(f) /\ IsEnd(f, k, EndOf(f, k))
  BY <1>3, <1>4
<1> QED
  BY <1>2, <1>5

\* Every logical line has an end, if only the last line of the file.
LEMMA EndExists ==
  ASSUME NEW f \in Seq(Line), NEW k \in 1..Len(f)
  PROVE  \E e : IsEnd(f, k, e)
<1> DEFINE T == { e \in Nat : e \in k..Len(f) /\ (e = Len(f) \/ ~f[e].cont) }
<1>1. Len(f) \in Nat /\ k \in Nat
  OBVIOUS
<1>2. T \subseteq Nat /\ Len(f) \in T
  BY <1>1
<1>3. PICK e \in T : \A d \in T : e <= d
  <2> HIDE DEF T
  <2> QED
    BY <1>2, LeastNumber
<1>4. ASSUME NEW j \in k..(e - 1)
      PROVE  f[j].cont
  <2>1. j \in Nat /\ j < e /\ j \in k..Len(f)
    BY <1>1, <1>3
  <2>2. j \notin T
    BY <2>1, <1>2, <1>3
  <2> QED
    BY <2>1, <2>2
<1>5. IsEnd(f, k, e)
  BY <1>3, <1>4 DEF IsEnd
<1> QED
  BY <1>5

\* The text that lines k + 1 to e add to line k.
Rest(f, k, e) == [j \in 1..(e - k) |-> f[k + j].raw]

\* The words of the lines that continue one.
LEMMA RestProperties ==
  ASSUME NEW f \in Seq(Line), NEW k \in 1..Len(f), NEW e \in k..Len(f)
  PROVE  /\ Rest(f, k, k) = <<>> /\ Rest(f, k, e) \in Seq(Seq(Word))
         /\ FlattenSeq(Rest(f, k, e)) \in Seq(Word)
<1>1. Len(f) \in Nat /\ k \in Nat /\ e \in Nat /\ e - k \in Nat
  OBVIOUS
<1>2. Rest(f, k, k) = <<>>
  <2>1. 1..(k - k) = {}
    BY <1>1
  <2> QED
    BY <2>1 DEF Rest
<1> DEFINE n == e - k
           raw(j) == f[k + j].raw
           W == Seq(Word)
<1>3. ASSUME NEW j \in 1..n
      PROVE  raw(j) \in W
  <2>1. k + j \in 1..Len(f)
    BY <1>1
  <2>2. f[k + j] \in Line
    BY <2>1
  <2> QED
    BY <2>2, LineFields
<1>4. Rest(f, k, e) = [j \in 1..n |-> raw(j)]
  BY DEF Rest
<1>5. n \in Nat
  BY <1>1
<1> HIDE DEF n, raw, W
<1>6. [j \in 1..n |-> raw(j)] \in Seq(W)
  BY <1>3, <1>5
<1>7. Rest(f, k, e) \in Seq(Seq(Word))
  BY <1>4, <1>6 DEF W
<1>8. <<>> \in Seq(Word)
  OBVIOUS
<1> QED
  BY <1>2, <1>7, <1>8, Flatten

\* The value of a logical line, by its equation.
LEMMA ValueOfIs ==
  ASSUME NEW f \in Seq(Line), NEW k \in 1..Len(f), NEW e, IsEnd(f, k, e)
  PROVE  ValueOf(f, k) = f[k].val \o FlattenSeq(Rest(f, k, e))
<1>1. EndOf(f, k) = e
  BY EndIs
<1> QED
  BY <1>1 DEF ValueOf, Rest

\* It is a value.
LEMMA ValueOfType ==
  ASSUME NEW f \in Seq(Line), NEW k \in 1..Len(f), f[k].kind = "entry"
  PROVE  ValueOf(f, k) \in Value
<1>1. PICK e : IsEnd(f, k, e)
  BY EndExists
<1>2. e \in k..Len(f)
  BY <1>1 DEF IsEnd
<1>3. FlattenSeq(Rest(f, k, e)) \in Seq(Word)
  BY <1>2, RestProperties
<1>4. ValueOf(f, k) = f[k].val \o FlattenSeq(Rest(f, k, e))
  BY <1>1, ValueOfIs
<1>5. f[k] \in Line
  OBVIOUS
<1>6. f[k].val \in Seq(Word)
  BY <1>5, LineFields DEF Value
<1>7. f[k].val \o FlattenSeq(Rest(f, k, e)) \in Seq(Word)
  BY <1>3, <1>6, ConcatProperties
<1> QED
  BY <1>4, <1>7 DEF Value

\* The line that starts at k, after those that continue it.
Logical(f, k) == IF f[k].kind = "entry" THEN [f[k] EXCEPT !.val = ValueOf(f, k)] ELSE f[k]

\* Lines after m are continued.
OpenFrom(f, m) == m \in 0..Len(f) /\ \A j \in (m + 1)..Len(f) : f[j].cont

\* What a line alone says.
LEMMA SingleLine ==
  ASSUME NEW f \in Seq(Line), NEW l \in Line
  PROVE  Logical(Append(f, l), Len(f) + 1) = l
<1> DEFINE g == Append(f, l)
           k == Len(f) + 1
<1>1. g \in Seq(Line) /\ Len(g) = k /\ k \in 1..Len(g) /\ g[k] = l /\ k \in Nat
  BY AppendProperties
<1> HIDE DEF g, k
<1>2. IsEnd(g, k, k)
  BY <1>1 DEF IsEnd
<1>3. CASE l.kind = "entry"
  <2>1. l \in [kind : {"entry"}, cont : BOOLEAN, raw : Seq(Word), key : Keys, val : Value]
    BY <1>3, LineFields
  <2>2. l.val \in Seq(Word)
    BY <2>1 DEF Value
  <2>4. k \in k..Len(g)
    BY <1>1
  <2>5. Rest(g, k, k) = <<>>
    BY <1>1, <2>4, RestProperties
  <2>6. FlattenSeq(Rest(g, k, k)) = <<>>
    BY <2>5 DEF FlattenSeq
  <2>7. l.val \o FlattenSeq(Rest(g, k, k)) = l.val
    BY <2>2, <2>6, ConcatProperties
  <2>8. ValueOf(g, k) = g[k].val \o FlattenSeq(Rest(g, k, k))
    BY <1>1, <1>2, ValueOfIs, ZenonT(40)
  <2>9. ValueOf(g, k) = l.val
    BY <1>1, <2>7, <2>8
  <2>10. [l EXCEPT !.val = l.val] = l
    BY <2>1
  <2> QED
    BY <1>1, <1>3, <2>9, <2>10 DEF Logical, g, k
<1>4. CASE l.kind # "entry"
  BY <1>1, <1>4 DEF Logical, g, k
<1> QED
  BY <1>3, <1>4

\* Rest grows with the file.
LEMMA RestGrows ==
  ASSUME NEW f \in Seq(Line), NEW l \in Line, NEW k \in 1..Len(f)
  PROVE  Rest(Append(f, l), k, Len(f) + 1) = Append(Rest(f, k, Len(f)), l.raw)
<1> DEFINE g == Append(f, l)
           n == Len(f) - k
           W == Seq(Word)
           a == Rest(f, k, Len(f))
           b == Rest(g, k, Len(f) + 1)
<1>1. /\ g \in Seq(Line) /\ Len(g) = Len(f) + 1 /\ Len(f) \in Nat
      /\ k \in 1..Len(g) /\ Len(g) \in k..Len(g) /\ Len(f) \in k..Len(f)
      /\ n \in Nat /\ g[Len(f) + 1] = l
      /\ \A j \in 1..Len(f) : g[j] = f[j]
  BY AppendProperties
<1>2. a \in Seq(W) /\ b \in Seq(W)
  BY <1>1, RestProperties
<1>3. l.raw \in W
  BY LineFields
<1>4. Len(a) = n /\ \A j \in 1..n : a[j] = f[k + j].raw
  BY <1>1 DEF Rest
<1>5. Len(b) = n + 1 /\ \A j \in 1..(n + 1) : b[j] = g[k + j].raw
  <2>1. (Len(f) + 1) - k = n + 1
    BY <1>1
  <2>2. b = [j \in 1..(n + 1) |-> g[k + j].raw]
    BY <2>1 DEF Rest
  <2>3. n + 1 \in Nat
    BY <1>1
  <2> HIDE DEF n, b, g
  <2> QED
    BY <2>2, <2>3
<1>6. \A j \in 1..n : g[k + j] = f[k + j]
  <2>1. \A j \in 1..n : k + j \in 1..Len(f)
    BY <1>1
  <2> HIDE DEF g
  <2> QED
    BY <2>1, <1>1
<1>7. g[k + (n + 1)] = l
  <2>1. k + (n + 1) = Len(f) + 1
    BY <1>1
  <2> QED
    BY <2>1, <1>1
<1> DEFINE c == Append(a, l.raw)
<1>8. /\ c \in Seq(W) /\ Len(c) = n + 1 /\ c[n + 1] = l.raw
      /\ \A j \in 1..n : c[j] = a[j]
  <2> HIDE DEF a, W
  <2> QED
    BY <1>2, <1>3, <1>4, AppendProperties
<1> HIDE DEF c, a, b, g, n, W
<1>9. ASSUME NEW j \in 1..(n + 1)
      PROVE  b[j] = c[j]
  <2>1. CASE j \in 1..n
    BY <2>1, <1>4, <1>5, <1>6, <1>8
  <2>2. CASE j = n + 1
    BY <2>2, <1>5, <1>7, <1>8
  <2> QED
    BY <2>1, <2>2, <1>1
<1>10. b = c
  BY <1>2, <1>5, <1>8, <1>9
<1> QED
  BY <1>10 DEF a, b, c, g

\* A line that is continued once more.
LEMMA OneLineMore ==
  ASSUME NEW f \in Seq(Line), NEW l \in Line, NEW k \in 1..Len(f), f[k].kind = "entry",
         OpenFrom(f, k - 1)
  PROVE  ValueOf(Append(f, l), k) = ValueOf(f, k) \o l.raw
<1> DEFINE g == Append(f, l)
           a == FlattenSeq(Rest(f, k, Len(f)))
           b == FlattenSeq(Rest(g, k, Len(g)))
           w == f[k].val
<1>1. /\ g \in Seq(Line) /\ Len(g) = Len(f) + 1 /\ Len(f) \in Nat
      /\ k \in 1..Len(g) /\ Len(f) \in k..Len(f) /\ g[k] = f[k] /\ k \in Nat
      /\ \A j \in 1..Len(f) : g[j] = f[j]
  BY AppendProperties
<1>2. \A j \in k..Len(f) : f[j].cont /\ g[j].cont
  BY <1>1 DEF OpenFrom
<1>3. IsEnd(f, k, Len(f)) /\ IsEnd(g, k, Len(g))
  <2> HIDE DEF g
  <2> QED
    BY <1>1, <1>2 DEF IsEnd
<1>4. w \in Seq(Word)
  <2>1. f[k] \in Line
    OBVIOUS
  <2> QED
    BY <2>1, LineFields DEF Value
<1>5. l.raw \in Seq(Word)
  BY LineFields
<1>6. Rest(f, k, Len(f)) \in Seq(Seq(Word)) /\ a \in Seq(Word)
  BY <1>1, RestProperties
<1>7. b = a \o l.raw
  <2>1. Rest(g, k, Len(g)) = Append(Rest(f, k, Len(f)), l.raw)
    BY <1>1, RestGrows
  <2> QED
    BY <2>1, <1>5, <1>6, Flatten
<1>8. ValueOf(f, k) = w \o a
  BY <1>3, ValueOfIs
<1>9. ValueOf(g, k) = w \o b
  <2>1. ValueOf(g, k) = g[k].val \o b
    <3> HIDE DEF g
    <3> QED
      BY <1>1, <1>3, ValueOfIs
  <2> QED
    BY <2>1, <1>1
<1>10. w \o b = (w \o a) \o l.raw
  <2> DEFINE c == l.raw
  <2>1. w \in Seq(Word) /\ a \in Seq(Word) /\ c \in Seq(Word) /\ b = a \o c
    BY <1>4, <1>5, <1>6, <1>7
  <2> HIDE DEF a, b, c, w
  <2>2. (w \o a) \o c = w \o (a \o c)
    BY <2>1, ConcatAssociative, SMTT(60)
  <2> QED
    BY <2>1, <2>2 DEF c
<1> HIDE DEF g, a, b, w
<1> QED
  BY <1>8, <1>9, <1>10 DEF g

\* Continued makes of the lines so far and a new one what the file with the
\* new one says.
LEMMA ContinuedIs ==
  ASSUME NEW f \in Seq(Line), NEW l \in Line, NEW m, OpenFrom(f, m),
         accumulated = IF m = Len(f) THEN NoLine ELSE Logical(f, m + 1)
  PROVE  Continued(l) = Logical(Append(f, l), m + 1)
<1> DEFINE g == Append(f, l)
           k == m + 1
<1>1. m \in Nat /\ Len(f) \in Nat /\ m <= Len(f)
  BY DEF OpenFrom
<1>2. CASE m = Len(f)
  <2>1. Continued(l) = l
    BY <1>2 DEF Continued, NoLine
  <2> QED
    BY <2>1, <1>2, SingleLine
<1>3. CASE m # Len(f)
  <2>1. k \in 1..Len(f) /\ k \in (m + 1)..Len(f) /\ k - 1 = m
    BY <1>1, <1>3
  <2>2. f[k] \in Line /\ f[k].cont /\ g[k] = f[k] /\ OpenFrom(f, k - 1)
    BY <2>1, AppendProperties DEF OpenFrom
  <2>3. f[k].kind \in {"entry", "comment"}
    BY <2>2, LineFields
  <2>4. accumulated = Logical(f, k)
    BY <1>3
  <2> HIDE DEF g, k
  <2>5. CASE f[k].kind = "comment"
    <3>1. accumulated = f[k]
      BY <2>4, <2>5 DEF Logical
    <3>2. Continued(l) = f[k]
      BY <3>1, <2>5 DEF Continued
    <3> QED
      BY <3>2, <2>2, <2>5 DEF Logical, g, k
  <2>6. CASE f[k].kind = "entry"
    <3> DEFINE v == ValueOf(f, k)
               w == ValueOf(g, k)
    <3>1. accumulated = [f[k] EXCEPT !.val = v]
      BY <2>4, <2>6 DEF Logical
    <3>2. f[k] \in [kind : {"entry"}, cont : BOOLEAN, raw : Seq(Word), key : Keys, val : Value]
      BY <2>2, <2>6, LineFields
    <3>3. v \in Value
      BY <2>1, <2>6, ValueOfType
    <3>4. w = v \o l.raw
      BY <2>1, <2>2, <2>6, OneLineMore DEF g
    <3> HIDE DEF v, w
    <3>5. accumulated.kind = "entry" /\ accumulated.val = v
      BY <3>1, <3>2
    <3>6. Continued(l) = [accumulated EXCEPT !.val = @ \o l.raw]
      BY <3>5 DEF Continued
    <3>7. Continued(l) = [accumulated EXCEPT !.val = w]
      BY <3>6, <3>5, <3>4
    <3>8. Continued(l) = [f[k] EXCEPT !.val = w]
      BY <3>7, <3>1, <3>2
    <3> QED
      BY <3>8, <2>2, <2>6 DEF Logical, w, g, k
  <2> QED
    BY <2>3, <2>5, <2>6
<1> QED
  BY <1>2, <1>3

\* What a line gives stays as the file grows, once the line is complete.
LEMMA ValueStable ==
  ASSUME NEW f \in Seq(Line), NEW l \in Line, NEW m \in 1..Len(f), ~f[m].cont,
         NEW k \in 1..m
  PROVE  ValueOf(Append(f, l), k) = ValueOf(f, k)
<1> DEFINE g == Append(f, l)
<1>1. /\ g \in Seq(Line) /\ Len(g) = Len(f) + 1 /\ Len(f) \in Nat /\ m \in Nat /\ k \in Nat
      /\ k \in 1..Len(f) /\ k \in 1..Len(g)
      /\ \A j \in 1..Len(f) : g[j] = f[j]
  BY AppendProperties
<1> HIDE DEF g
<1>2. PICK e : IsEnd(f, k, e)
  BY <1>1, EndExists
<1>3. e \in k..Len(f) /\ e \in Nat
  BY <1>1, <1>2 DEF IsEnd
<1>4. e <= m
  <2>1. SUFFICES ASSUME m < e PROVE FALSE
    BY <1>1, <1>3
  <2>2. m \in k..(e - 1)
    BY <2>1, <1>1, <1>3
  <2> QED
    BY <2>2, <1>2 DEF IsEnd
<1>5. ~f[e].cont
  BY <1>1, <1>2, <1>3, <1>4 DEF IsEnd
<1>6. IsEnd(g, k, e)
  <2>1. \A j \in k..(e - 1) : f[j].cont /\ g[j] = f[j]
    BY <1>1, <1>2, <1>3 DEF IsEnd
  <2>2. e \in k..Len(g) /\ g[e] = f[e]
    BY <1>1, <1>3
  <2> QED
    BY <2>1, <2>2, <1>5 DEF IsEnd
<1>7. Rest(g, k, e) = Rest(f, k, e)
  <2>1. \A j \in 1..(e - k) : g[k + j] = f[k + j]
    BY <1>1, <1>3
  <2> QED
    BY <2>1 DEF Rest
<1>8. ValueOf(f, k) = f[k].val \o FlattenSeq(Rest(f, k, e))
  BY <1>1, <1>2, ValueOfIs
<1>9. ValueOf(g, k) = g[k].val \o FlattenSeq(Rest(g, k, e))
  BY <1>1, <1>6, ValueOfIs
<1>10. g[k] = f[k]
  BY <1>1
<1> QED
  BY <1>7, <1>8, <1>9, <1>10 DEF g

-------------------------------------------------------------------------------
(* Sections                                                                *)

Heads(f, k) == { j \in Starts(f) : j < k /\ f[j].kind = "section" }

\* The section of a line is that of the last header before it.
LEMMA SectionIs ==
  ASSUME NEW f \in Seq(Line), NEW k
  PROVE  /\ Heads(f, k) = {} => SectionOf(f, k) = ""
         /\ \A j \in Heads(f, k) :
              (\A h \in Heads(f, k) : h <= j) => SectionOf(f, k) = f[j].name
<1>1. Heads(f, k) = {} => SectionOf(f, k) = ""
  BY DEF SectionOf, Heads
<1>2. ASSUME NEW j \in Heads(f, k), \A h \in Heads(f, k) : h <= j
      PROVE  SectionOf(f, k) = f[j].name
  <2> DEFINE H == Heads(f, k)
             i == CHOOSE i \in H : \A h \in H : h <= i
  <2>1. SectionOf(f, k) = f[i].name
    BY <1>2 DEF SectionOf, Heads
  <2>2. H \subseteq Nat
    BY DEF Heads, Starts
  <2>3. i \in H /\ \A h \in H : h <= i
    BY <1>2
  <2> HIDE DEF H, i
  <2>4. j \in H /\ \A h \in H : h <= j
    BY <1>2 DEF H
  <2>5. i <= j /\ j <= i /\ i \in Nat /\ j \in Nat
    BY <2>2, <2>3, <2>4
  <2>6. i = j
    BY <2>5
  <2> QED
    BY <2>1, <2>6
<1> QED
  BY <1>1, <1>2

\* There is a last section, if there is any.
LEMMA LastHead ==
  ASSUME NEW f \in Seq(Line), NEW k, Heads(f, k) # {}
  PROVE  \E j \in Heads(f, k) : \A h \in Heads(f, k) : h <= j
<1> DEFINE H == Heads(f, k)
<1>1. H \subseteq 0..Len(f) /\ H # {} /\ Len(f) \in Nat
  BY DEF Heads, Starts
<1> HIDE DEF H
<1>2. \E j \in H : \A h \in H : h <= j
  BY <1>1, GreatestNumber
<1> QED
  BY <1>2 DEF H

\* It is a section.
LEMMA SectionType ==
  ASSUME NEW f \in Seq(Line), NEW k
  PROVE  SectionOf(f, k) \in Sections
<1>1. CASE Heads(f, k) = {}
  BY <1>1, SectionIs DEF Sections
<1>2. CASE Heads(f, k) # {}
  <2>1. PICK j \in Heads(f, k) : \A h \in Heads(f, k) : h <= j
    BY <1>2, LastHead
  <2>2. f[j] \in Line /\ f[j].kind = "section"
    BY DEF Heads, Starts
  <2>3. SectionOf(f, k) = f[j].name
    BY <2>1, SectionIs
  <2> QED
    BY <2>2, <2>3, LineFields
<1> QED
  BY <1>1, <1>2

\* Starts and sections of the lines so far stay as the file grows.
LEMMA SectionStable ==
  ASSUME NEW f \in Seq(Line), NEW l \in Line, NEW k \in 1..(Len(f) + 1)
  PROVE  /\ k \in 1..Len(f) => (k \in Starts(Append(f, l)) <=> k \in Starts(f))
         /\ SectionOf(Append(f, l), k) = SectionOf(f, k)
<1> DEFINE g == Append(f, l)
<1>1. /\ g \in Seq(Line) /\ Len(g) = Len(f) + 1 /\ Len(f) \in Nat /\ k \in Nat
      /\ \A j \in 1..Len(f) : g[j] = f[j]
  BY AppendProperties
<1> HIDE DEF g
<1>2. ASSUME NEW j \in 1..Len(f)
      PROVE  j \in Starts(g) <=> j \in Starts(f)
  <2>1. j \in 1..Len(g) /\ (j # 1 => j - 1 \in 1..Len(f))
    BY <1>1
  <2>2. j # 1 => g[j - 1] = f[j - 1]
    BY <2>1, <1>1
  <2> QED
    BY <2>1, <2>2 DEF Starts
<1>3. Heads(g, k) = Heads(f, k)
  <2>1. \A j \in Starts(f) : j \in 1..Len(f)
    BY DEF Starts
  <2>2. \A j \in Starts(g) : j < k => j \in 1..Len(f)
    BY <1>1 DEF Starts
  <2> QED
    BY <1>1, <1>2, <2>1, <2>2 DEF Heads
<1>4. SectionOf(g, k) = SectionOf(f, k)
  <2>1. CASE Heads(f, k) = {}
    BY <1>1, <1>3, <2>1, SectionIs
  <2>2. CASE Heads(f, k) # {}
    <3>1. PICK j \in Heads(f, k) : \A h \in Heads(f, k) : h <= j
      BY <2>2, LastHead
    <3>2. SectionOf(f, k) = f[j].name
      BY <3>1, SectionIs
    <3>3. SectionOf(g, k) = g[j].name
      BY <3>1, <1>1, <1>3, SectionIs
    <3>4. g[j] = f[j]
      BY <1>1 DEF Heads, Starts
    <3> QED
      BY <3>2, <3>3, <3>4
  <2> QED
    BY <2>1, <2>2
<1> QED
  BY <1>2, <1>4 DEF g

\* The section after a line and those that continue it.
LEMMA SectionNext ==
  ASSUME NEW f \in Seq(Line), NEW k \in Starts(f), NEW e \in k..Len(f),
         \A j \in k..(e - 1) : f[j].cont
  PROVE  SectionOf(f, e + 1) = IF f[k].kind = "section" THEN f[k].name ELSE SectionOf(f, k)
<1>1. Len(f) \in Nat /\ k \in 1..Len(f) /\ k \in Nat /\ e \in Nat
  BY DEF Starts
<1>2. ASSUME NEW j \in Starts(f), j > k, j < e + 1
      PROVE  FALSE
  <2>1. j - 1 \in k..(e - 1) /\ j # 1
    BY <1>1, <1>2 DEF Starts
  <2>2. f[j - 1].cont
    BY <2>1
  <2> QED
    BY <2>1, <2>2 DEF Starts
<1>3. \A j \in Starts(f) : j \in Nat /\ (j < e + 1 <=> j <= k)
  <2>1. \A j \in Starts(f) : j \in Nat
    BY DEF Starts
  <2> QED
    BY <1>1, <1>2, <2>1
<1>4. CASE f[k].kind = "section"
  <2>1. k \in Heads(f, e + 1) /\ \A h \in Heads(f, e + 1) : h <= k
    BY <1>1, <1>3, <1>4 DEF Heads
  <2> QED
    BY <1>4, <2>1, SectionIs
<1>5. CASE f[k].kind # "section"
  <2>1. Heads(f, e + 1) = Heads(f, k)
    <3>1. ASSUME NEW j \in Starts(f), f[j].kind = "section"
          PROVE  j < e + 1 <=> j < k
      BY <3>1, <1>1, <1>3, <1>5
    <3> QED
      BY <3>1 DEF Heads
  <2>2. CASE Heads(f, k) = {}
    BY <1>5, <2>1, <2>2, SectionIs
  <2>3. CASE Heads(f, k) # {}
    <3>1. PICK j \in Heads(f, k) : \A h \in Heads(f, k) : h <= j
      BY <2>3, LastHead
    <3> QED
      BY <1>5, <2>1, <3>1, SectionIs
  <2> QED
    BY <2>2, <2>3
<1> QED
  BY <1>4, <1>5

-------------------------------------------------------------------------------
(* The values that a file gives a key                                      *)

IsGiven(given, f, section, key) ==
  given = [n \in 0..Len(f) |->
             IF n = 0 THEN <<>>
             ELSE IF Gives(f, section, key, n) THEN Append(given[n - 1], ValueOf(f, n))
             ELSE given[n - 1]]

\* What a line gives is a value.
LEMMA GivesValue ==
  ASSUME NEW f \in Seq(Line), NEW section, NEW key, NEW k, Gives(f, section, key, k)
  PROVE  ValueOf(f, k) \in Value
BY ValueOfType DEF Gives, Starts

\* GivenBy goes through the file line by line.
LEMMA GivenSteps ==
  ASSUME NEW f \in Seq(Line), NEW section, NEW key
  PROVE  LET G == GivenBy(f, section, key)
         IN /\ G[0] = <<>>
            /\ \A k \in 1..Len(f) :
                 G[k] = IF Gives(f, section, key, k) THEN Append(G[k - 1], ValueOf(f, k))
                        ELSE G[k - 1]
            /\ \A k \in 0..Len(f) : G[k] \in Seq(Value)
<1> DEFINE n == Len(f)
           W == Seq(Value)
           e == <<>>
           Hit(k) == Gives(f, section, key, k)
           step == [x \in W \X (1..n) |-> IF Hit(x[2]) THEN Append(x[1], ValueOf(f, x[2])) ELSE x[1]]
           G == GivenBy(f, section, key)
<1>1. n \in Nat /\ e \in W
  OBVIOUS
<1>2. \A k : Hit(k) => ValueOf(f, k) \in Value
  BY GivesValue
<1>3. \A r \in W : \A k : Hit(k) => Append(r, ValueOf(f, k)) \in W
  BY <1>2
<1>4. G = CHOOSE h : IsGiven(h, f, section, key)
  BY DEF GivenBy, IsGiven
<1> HIDE DEF n, W, e, Hit, G
<1>5. \A r \in W : \A k \in 1..n :
        step[<<r, k>>] = IF Hit(k) THEN Append(r, ValueOf(f, k)) ELSE r
  OBVIOUS
<1> HIDE DEF step
<1>6. \A r \in W : \A k \in 1..n : step[<<r, k>>] \in W
  BY <1>3, <1>5
<1>7. \E h : Runs(h, n, W, e, step)
  BY <1>1, <1>6, Recursion
<1>8. PICK h : /\ h \in [0..n -> W] /\ h[0] = e
               /\ \A k \in 1..n : h[k] = step[<<h[k - 1], k>>]
  BY <1>7 DEF Runs
<1>9. ASSUME NEW k \in 0..n
      PROVE  h[k] = IF k = 0 THEN e
                    ELSE IF Hit(k) THEN Append(h[k - 1], ValueOf(f, k)) ELSE h[k - 1]
  <2>1. CASE k = 0
    BY <2>1, <1>8
  <2>2. CASE k # 0
    <3>1. k \in 1..n /\ k - 1 \in 0..n
      BY <2>2, <1>1
    <3>2. h[k - 1] \in W
      BY <3>1, <1>8
    <3> QED
      BY <2>2, <3>1, <3>2, <1>5, <1>8
  <2> QED
    BY <2>1, <2>2
<1>10. h = [k \in 0..n |-> IF k = 0 THEN e
                           ELSE IF Hit(k) THEN Append(h[k - 1], ValueOf(f, k)) ELSE h[k - 1]]
  BY <1>8, <1>9
<1>11. IsGiven(h, f, section, key)
  BY <1>10 DEF IsGiven, n, e, Hit
<1>12. IsGiven(G, f, section, key)
  BY <1>4, <1>11
<1> DEFINE body(k) == IF k = 0 THEN e
                      ELSE IF Hit(k) THEN Append(G[k - 1], ValueOf(f, k)) ELSE G[k - 1]
<1>13. G = [k \in 0..n |-> body(k)]
  BY <1>12 DEF IsGiven, n, e, Hit
<1>14. ASSUME NEW k \in 0..n
       PROVE  G[k] = body(k)
  <2> HIDE DEF body
  <2> QED
    BY <1>13
<1>15. G[0] = e
  BY <1>1, <1>14
<1>16. \A k \in 1..n : G[k] = IF Hit(k) THEN Append(G[k - 1], ValueOf(f, k)) ELSE G[k - 1]
  <2>1. \A k \in 1..n : k \in 0..n /\ k # 0
    BY <1>1
  <2> QED
    BY <1>14, <2>1
<1>17. \A k \in 1..n : G[k - 1] \in W => G[k] \in W
  BY <1>3, <1>16
<1>18. \A k \in 0..n : G[k] \in W
  BY <1>1, <1>15, <1>17, StepsStay
<1> QED
  BY <1>15, <1>16, <1>18 DEF G, n, e, W, Hit

\* Before its first line a file gives a key nothing.
LEMMA GivenStart ==
  ASSUME NEW f \in Seq(Line), NEW section, NEW key
  PROVE  GivenBy(f, section, key)[0] = <<>>
BY GivenSteps, SMTT(60)

\* The first m lines are complete.
Complete(f, m) == m \in 0..Len(f) /\ (m = 0 \/ ~f[m].cont)

\* What complete lines give stays as the file grows.
LEMMA GivenStable ==
  ASSUME NEW f \in Seq(Line), NEW l \in Line, NEW section, NEW key,
         NEW m, Complete(f, m)
  PROVE  GivenBy(Append(f, l), section, key)[m] = GivenBy(f, section, key)[m]
<1> DEFINE g == Append(f, l)
           F == GivenBy(f, section, key)
           G == GivenBy(g, section, key)
<1>1. /\ g \in Seq(Line) /\ Len(g) = Len(f) + 1 /\ Len(f) \in Nat /\ m \in Nat
      /\ \A j \in 1..Len(f) : g[j] = f[j]
  BY AppendProperties DEF Complete
<1> HIDE DEF g
<1>2. /\ F[0] = <<>>
      /\ \A k \in 1..Len(f) :
           F[k] = IF Gives(f, section, key, k) THEN Append(F[k - 1], ValueOf(f, k))
                  ELSE F[k - 1]
  BY GivenSteps
<1>3. /\ G[0] = <<>>
      /\ \A k \in 1..Len(g) :
           G[k] = IF Gives(g, section, key, k) THEN Append(G[k - 1], ValueOf(g, k))
                  ELSE G[k - 1]
  BY <1>1, GivenSteps
<1> HIDE DEF F, G
<1>4. ASSUME NEW k \in 1..m, F[k - 1] = G[k - 1]
      PROVE  F[k] = G[k]
  <2>1. k \in 1..Len(f) /\ k \in 1..Len(g) /\ k \in 1..(Len(f) + 1) /\ m \in 1..Len(f) /\ ~f[m].cont
    BY <1>1 DEF Complete
  <2>2. ValueOf(g, k) = ValueOf(f, k)
    BY <2>1, ValueStable DEF g
  <2>3. SectionOf(g, k) = SectionOf(f, k) /\ (k \in Starts(g) <=> k \in Starts(f))
    BY <2>1, SectionStable DEF g
  <2>4. g[k] = f[k]
    BY <2>1, <1>1
  <2>5. Gives(g, section, key, k) <=> Gives(f, section, key, k)
    BY <2>2, <2>3, <2>4 DEF Gives
  <2>6. F[k] = IF Gives(f, section, key, k) THEN Append(F[k - 1], ValueOf(f, k)) ELSE F[k - 1]
    BY <2>1, <1>2
  <2>7. G[k] = IF Gives(g, section, key, k) THEN Append(G[k - 1], ValueOf(g, k)) ELSE G[k - 1]
    BY <2>1, <1>3
  <2> QED
    BY <1>4, <2>2, <2>5, <2>6, <2>7
<1>5. \A k \in 0..m : F[k] = G[k]
  <2>1. F[0] = G[0]
    BY <1>2, <1>3
  <2>2. m \in Nat
    BY <1>1
  <2> QED
    BY <2>1, <2>2, <1>4, SameSteps, ZenonT(40)
<1> QED
  BY <1>5, <1>1 DEF F, G, g

\* Lines that continue another one give nothing of their own.
LEMMA GivenNext ==
  ASSUME NEW f \in Seq(Line), NEW section, NEW key,
         NEW k \in Starts(f), NEW e \in k..Len(f), \A j \in k..(e - 1) : f[j].cont
  PROVE  GivenBy(f, section, key)[e] = GivenBy(f, section, key)[k]
<1> DEFINE F == GivenBy(f, section, key)
           S == { d \in Nat : k + d <= e => F[k + d] = F[k] }
<1>1. Len(f) \in Nat /\ k \in 1..Len(f) /\ k \in Nat /\ e \in Nat
  BY DEF Starts
<1>2. \A j \in 1..Len(f) :
        F[j] = IF Gives(f, section, key, j) THEN Append(F[j - 1], ValueOf(f, j))
               ELSE F[j - 1]
  BY GivenSteps
<1> HIDE DEF F
<1>3. 0 \in S
  BY <1>1
<1>4. ASSUME NEW d \in Nat, d \in S
      PROVE  d + 1 \in S
  <2>1. SUFFICES ASSUME k + (d + 1) <= e
                 PROVE  F[k + (d + 1)] = F[k]
    OBVIOUS
  <2> DEFINE j == k + (d + 1)
  <2>2. j \in 1..Len(f) /\ j - 1 = k + d /\ k + d <= e /\ j - 1 \in k..(e - 1) /\ j # 1
    BY <1>1, <2>1
  <2> HIDE DEF j
  <2>3. j \notin Starts(f)
    BY <2>2 DEF Starts
  <2>4. F[j] = F[j - 1]
    BY <2>2, <2>3, <1>2 DEF Gives
  <2>5. F[k + d] = F[k]
    BY <1>4, <2>2
  <2> QED
    BY <2>2, <2>4, <2>5 DEF j
<1> HIDE DEF S
<1>5. e - k \in S
  <2>1. e - k \in Nat
    BY <1>1
  <2> QED
    BY <2>1, <1>3, <1>4, Induction
<1>6. k + (e - k) = e
  BY <1>1
<1> QED
  BY <1>1, <1>5, <1>6 DEF S, F

-------------------------------------------------------------------------------
(* parse_ini                                                               *)

RawSections == [Sections \X Keys -> Seq(Value)]

\* The values in what the sections map sm holds are those of the first m
\* lines.
Holds(sm, f, m) ==
  \A s \in Sections : \A key \in Keys :
    split_rs(sm[<<s, key>>]) = GivenBy(f, s, key)[m]

\* process_line does with a complete line what the file says of it.
LEMMA LineProcessed ==
  ASSUME NEW f \in Seq(Line), NEW m, Complete(f, m), m # Len(f),
         \A j \in (m + 1)..(Len(f) - 1) : f[j].cont,
         sections \in RawSections, current_section = SectionOf(f, m + 1),
         Holds(sections, f, m), process_line(Logical(f, m + 1))
  PROVE  /\ sections' \in RawSections
         /\ current_section' = SectionOf(f, Len(f) + 1)
         /\ Holds(sections', f, Len(f))
<1> DEFINE k == m + 1
           e == Len(f)
           L == Logical(f, k)
           v == ValueOf(f, k)
<1>1. /\ Len(f) \in Nat /\ m \in Nat /\ k \in 1..Len(f) /\ e \in k..Len(f) /\ k - 1 = m
      /\ f[k] \in Line
  BY DEF Complete
<1>2. k \in Starts(f)
  BY <1>1 DEF Starts, Complete
<1>3. \A j \in k..(e - 1) : f[j].cont
  OBVIOUS
<1> HIDE DEF k, e
<1>4. SectionOf(f, e + 1) = IF f[k].kind = "section" THEN f[k].name ELSE current_section
  <2>1. current_section = SectionOf(f, k)
    BY DEF k
  <2> QED
    BY <1>1, <1>2, <1>3, <2>1, SectionNext
<1>5. ASSUME NEW s \in Sections, NEW key \in Keys
      PROVE  GivenBy(f, s, key)[e] = IF Gives(f, s, key, k)
                                     THEN Append(split_rs(sections[<<s, key>>]), v)
                                     ELSE split_rs(sections[<<s, key>>])
  <2> DEFINE G == GivenBy(f, s, key)
  <2>1. G[e] = G[k]
    BY <1>1, <1>2, <1>3, GivenNext
  <2>2. G[k] = IF Gives(f, s, key, k) THEN Append(G[k - 1], ValueOf(f, k)) ELSE G[k - 1]
    BY <1>1, GivenSteps
  <2>3. split_rs(sections[<<s, key>>]) = G[m]
    BY DEF Holds
  <2> HIDE DEF G
  <2>4. G[e] = IF Gives(f, s, key, k) THEN Append(split_rs(sections[<<s, key>>]), v)
               ELSE split_rs(sections[<<s, key>>])
    BY <1>1, <2>1, <2>2, <2>3
  <2> QED
    BY <2>4 DEF G
<1>6. process_line(L)
  BY DEF k
<1>7. ASSUME f[k].kind # "entry", UNCHANGED sections, current_section' = SectionOf(f, e + 1)
      PROVE  /\ sections' \in RawSections /\ current_section' = SectionOf(f, e + 1)
             /\ Holds(sections', f, e)
  <2>1. \A s \in Sections : \A key \in Keys : ~Gives(f, s, key, k)
    BY <1>7 DEF Gives
  <2>2. \A s \in Sections : \A key \in Keys :
          split_rs(sections'[<<s, key>>]) = GivenBy(f, s, key)[e]
    BY <1>5, <1>7, <2>1
  <2>3. Holds(sections', f, e)
    BY <2>2 DEF Holds
  <2> QED
    BY <1>7, <2>3
<1>8. CASE f[k].kind = "section"
  <2>1. L = f[k] /\ L.kind = "section"
    BY <1>8 DEF Logical
  <2>2. UNCHANGED sections /\ current_section' = f[k].name
    BY <1>6, <2>1 DEF process_line
  <2> QED
    BY <1>4, <1>7, <1>8, <2>2 DEF e
<1>9. CASE f[k].kind \in {"comment", "text"}
  <2>1. L = f[k] /\ L.kind \in {"comment", "text"}
    BY <1>9 DEF Logical
  <2>2. UNCHANGED <<sections, current_section>>
    BY <1>6, <2>1 DEF process_line
  <2>3. f[k].kind # "section" /\ f[k].kind # "entry"
    BY <1>9
  <2> QED
    BY <1>4, <1>7, <2>2, <2>3 DEF e
<1>10. CASE f[k].kind = "entry"
  <2>1. f[k] \in [kind : {"entry"}, cont : BOOLEAN, raw : Seq(Word), key : Keys, val : Value]
    BY <1>1, <1>10, LineFields
  <2>2. v \in Value
    BY <1>1, <1>10, ValueOfType
  <2>3. L = [f[k] EXCEPT !.val = v]
    BY <1>10 DEF Logical
  <2> HIDE DEF v, L
  <2>4. L.kind = "entry" /\ L.key = f[k].key /\ L.val = v /\ f[k].key \in Keys
    BY <2>1, <2>3
  <2> DEFINE cs == current_section
             ck == f[k].key
  <2>5. /\ sections' = [sections EXCEPT ![<<cs, ck>>] = Joined(sections[<<cs, ck>>], v)]
        /\ current_section' = cs
    BY <1>6, <2>4 DEF process_line
  <2>6. cs \in Sections /\ cs = SectionOf(f, k)
    BY SectionType DEF k
  <2>7. <<cs, ck>> \in Sections \X Keys
    BY <2>4, <2>6
  <2> HIDE DEF cs, ck
  <2>8. sections[<<cs, ck>>] \in Seq(Value)
    BY <2>7 DEF RawSections
  <2>9. Joined(sections[<<cs, ck>>], v) \in Seq(Value)
    BY <2>2, <2>8, SplitJoined
  <2>10. sections' \in RawSections
    BY <2>5, <2>9 DEF RawSections
  <2>11. ASSUME NEW s \in Sections, NEW key \in Keys
         PROVE  split_rs(sections'[<<s, key>>]) = GivenBy(f, s, key)[e]
    <3>1. CASE s = cs /\ key = ck
      <4>1. sections'[<<s, key>>] = Joined(sections[<<s, key>>], v)
        BY <3>1, <2>5, <2>7 DEF RawSections
      <4>2. split_rs(sections'[<<s, key>>]) =
              IF v # NoValue THEN Append(split_rs(sections[<<s, key>>]), v)
              ELSE split_rs(sections[<<s, key>>])
        BY <3>1, <4>1, <2>2, <2>8, SplitJoined
      <4>3. Gives(f, s, key, k) <=> v # NoValue
        BY <3>1, <1>2, <1>10, <2>6 DEF Gives, v, ck
      <4> QED
        BY <4>2, <4>3, <1>5
    <3>2. CASE ~(s = cs /\ key = ck)
      <4>1. <<s, key>> # <<cs, ck>> /\ <<s, key>> \in Sections \X Keys
        BY <3>2
      <4>2. sections'[<<s, key>>] = sections[<<s, key>>]
        BY <4>1, <2>5 DEF RawSections
      <4>3. ~Gives(f, s, key, k)
        BY <3>2, <2>6 DEF Gives, ck
      <4> QED
        BY <4>2, <4>3, <1>5
    <3> QED
      BY <3>1, <3>2
  <2>12. Holds(sections', f, e)
    BY <2>11 DEF Holds
  <2>13. current_section' = SectionOf(f, e + 1)
    BY <1>4, <1>10, <2>5 DEF cs
  <2> QED
    BY <2>10, <2>12, <2>13 DEF e
<1> QED
  BY <1>1, <1>8, <1>9, <1>10, LineFields

-------------------------------------------------------------------------------
(* The invariant                                                           *)

Entry == [type : Keys, words : Seq(Word), negate : BOOLEAN]

\* While the file is read: the first m lines are processed, the others are
\* in accumulated.
Processed(m) ==
  /\ Complete(file, m) /\ OpenFrom(file, m)
  /\ accumulated = IF m = Len(file) THEN NoLine ELSE Logical(file, m + 1)
  /\ current_section = SectionOf(file, m + 1)
  /\ Holds(sections, file, m)

\* The values of a key follow each other among the entries, and those with
\* a '!' are negated.
Row(entries, key, vals) ==
  \E o \in 0..Len(entries) :
    /\ { k \in 1..Len(entries) : entries[k].type = key } = (o + 1)..(o + Len(vals))
    /\ \A n \in 1..Len(vals) :
         /\ entries[o + n].words = Tested(vals[n])
         /\ Negated(vals[n]) => entries[o + n].negate

\* The keys that have been visited have their values, the others none yet.
Visited(entries, keys, left) ==
  /\ \A k \in 1..Len(entries) : entries[k].type \in keys
  /\ \A key \in keys \ left : Row(entries, key, Given("Unit", key))
  /\ \A key \in keys \cap left : \A k \in 1..Len(entries) : entries[k].type # key

ParseType ==
  /\ file \in Seq(Line) /\ sections \in RawSections
  /\ unit \in [after : Seq(Word), exec_start_pre : Seq(Value),
               conditions : Seq(Entry), assertions : Seq(Entry)]
  /\ pc \in {"read", "split", "conditions", "eval", "done"}

ParseInv ==
  /\ ParseType
  /\ pc = "read" => \E m : Processed(m)
  /\ pc # "read" => Holds(sections, file, Len(file))
  /\ pc \in {"read", "split"} => unit.conditions = <<>> /\ unit.assertions = <<>>
  /\ pc \in {"conditions", "eval", "done"} =>
       /\ unit.after = FlattenSeq(Given("Unit", "After"))
       /\ unit.exec_start_pre = Given("Service", "ExecStartPre")
       /\ Visited(unit.conditions, ConditionKeys, todo)
       /\ Visited(unit.assertions, AssertKeys, todo)
  /\ pc \in {"eval", "done"} => todo = {}
  /\ pc = "done" => verdict = eval_conditions

\* Before the first line.
LEMMA ParseInit == Init => ParseInv
<1> SUFFICES ASSUME Init PROVE ParseInv
  OBVIOUS
<1>6. file = <<>>
  BY DEF Init
<1>7. accumulated = NoLine /\ current_section = "" /\ pc = "read"
  BY DEF Init
<1>8. sections = [sk \in Sections \X Keys |-> <<>>]
  BY DEF Init
<1>9. unit = [after |-> <<>>, exec_start_pre |-> <<>>, conditions |-> <<>>, assertions |-> <<>>]
  BY DEF Init
<1>1. file \in Seq(Line) /\ Len(file) = 0
  BY <1>6
<1>2. sections \in RawSections
  <2> DEFINE W == Seq(Value)
  <2>1. <<>> \in W
    OBVIOUS
  <2> HIDE DEF W
  <2>2. sections \in [Sections \X Keys -> W]
    BY <1>8, <2>1
  <2> QED
    BY <2>2 DEF RawSections, W
<1>3. ASSUME NEW s \in Sections, NEW key \in Keys
      PROVE  split_rs(sections[<<s, key>>]) = GivenBy(file, s, key)[0]
  <2>1. <<s, key>> \in Sections \X Keys
    OBVIOUS
  <2>2. sections[<<s, key>>] = <<>>
    BY <1>8, <2>1
  <2>3. split_rs(<<>>) = <<>>
    <3>1. <<>> \in Seq(Value)
      OBVIOUS
    <3> QED
      BY <3>1, SplitRs, ValueFields
  <2>4. GivenBy(file, s, key)[0] = <<>>
    BY <1>1, GivenStart
  <2> QED
    BY <2>2, <2>3, <2>4
<1>4. Processed(0)
  <2>1. Heads(file, 0 + 1) = {}
    BY <1>1 DEF Heads, Starts
  <2>2. SectionOf(file, 0 + 1) = ""
    BY <2>1, <1>1, SectionIs
  <2>5. current_section = SectionOf(file, 0 + 1)
    BY <1>7, <2>2, ZenonT(40)
  <2>3. Complete(file, 0) /\ OpenFrom(file, 0)
    BY <1>1 DEF Complete, OpenFrom
  <2>4. Holds(sections, file, 0)
    BY <1>3 DEF Holds
  <2> QED
    BY <1>7, <1>1, <2>3, <2>4, <2>5 DEF Processed
<1>5. ParseType
  <2>1. unit \in [after : Seq(Word), exec_start_pre : Seq(Value),
                  conditions : Seq(Entry), assertions : Seq(Entry)]
    BY <1>9
  <2> QED
    BY <1>1, <1>2, <1>7, <2>1 DEF ParseType
<1> QED
  BY <1>4, <1>5, <1>7, <1>9 DEF ParseInv

\* One line more in the file.
LEMMA ReadLineKept ==
  ASSUME ParseInv, NEW l \in Line, ReadLine(l)
  PROVE  ParseInv'
<1> DEFINE g == Append(file, l)
<1>1. pc = "read" /\ file \in Seq(Line) /\ file' = g /\ UNCHANGED <<unit, pc>>
  BY DEF ParseInv, ParseType, ReadLine
<1>2. PICK m : Processed(m)
  BY <1>1 DEF ParseInv
<1>3. /\ g \in Seq(Line) /\ Len(g) = Len(file) + 1 /\ Len(file) \in Nat
      /\ m \in Nat /\ m <= Len(file)
      /\ \A j \in 1..Len(file) : g[j] = file[j]
      /\ g[Len(file) + 1] = l
  BY <1>1, <1>2, AppendProperties DEF Processed, Complete
<1>4. Continued(l) = Logical(g, m + 1)
  BY <1>1, <1>2, ContinuedIs DEF Processed
<1>5. Complete(g, m)
  <2> HIDE DEF g
  <2> QED
    BY <1>2, <1>3 DEF Complete, Processed
<1>6. current_section = SectionOf(g, m + 1)
  <2>1. m + 1 \in 1..(Len(file) + 1)
    BY <1>3
  <2> QED
    BY <1>1, <1>2, <2>1, SectionStable DEF Processed
<1>7. Holds(sections, g, m)
  <2>1. ASSUME NEW s \in Sections, NEW key \in Keys
        PROVE  split_rs(sections[<<s, key>>]) = GivenBy(g, s, key)[m]
    <3>1. Complete(file, m) /\ split_rs(sections[<<s, key>>]) = GivenBy(file, s, key)[m]
      BY <1>2 DEF Processed, Holds
    <3>2. GivenBy(g, s, key)[m] = GivenBy(file, s, key)[m]
      BY <1>1, <3>1, GivenStable
    <3> QED
      BY <3>1, <3>2
  <2> QED
    BY <2>1 DEF Holds
<1>8. \A j \in (m + 1)..Len(file) : g[j].cont
  BY <1>2, <1>3 DEF Processed, OpenFrom
<1> HIDE DEF g
<1>9. sections' \in RawSections /\ \E n : Processed(n)'
  <2>1. CASE l.cont
    <3>1. accumulated' = Logical(g, m + 1) /\ UNCHANGED <<current_section, sections>>
      BY <2>1, <1>4 DEF ReadLine
    <3>2. OpenFrom(g, m)
      BY <1>3, <1>8, <2>1 DEF OpenFrom
    <3>3. m # Len(g)
      BY <1>3
    <3>4. Processed(m)'
      BY <1>1, <1>5, <1>6, <1>7, <3>1, <3>2, <3>3 DEF Processed
    <3> QED
      BY <3>1, <3>4 DEF ParseInv, ParseType
  <2>2. CASE ~l.cont
    <3>1. process_line(Logical(g, m + 1)) /\ accumulated' = NoLine
      BY <2>2, <1>4 DEF ReadLine
    <3>2. m # Len(g) /\ \A j \in (m + 1)..(Len(g) - 1) : g[j].cont
      BY <1>3, <1>8
    <3>3. sections \in RawSections
      BY DEF ParseInv, ParseType
    <3>4. /\ sections' \in RawSections
          /\ current_section' = SectionOf(g, Len(g) + 1)
          /\ Holds(sections', g, Len(g))
      BY <1>3, <1>5, <1>6, <1>7, <3>1, <3>2, <3>3, LineProcessed
    <3>5. Complete(g, Len(g)) /\ OpenFrom(g, Len(g))
      BY <1>3, <2>2 DEF Complete, OpenFrom
    <3>6. PICK n : n = Len(g)
      OBVIOUS
    <3>7. Processed(n)'
      BY <1>1, <3>1, <3>4, <3>5, <3>6 DEF Processed
    <3> QED
      BY <3>4, <3>7
  <2> QED
    BY <2>1, <2>2
<1>10. ParseType'
  BY <1>1, <1>3, <1>9 DEF ParseInv, ParseType
<1> QED
  BY <1>1, <1>9, <1>10 DEF ParseInv

\* What the last lines left in accumulated is processed, too.
LEMMA EndOfFileKept ==
  ASSUME ParseInv, EndOfFile
  PROVE  ParseInv'
<1>1. pc = "read" /\ pc' = "split" /\ file \in Seq(Line) /\ UNCHANGED <<file, unit>>
      /\ sections \in RawSections /\ process_line(accumulated)
  BY DEF ParseInv, ParseType, EndOfFile
<1>2. PICK m : Processed(m)
  BY <1>1 DEF ParseInv
<1>3. Len(file) \in Nat /\ m \in Nat /\ m <= Len(file)
  BY <1>1, <1>2 DEF Processed, Complete
<1>4. sections' \in RawSections /\ Holds(sections', file, Len(file))
  <2>1. CASE m = Len(file)
    <3>1. accumulated.kind = "none"
      BY <1>2, <2>1 DEF Processed, NoLine
    <3>2. UNCHANGED sections
      BY <1>1, <3>1 DEF process_line
    <3> QED
      BY <1>1, <1>2, <2>1, <3>2 DEF Processed
  <2>2. CASE m # Len(file)
    <3>1. accumulated = Logical(file, m + 1)
      BY <1>2, <2>2 DEF Processed
    <3>2. \A j \in (m + 1)..(Len(file) - 1) : file[j].cont
      BY <1>2, <1>3 DEF Processed, OpenFrom
    <3> QED
      BY <1>1, <1>2, <2>2, <3>1, <3>2, LineProcessed DEF Processed
  <2> QED
    BY <2>1, <2>2
<1>5. ParseType'
  BY <1>1, <1>4 DEF ParseInv, ParseType
<1> QED
  BY <1>1, <1>4, <1>5 DEF ParseInv

\* What is known of the sections map, for a section and a key of it.
LEMMA SectionsGiven ==
  ASSUME ParseInv, pc # "read", NEW s \in Sections, NEW key \in Keys
  PROVE  /\ sections[<<s, key>>] \in Seq(Value)
         /\ split_rs(sections[<<s, key>>]) = Given(s, key)
         /\ Given(s, key) \in Seq(Value)
<1>1. sections \in RawSections /\ Holds(sections, file, Len(file))
  BY DEF ParseInv, ParseType
<1>2. <<s, key>> \in Sections \X Keys
  OBVIOUS
<1>3. sections[<<s, key>>] \in Seq(Value)
  BY <1>1, <1>2 DEF RawSections
<1>4. split_rs(sections[<<s, key>>]) = Given(s, key)
  BY <1>1 DEF Holds, Given
<1>5. split_rs(sections[<<s, key>>]) \in Seq(Value)
  BY <1>3, SplitRs, ValueFields
<1> QED
  BY <1>3, <1>4, <1>5

\* The keys and sections in use.
LEMMA KnownNames ==
  /\ "Unit" \in Sections /\ "Service" \in Sections
  /\ "After" \in Keys /\ "ExecStartPre" \in Keys
  /\ ConditionKeys \subseteq Keys /\ AssertKeys \subseteq Keys
BY DEF Sections, Keys

\* The entries of a key that are added in a row, and those of other keys.
LEMMA RowAdded ==
  ASSUME NEW entries \in Seq(Entry), NEW ces \in Seq(Entry), NEW key,
         \A n \in 1..Len(ces) : ces[n].type = key
  PROVE  /\ \A vals \in Seq(Value) :
              /\ Len(ces) = Len(vals)
              /\ \A n \in 1..Len(vals) : /\ ces[n].words = Tested(vals[n])
                                         /\ Negated(vals[n]) => ces[n].negate
              /\ \A k \in 1..Len(entries) : entries[k].type # key
              => Row(entries \o ces, key, vals)
         /\ \A other : \A vals \in Seq(Value) :
              other # key /\ Row(entries, other, vals) => Row(entries \o ces, other, vals)
<1> DEFINE all == entries \o ces
           o == Len(entries)
<1>1. /\ all \in Seq(Entry) /\ o \in Nat /\ Len(ces) \in Nat /\ Len(all) = o + Len(ces)
      /\ \A k \in 1..o : all[k] = entries[k]
      /\ \A n \in 1..Len(ces) : all[o + n] = ces[n]
  BY ConcatProperties
<1> HIDE DEF all, o
<1>2. ASSUME NEW k \in 1..Len(all)
      PROVE  k \in 1..o \/ (k \in (o + 1)..(o + Len(ces)) /\ all[k].type = key)
  <2>1. CASE k <= o
    BY <2>1, <1>1
  <2>2. CASE ~(k <= o)
    <3>1. k - o \in 1..Len(ces) /\ o + (k - o) = k /\ k \in (o + 1)..(o + Len(ces))
      BY <2>2, <1>1
    <3>2. all[k] = ces[k - o]
      BY <3>1, <1>1
    <3> QED
      BY <3>1, <3>2
  <2> QED
    BY <2>1, <2>2
<1>3. ASSUME NEW k \in (o + 1)..(o + Len(ces))
      PROVE  k \in 1..Len(all) /\ all[k].type = key
  <2>1. k - o \in 1..Len(ces) /\ o + (k - o) = k /\ k \in 1..Len(all)
    BY <1>1
  <2>2. all[k] = ces[k - o]
    BY <2>1, <1>1
  <2> QED
    BY <2>1, <2>2
<1>4. ASSUME NEW vals \in Seq(Value), Len(ces) = Len(vals),
             \A n \in 1..Len(vals) : /\ ces[n].words = Tested(vals[n])
                                     /\ Negated(vals[n]) => ces[n].negate,
             \A k \in 1..Len(entries) : entries[k].type # key
      PROVE  Row(all, key, vals)
  <2>1. \A k \in 1..o : all[k].type # key
    BY <1>1, <1>4 DEF o
  <2>2. { k \in 1..Len(all) : all[k].type = key } = (o + 1)..(o + Len(vals))
    BY <1>2, <1>3, <1>4, <2>1
  <2>3. o \in 0..Len(all)
    BY <1>1
  <2>4. \A n \in 1..Len(vals) : /\ all[o + n].words = Tested(vals[n])
                                /\ Negated(vals[n]) => all[o + n].negate
    BY <1>1, <1>4
  <2> QED
    BY <2>2, <2>3, <2>4 DEF Row
<1>5. ASSUME NEW other, other # key, NEW vals \in Seq(Value), Row(entries, other, vals)
      PROVE  Row(all, other, vals)
  <2>1. PICK p \in 0..o :
          /\ { k \in 1..o : entries[k].type = other } = (p + 1)..(p + Len(vals))
          /\ \A n \in 1..Len(vals) : /\ entries[p + n].words = Tested(vals[n])
                                     /\ Negated(vals[n]) => entries[p + n].negate
    BY <1>5 DEF Row, o
  <2>2. { k \in 1..Len(all) : all[k].type = other } = { k \in 1..o : entries[k].type = other }
    <3>1. \A k \in 1..o : k \in 1..Len(all) /\ all[k] = entries[k]
      BY <1>1
    <3>2. \A k \in 1..Len(all) : all[k].type = other => k \in 1..o
      BY <1>2, <1>5
    <3> QED
      BY <3>1, <3>2
  <2>3. p \in 0..Len(all)
    BY <1>1
  <2>4. ASSUME NEW n \in 1..Len(vals)
        PROVE  all[p + n].words = Tested(vals[n]) /\ (Negated(vals[n]) => all[p + n].negate)
    <3>1. p \in Nat /\ Len(vals) \in Nat
      BY <1>1
    <3>2. p + n \in (p + 1)..(p + Len(vals))
      BY <3>1
    <3>3. p + n \in 1..o
      BY <3>2, <2>1
    <3>4. all[p + n] = entries[p + n]
      BY <3>3, <1>1
    <3> QED
      BY <3>4, <2>1
  <2>5. { k \in 1..Len(all) : all[k].type = other } = (p + 1)..(p + Len(vals))
    BY <2>1, <2>2
  <2> QED
    BY <2>3, <2>4, <2>5 DEF Row
<1> QED
  BY <1>4, <1>5 DEF all

\* The key that is visited, and the others of its kind.
LEMMA KeyVisited ==
  ASSUME NEW entries \in Seq(Entry), NEW ces \in Seq(Entry), NEW keys, NEW left,
         NEW key \in keys \cap left, Visited(entries, keys, left),
         \A k \in keys : Given("Unit", k) \in Seq(Value),
         Len(ces) = Len(Given("Unit", key)),
         \A n \in 1..Len(ces) : /\ ces[n].type = key
                                /\ ces[n].words = Tested(Given("Unit", key)[n])
                                /\ Negated(Given("Unit", key)[n]) => ces[n].negate
  PROVE  Visited(entries \o ces, keys, left \ {key})
<1> DEFINE all == entries \o ces
           vals == Given("Unit", key)
<1>1. vals \in Seq(Value) /\ \A n \in 1..Len(ces) : ces[n].type = key
  OBVIOUS
<1>2. Row(all, key, vals)
  <2>1. \A k \in 1..Len(entries) : entries[k].type # key
    BY DEF Visited
  <2>2. Len(ces) = Len(vals) /\ \A n \in 1..Len(vals) : /\ ces[n].words = Tested(vals[n])
                                                        /\ Negated(vals[n]) => ces[n].negate
    OBVIOUS
  <2> HIDE DEF vals
  <2> QED
    BY <1>1, <2>1, <2>2, RowAdded
<1>3. ASSUME NEW k \in keys \ (left \ {key})
      PROVE  Row(all, k, Given("Unit", k))
  <2>1. CASE k = key
    BY <2>1, <1>2
  <2>2. CASE k # key
    <3>1. Row(entries, k, Given("Unit", k))
      BY <2>2 DEF Visited
    <3> QED
      BY <1>1, <2>2, <3>1, RowAdded
  <2> QED
    BY <2>1, <2>2
<1>4. \A k \in 1..Len(all) : \/ \E j \in 1..Len(entries) : all[k] = entries[j]
                             \/ \E j \in 1..Len(ces) : all[k] = ces[j]
  BY ConcatElements
<1> HIDE DEF all, vals
<1>5. \A k \in 1..Len(all) :
        all[k].type = key \/ \E j \in 1..Len(entries) : all[k] = entries[j]
  BY <1>1, <1>4
<1>6. \A k \in 1..Len(all) : all[k].type \in keys
  BY <1>5 DEF Visited
<1>7. \A c \in keys \cap (left \ {key}) : \A k \in 1..Len(all) : all[k].type # c
  <2>1. ASSUME NEW c \in keys \cap (left \ {key}), NEW k \in 1..Len(all)
        PROVE  all[k].type # c
    <3>1. c # key /\ \A j \in 1..Len(entries) : entries[j].type # c
      BY DEF Visited
    <3> QED
      BY <1>5, <3>1
  <2> QED
    BY <2>1
<1> QED
  BY <1>3, <1>6, <1>7 DEF Visited, all

\* Splitting the lists and commands.
LEMMA SplitFieldsKept ==
  ASSUME ParseInv, SplitFields
  PROVE  ParseInv'
<1>1. /\ pc = "split" /\ pc' = "conditions" /\ UNCHANGED <<file, sections>>
      /\ unit.conditions = <<>> /\ unit.assertions = <<>>
      /\ unit \in [after : Seq(Word), exec_start_pre : Seq(Value),
                   conditions : Seq(Entry), assertions : Seq(Entry)]
  BY DEF SplitFields, ParseInv, ParseType
<1> DEFINE after == split_list(sections[<<"Unit", "After">>])
           pre   == split_rs(sections[<<"Service", "ExecStartPre">>])
<1>2. unit' = [unit EXCEPT !.after = after, !.exec_start_pre = pre]
  BY DEF SplitFields
<1>3. after = FlattenSeq(Given("Unit", "After")) /\ after \in Seq(Word)
  <2> DEFINE s == sections[<<"Unit", "After">>]
  <2>1. s \in Seq(Value) /\ split_rs(s) = Given("Unit", "After")
    BY <1>1, KnownNames, SectionsGiven
  <2>2. after = FlattenSeq(s)
    BY DEF split_list
  <2> HIDE DEF s
  <2>3. FlattenSeq(split_rs(s)) = FlattenSeq(s)
    BY <2>1, SplitKeepsWords
  <2>4. s \in Seq(Seq(Word))
    BY <2>1 DEF Value
  <2>5. <<>> \in Seq(Word)
    OBVIOUS
  <2>6. FlattenSeq(s) \in Seq(Word)
    BY <2>4, <2>5, Flatten
  <2> QED
    BY <2>1, <2>2, <2>3, <2>6
<1>4. pre = Given("Service", "ExecStartPre") /\ pre \in Seq(Value)
  BY <1>1, KnownNames, SectionsGiven
<1> HIDE DEF after, pre
<1>5. /\ unit'.after = after /\ unit'.exec_start_pre = pre
      /\ unit'.conditions = <<>> /\ unit'.assertions = <<>>
      /\ unit' \in [after : Seq(Word), exec_start_pre : Seq(Value),
                    conditions : Seq(Entry), assertions : Seq(Entry)]
  BY <1>1, <1>2, <1>3, <1>4
<1>6. ASSUME NEW keys, keys = ConditionKeys \/ keys = AssertKeys
      PROVE  Visited(<<>>, keys, todo')
  <2>1. todo' = { key \in ConditionKeys \cup AssertKeys : sections[<<"Unit", key>>] # <<>> }
    BY DEF SplitFields
  <2>2. ASSUME NEW key \in keys \ todo'
        PROVE  Row(<<>>, key, Given("Unit", key))
    <3>1. key \in Keys /\ sections[<<"Unit", key>>] = <<>>
      BY <1>6, <2>1, KnownNames
    <3>2. split_rs(<<>>) = Given("Unit", key)
      BY <1>1, <3>1, KnownNames, SectionsGiven
    <3>3. split_rs(<<>>) = <<>>
      <4>1. <<>> \in Seq(Value)
        OBVIOUS
      <4> QED
        BY <4>1, SplitRs, ValueFields
    <3>4. Row(<<>>, key, <<>>)
      <4>1. Len(<<>>) = 0 /\ 0 \in 0..0
        OBVIOUS
      <4>2. { k \in 1..0 : (<<>>)[k].type = key } = (0 + 1)..(0 + 0)
        OBVIOUS
      <4>3. \A n \in 1..0 : FALSE
        OBVIOUS
      <4> QED
        BY <4>1, <4>2, <4>3 DEF Row
    <3> QED
      BY <3>2, <3>3, <3>4
  <2>3. \A k \in 1..Len(<<>>) : FALSE
    OBVIOUS
  <2> QED
    BY <2>2, <2>3 DEF Visited
<1>7. Visited(<<>>, ConditionKeys, todo') /\ Visited(<<>>, AssertKeys, todo')
  BY <1>6
<1>8. \A s, key : Given(s, key)' = Given(s, key)
  BY <1>1 DEF Given
<1>9. Visited(unit.conditions, ConditionKeys, todo)' /\ Visited(unit.assertions, AssertKeys, todo)'
  BY <1>5, <1>7, <1>8 DEF Visited
<1>10. Holds(sections, file, Len(file))' /\ ParseType'
  BY <1>1, <1>5 DEF ParseInv, ParseType
<1>11. /\ unit'.after = FlattenSeq(Given("Unit", "After"))'
       /\ unit'.exec_start_pre = Given("Service", "ExecStartPre")'
  BY <1>3, <1>4, <1>5, <1>8
<1> QED
  BY <1>1, <1>9, <1>10, <1>11 DEF ParseInv

\* Parsing the values of a condition key.
LEMMA ConditionKeyKept ==
  ASSUME ParseInv, NEW key \in ConditionKeys \cup AssertKeys, ParseConditionKey(key)
  PROVE  ParseInv'
<1> DEFINE vals == Given("Unit", key)
<1>1. /\ pc = "conditions" /\ key \in todo /\ todo' = todo \ {key}
      /\ UNCHANGED <<file, sections, pc>>
  BY DEF ParseConditionKey
<1>2. /\ key \in Keys /\ \A k \in ConditionKeys \cup AssertKeys : Given("Unit", k) \in Seq(Value)
      /\ split_rs(sections[<<"Unit", key>>]) = vals
  BY <1>1, KnownNames, SectionsGiven
<1>3. vals \in Seq(Value) /\ Len(vals) \in Nat
  BY <1>2
<1> HIDE DEF vals
<1>4. PICK ces \in [1..Len(vals) -> UNION { parse_condition(key, vals[k]) : k \in 1..Len(vals) }] :
        /\ \A k \in 1..Len(vals) : ces[k] \in parse_condition(key, vals[k])
        /\ unit' = IF key \in ConditionKeys
                   THEN [unit EXCEPT !.conditions = @ \o ces]
                   ELSE [unit EXCEPT !.assertions = @ \o ces]
  BY <1>2 DEF ParseConditionKey
<1>5. ASSUME NEW k \in 1..Len(vals)
      PROVE  /\ ces[k] \in Entry /\ ces[k].type = key /\ ces[k].words = Tested(vals[k])
             /\ Negated(vals[k]) => ces[k].negate
  <2>1. vals[k] \in Value
    BY <1>3
  <2>2. Tested(vals[k]) \in Seq(Word)
    BY <2>1, ValueFields
  <2>3. PICK n \in (IF Negated(vals[k]) THEN {TRUE} ELSE BOOLEAN) :
          ces[k] = [type |-> key, words |-> Tested(vals[k]), negate |-> n]
    BY <1>4 DEF parse_condition
  <2>4. n \in BOOLEAN /\ (Negated(vals[k]) => n)
    BY <2>3
  <2>5. ces[k].type = key /\ ces[k].words = Tested(vals[k]) /\ ces[k].negate = n
    BY <2>3
  <2>6. ces[k] \in Entry
    BY <1>2, <2>2, <2>3, <2>4 DEF Entry
  <2> QED
    BY <2>4, <2>5, <2>6
<1>6. ces \in Seq(Entry) /\ Len(ces) = Len(vals)
  BY <1>3, <1>5
<1>7. /\ unit \in [after : Seq(Word), exec_start_pre : Seq(Value),
                   conditions : Seq(Entry), assertions : Seq(Entry)]
      /\ unit.after = FlattenSeq(Given("Unit", "After"))
      /\ unit.exec_start_pre = Given("Service", "ExecStartPre")
      /\ Visited(unit.conditions, ConditionKeys, todo)
      /\ Visited(unit.assertions, AssertKeys, todo)
  BY <1>1 DEF ParseInv, ParseType
<1>8. \A n \in 1..Len(ces) : /\ ces[n].type = key
                             /\ ces[n].words = Tested(Given("Unit", key)[n])
                             /\ Negated(Given("Unit", key)[n]) => ces[n].negate
  BY <1>5, <1>6 DEF vals
<1>9. \A s, k : Given(s, k)' = Given(s, k)
  BY <1>1 DEF Given
<1>10. ASSUME NEW entries, NEW keys, key \notin keys, Visited(entries, keys, todo)
       PROVE  Visited(entries, keys, todo \ {key})
  BY <1>10 DEF Visited
<1>11. ASSUME NEW entries \in Seq(Entry), NEW keys, key \in keys,
              keys \subseteq ConditionKeys \cup AssertKeys, Visited(entries, keys, todo)
       PROVE  Visited(entries \o ces, keys, todo \ {key})
  <2>1. key \in keys \cap todo /\ \A k \in keys : Given("Unit", k) \in Seq(Value)
    BY <1>1, <1>2, <1>11
  <2>2. Len(ces) = Len(Given("Unit", key))
    BY <1>6 DEF vals
  <2> QED
    BY <1>6, <1>8, <1>11, <2>1, <2>2, KeyVisited
<1>12. /\ unit' \in [after : Seq(Word), exec_start_pre : Seq(Value),
                     conditions : Seq(Entry), assertions : Seq(Entry)]
       /\ unit'.after = unit.after /\ unit'.exec_start_pre = unit.exec_start_pre
       /\ Visited(unit'.conditions, ConditionKeys, todo \ {key})
       /\ Visited(unit'.assertions, AssertKeys, todo \ {key})
  <2> DEFINE conds == unit.conditions
             asserts == unit.assertions
  <2>1. conds \in Seq(Entry) /\ asserts \in Seq(Entry)
    BY <1>7
  <2>2. conds \o ces \in Seq(Entry) /\ asserts \o ces \in Seq(Entry)
    BY <1>6, <2>1, ConcatProperties
  <2>3. CASE key \in ConditionKeys
    <3>1. key \notin AssertKeys
      BY <2>3 DEF ConditionKeys, AssertKeys
    <3>2. unit' = [unit EXCEPT !.conditions = conds \o ces]
      BY <1>4, <2>3
    <3>3. Visited(conds \o ces, ConditionKeys, todo \ {key})
      BY <1>7, <1>11, <2>1, <2>3
    <3>4. Visited(asserts, AssertKeys, todo \ {key})
      BY <1>7, <1>10, <3>1
    <3> DEFINE c == conds \o ces
    <3>5. unit' = [unit EXCEPT !.conditions = c] /\ c \in Seq(Entry)
      BY <3>2, <2>2
    <3> HIDE DEF c
    <3>6. /\ unit'.conditions = c /\ unit'.assertions = asserts
          /\ unit'.after = unit.after /\ unit'.exec_start_pre = unit.exec_start_pre
          /\ unit' \in [after : Seq(Word), exec_start_pre : Seq(Value),
                        conditions : Seq(Entry), assertions : Seq(Entry)]
      BY <1>7, <3>5
    <3> QED
      BY <3>3, <3>4, <3>6 DEF c
  <2>4. CASE key \notin ConditionKeys
    <3>1. key \in AssertKeys
      BY <2>4
    <3>2. unit' = [unit EXCEPT !.assertions = asserts \o ces]
      BY <1>4, <2>4
    <3>3. Visited(asserts \o ces, AssertKeys, todo \ {key})
      BY <1>7, <1>11, <2>1, <3>1
    <3>4. Visited(conds, ConditionKeys, todo \ {key})
      BY <1>7, <1>10, <2>4
    <3> DEFINE c == asserts \o ces
    <3>5. unit' = [unit EXCEPT !.assertions = c] /\ c \in Seq(Entry)
      BY <3>2, <2>2
    <3> HIDE DEF c
    <3>6. /\ unit'.assertions = c /\ unit'.conditions = conds
          /\ unit'.after = unit.after /\ unit'.exec_start_pre = unit.exec_start_pre
          /\ unit' \in [after : Seq(Word), exec_start_pre : Seq(Value),
                        conditions : Seq(Entry), assertions : Seq(Entry)]
      BY <1>7, <3>5
    <3> QED
      BY <3>3, <3>4, <3>6 DEF c
  <2> QED
    BY <2>3, <2>4
<1>13. Visited(unit.conditions, ConditionKeys, todo)' /\ Visited(unit.assertions, AssertKeys, todo)'
  BY <1>1, <1>9, <1>12 DEF Visited
<1>14. Holds(sections, file, Len(file))' /\ ParseType'
  BY <1>1, <1>12 DEF ParseInv, ParseType
<1>15. /\ unit'.after = FlattenSeq(Given("Unit", "After"))'
       /\ unit'.exec_start_pre = Given("Service", "ExecStartPre")'
  BY <1>7, <1>9, <1>12
<1> QED
  BY <1>1, <1>13, <1>14, <1>15 DEF ParseInv

\* The other steps leave the unit alone.
LEMMA EvalKept ==
  ASSUME ParseInv, UnitParsed \/ EvalConditions \/ UNCHANGED vars
  PROVE  ParseInv'
<1>1. UNCHANGED <<file, sections, unit>>
  BY DEF UnitParsed, EvalConditions, vars
<1>2. ASSUME UNCHANGED todo, pc' \in {"conditions", "eval", "done"},
             pc \in {"conditions", "eval", "done"}
      PROVE  /\ (unit.after = FlattenSeq(Given("Unit", "After")))'
             /\ (unit.exec_start_pre = Given("Service", "ExecStartPre"))'
             /\ Visited(unit.conditions, ConditionKeys, todo)'
             /\ Visited(unit.assertions, AssertKeys, todo)'
             /\ Holds(sections, file, Len(file))' /\ ParseType'
  <2>1. \A s, k : Given(s, k)' = Given(s, k)
    BY <1>1 DEF Given
  <2>2. Visited(unit.conditions, ConditionKeys, todo)' /\ Visited(unit.assertions, AssertKeys, todo)'
    BY <1>1, <1>2, <2>1 DEF Visited, ParseInv
  <2>3. Holds(sections, file, Len(file))' /\ ParseType'
    BY <1>1, <1>2 DEF ParseInv, ParseType
  <2>4. /\ unit.after = FlattenSeq(Given("Unit", "After"))
        /\ unit.exec_start_pre = Given("Service", "ExecStartPre")
    BY <1>2 DEF ParseInv
  <2> QED
    BY <1>1, <2>1, <2>2, <2>3, <2>4
<1>3. CASE UnitParsed
  <2>1. pc = "conditions" /\ pc' = "eval" /\ todo = {} /\ UNCHANGED todo
    BY <1>3 DEF UnitParsed
  <2> QED
    BY <1>2, <2>1 DEF ParseInv
<1>4. CASE EvalConditions
  <2>1. pc = "eval" /\ pc' = "done" /\ todo = {} /\ UNCHANGED <<todo, world>>
        /\ verdict' = eval_conditions
    BY <1>4 DEF EvalConditions, ParseInv
  <2>2. eval_conditions' = eval_conditions
    BY <1>1, <2>1 DEF eval_conditions, AllTrue, eval_one
  <2> QED
    BY <1>2, <2>1, <2>2 DEF ParseInv
<1>5. CASE UNCHANGED vars
  <2>1. UNCHANGED <<file, accumulated, current_section, sections, unit, todo, world, verdict, pc>>
    BY <1>5 DEF vars
  <2>2. CASE pc \in {"read", "split"}
    <3>1. \A m : Processed(m)' <=> Processed(m)
      BY <2>1 DEF Processed
    <3>2. ParseType' /\ (pc # "read" => Holds(sections, file, Len(file)))'
      BY <2>1 DEF ParseInv, ParseType
    <3> QED
      BY <2>1, <2>2, <3>1, <3>2 DEF ParseInv
  <2>3. CASE pc \notin {"read", "split"}
    <3>1. pc \in {"conditions", "eval", "done"}
      BY <2>3 DEF ParseInv, ParseType
    <3>2. eval_conditions' = eval_conditions
      BY <2>1 DEF eval_conditions, AllTrue, eval_one
    <3> QED
      BY <1>2, <2>1, <3>1, <3>2 DEF ParseInv
  <2> QED
    BY <2>2, <2>3
<1> QED
  BY <1>3, <1>4, <1>5

\* What the parser has is what the file gives.
LEMMA ParseInvariant == Spec => []ParseInv
<1>1. ParseInv /\ [Next]_vars => ParseInv'
  <2> SUFFICES ASSUME ParseInv, [Next]_vars PROVE ParseInv'
    OBVIOUS
  <2>1. ASSUME NEW l \in Line, ReadLine(l)
        PROVE  ParseInv'
    BY <2>1, ReadLineKept
  <2>2. CASE EndOfFile
    BY <2>2, EndOfFileKept
  <2>3. CASE SplitFields
    BY <2>3, SplitFieldsKept
  <2>4. ASSUME NEW key \in ConditionKeys \cup AssertKeys, ParseConditionKey(key)
        PROVE  ParseInv'
    BY <2>4, ConditionKeyKept
  <2>5. CASE UnitParsed \/ EvalConditions
    BY <2>5, EvalKept
  <2>6. CASE Finished \/ UNCHANGED vars
    BY <2>6, EvalKept DEF Finished
  <2> QED
    BY <2>1, <2>2, <2>3, <2>4, <2>5, <2>6 DEF Next
<1> QED
  BY <1>1, ParseInit, PTL DEF Spec

-------------------------------------------------------------------------------
(* The theorems                                                            *)

\* Whatever a file consists of and however long it is: the lists, commands,
\* conditions and assertions of the unit are those that the file gives, each
\* key's in the order of the file.
THEOREM NothingLost == Spec => []RepeatedKeysAddUp
<1>1. ParseInv => RepeatedKeysAddUp
  <2> SUFFICES ASSUME ParseInv, pc \in {"eval", "done"}
               PROVE  /\ unit.after = FlattenSeq(Given("Unit", "After"))
                      /\ unit.exec_start_pre = Given("Service", "ExecStartPre")
                      /\ Lists(unit.conditions, ConditionKeys)
                      /\ Lists(unit.assertions, AssertKeys)
    BY DEF RepeatedKeysAddUp
  <2>1. /\ unit.after = FlattenSeq(Given("Unit", "After"))
        /\ unit.exec_start_pre = Given("Service", "ExecStartPre")
        /\ Visited(unit.conditions, ConditionKeys, {})
        /\ Visited(unit.assertions, AssertKeys, {})
    BY DEF ParseInv
  <2>2. ASSUME NEW entries, NEW keys, Visited(entries, keys, {})
        PROVE  Lists(entries, keys)
    <3>1. /\ \A k \in 1..Len(entries) : entries[k].type \in keys
          /\ \A key \in keys : Row(entries, key, Given("Unit", key))
      BY <2>2 DEF Visited
    <3> QED
      BY <3>1 DEF Lists, Row
  <2> QED
    BY <2>1, <2>2
<1> QED
  BY <1>1, ParseInvariant, PTL

\* Every line that gives a key a value has it among the values given.
LEMMA GivenHas ==
  ASSUME NEW f \in Seq(Line), NEW section, NEW key, NEW k, Gives(f, section, key, k)
  PROVE  LET vals == GivenBy(f, section, key)[Len(f)]
         IN \E n \in 1..Len(vals) : vals[n] = ValueOf(f, k)
<1> DEFINE G == GivenBy(f, section, key)
           Has(s) == \E n \in 1..Len(s) : s[n] = ValueOf(f, k)
           S == { d \in Nat : k + d <= Len(f) => Has(G[k + d]) }
<1>1. k \in 1..Len(f) /\ Len(f) \in Nat /\ k \in Nat
  BY DEF Gives, Starts
<1>2. \A j \in 1..Len(f) :
        G[j] = IF Gives(f, section, key, j) THEN Append(G[j - 1], ValueOf(f, j)) ELSE G[j - 1]
  BY GivenSteps
<1>3. \A j \in 0..Len(f) : G[j] \in Seq(Value)
  BY GivenSteps, ZenonT(40)
<1>4. \A j : Gives(f, section, key, j) => ValueOf(f, j) \in Value
  BY GivesValue
<1> HIDE DEF G
<1>5. 0 \in S
  <2>1. k - 1 \in 0..Len(f)
    BY <1>1
  <2>2. G[k] = Append(G[k - 1], ValueOf(f, k)) /\ G[k - 1] \in Seq(Value) /\ ValueOf(f, k) \in Value
    BY <1>1, <1>2, <1>3, <1>4, <2>1
  <2>3. Has(G[k])
    BY <2>2, AppendProperties
  <2> HIDE DEF Has
  <2> QED
    BY <1>1, <2>3
<1>6. ASSUME NEW d \in Nat, d \in S
      PROVE  d + 1 \in S
  <2>1. SUFFICES ASSUME k + (d + 1) <= Len(f)
                 PROVE  Has(G[k + (d + 1)])
    OBVIOUS
  <2> DEFINE j == k + (d + 1)
  <2>2. j \in 1..Len(f) /\ j - 1 \in 0..Len(f) /\ j - 1 = k + d /\ k + d <= Len(f)
    BY <1>1, <2>1
  <2> HIDE DEF j
  <2>3. Has(G[j - 1]) /\ G[j - 1] \in Seq(Value)
    BY <1>3, <1>6, <2>2
  <2>4. CASE Gives(f, section, key, j)
    <3>1. G[j] = Append(G[j - 1], ValueOf(f, j)) /\ ValueOf(f, j) \in Value
      BY <1>2, <1>4, <2>2, <2>4
    <3>2. PICK n \in 1..Len(G[j - 1]) : G[j - 1][n] = ValueOf(f, k)
      BY <2>3
    <3>3. n \in 1..Len(G[j]) /\ G[j][n] = G[j - 1][n]
      BY <2>3, <3>1, <3>2, AppendProperties
    <3> QED
      BY <3>2, <3>3 DEF j
  <2>5. CASE ~Gives(f, section, key, j)
    BY <1>2, <2>2, <2>3, <2>5 DEF j
  <2> QED
    BY <2>4, <2>5
<1> HIDE DEF S
<1>7. Len(f) - k \in S
  <2>1. Len(f) - k \in Nat
    BY <1>1
  <2> QED
    BY <2>1, <1>5, <1>6, Induction
<1>8. k + (Len(f) - k) = Len(f)
  BY <1>1
<1>9. Has(G[Len(f)])
  BY <1>1, <1>7, <1>8 DEF S
<1> QED
  BY <1>9 DEF G

\* A test that is written with '!' and does not hold is an entry that is
\* false.
LEMMA RefutedIsFalse ==
  ASSUME ParseInv, pc = "done", NEW keys, keys \subseteq Keys, NEW entries,
         Visited(entries, keys, {}), Refuted(keys) # {}
  PROVE  ~AllTrue(entries)
<1>1. PICK k : k \in Refuted(keys)
  OBVIOUS
<1> DEFINE key == file[k].key
           v == ValueOf(file, k)
           vals == Given("Unit", key)
<1>2. /\ k \in Starts(file) /\ file[k].kind = "entry" /\ key \in keys \cap KnownTypes
      /\ SectionOf(file, k) = "Unit" /\ Negated(v) /\ world[<<key, Tested(v)>>]
  BY <1>1 DEF Refuted
<1>3. file \in Seq(Line) /\ k \in 1..Len(file)
  BY <1>2 DEF ParseInv, ParseType, Starts
<1>4. v \in Value /\ Negated(v)
  BY <1>2, <1>3, ValueOfType
<1>5. v # NoValue
  BY <1>4, ValueFields
<1>6. Gives(file, "Unit", key, k)
  BY <1>2, <1>5 DEF Gives
<1>7. PICK n \in 1..Len(vals) : vals[n] = v
  BY <1>3, <1>6, GivenHas DEF Given
<1>8. PICK o \in 0..Len(entries) :
        /\ { j \in 1..Len(entries) : entries[j].type = key } = (o + 1)..(o + Len(vals))
        /\ \A i \in 1..Len(vals) : /\ entries[o + i].words = Tested(vals[i])
                                   /\ Negated(vals[i]) => entries[o + i].negate
  <2>1. Row(entries, key, vals)
    BY <1>2 DEF Visited
  <2> QED
    BY <2>1 DEF Row
<1>9. Len(vals) \in Nat
  BY <1>2, KnownNames, SectionsGiven
<1> HIDE DEF key, v, vals
<1>10. o + n \in (o + 1)..(o + Len(vals)) /\ o + n \in Nat
  BY <1>8, <1>9
<1> DEFINE i == o + n
           ce == entries[i]
<1>11. /\ i \in 1..Len(entries) /\ ce.type = key
       /\ ce.words = Tested(v) /\ ce.negate
  BY <1>4, <1>7, <1>8, <1>10
<1> HIDE DEF i, ce
<1>12. world[<<ce.type, ce.words>>] /\ ce.type \in KnownTypes
  BY <1>2, <1>11
<1>13. ~eval_one(ce)
  BY <1>11, <1>12 DEF eval_one
<1> QED
  BY <1>11, <1>13 DEF AllTrue, ce

\* On any machine, a condition or assertion with '!' that does not hold keeps
\* the unit from starting, wherever in the file it stands.
THEOREM NegationDecides == Spec => []NegatedTestsDecide
<1>1. ParseInv => NegatedTestsDecide
  <2> SUFFICES ASSUME ParseInv, pc = "done"
               PROVE  /\ Refuted(ConditionKeys) # {} => verdict = 1
                      /\ Refuted(AssertKeys) # {} => verdict # 0
    BY DEF NegatedTestsDecide
  <2>1. /\ Visited(unit.conditions, ConditionKeys, {})
        /\ Visited(unit.assertions, AssertKeys, {})
        /\ verdict = eval_conditions
    BY DEF ParseInv
  <2>2. Refuted(ConditionKeys) # {} => ~AllTrue(unit.conditions)
    BY <2>1, KnownNames, RefutedIsFalse
  <2>3. Refuted(AssertKeys) # {} => ~AllTrue(unit.assertions)
    BY <2>1, KnownNames, RefutedIsFalse
  <2>4. /\ ~AllTrue(unit.conditions) => verdict = 1
        /\ ~AllTrue(unit.assertions) => verdict \in {1, 2}
    BY <2>1 DEF eval_conditions
  <2> QED
    BY <2>2, <2>3, <2>4
<1> QED
  BY <1>1, ParseInvariant, PTL
===============================================================================
