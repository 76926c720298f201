--------------------------- MODULE QueueItemsProofs ---------------------------
(***************************************************************************)
(* Facts about Total and Among for sequences of any length.  The library's *)
(* induction theorems have an operator as a parameter, which the provers   *)
(* cannot instantiate; induction is therefore stated over a set, and       *)
(* follows from the well-foundedness of < on the naturals.                 *)
(***************************************************************************)
EXTENDS QueueItems, SequenceTheorems, WellFoundedInduction, TLAPS

\* The order of the naturals as a relation in the sense of the library.
LEMMA NatOrder ==
  \E R : IsWellFoundedOn(R, Nat) /\ \A x, y \in Nat : x < y => <<x, y>> \in R
<1>1. IsWellFoundedOn(OpToRel(<, Nat), Nat)
  BY NatLessThanWellFounded
<1>2. \A x, y \in Nat : x < y => <<x, y>> \in OpToRel(<, Nat)
  BY DEF OpToRel
<1> WITNESS OpToRel(<, Nat)
<1> QED BY <1>1, <1>2, Zenon

\* A set of naturals that is not empty has a least element.
LEMMA LeastNat ==
  ASSUME NEW T, T \subseteq Nat, T # {}
  PROVE  \E x \in T : \A y \in T : x <= y
<1>1. PICK R : IsWellFoundedOn(R, Nat)
               /\ \A x, y \in Nat : x < y => <<x, y>> \in R
  BY NatOrder
<1>2. \A RR, SS, TT : IsWellFoundedOn(RR, SS) /\ TT \subseteq SS /\ TT # {}
        => \E x \in TT : \A y \in TT : ~ (<<y, x>> \in RR)
  BY WFMin
<1>3. PICK x \in T : \A y \in T : ~ (<<y, x>> \in R)
  <2> DEFINE N == Nat
  <2>1. IsWellFoundedOn(R, N) /\ T \subseteq N /\ T # {}
    BY <1>1
  <2> HIDE DEF N
  <2> QED BY <1>2, <2>1
<1>4. ASSUME NEW y \in T PROVE x <= y
  <2>1. x \in Nat /\ y \in Nat /\ ~ (<<y, x>> \in R)
    BY <1>3, <1>4
  <2>2. ~(y < x)
    BY <1>1, <2>1
  <2> QED BY <2>1, <2>2
<1> QED BY <1>3, <1>4

\* Induction over the naturals, for a set.
LEMMA NatSetInduction ==
  ASSUME NEW S, 0 \in S, \A n \in Nat : n \in S => n + 1 \in S
  PROVE  \A n \in Nat : n \in S
<1> SUFFICES ASSUME Nat \ S # {} PROVE FALSE
  OBVIOUS
<1>1. PICK x \in Nat \ S : \A y \in Nat \ S : x <= y
  BY LeastNat
<1>2. x # 0 /\ x \in Nat
  BY <1>1
<1>3. x - 1 \in Nat /\ (x - 1) + 1 = x /\ ~(x <= x - 1)
  BY <1>2
<1>4. x - 1 \in S
  BY <1>1, <1>3
<1> QED BY <1>1, <1>3, <1>4

\* Induction over the sequences on S, for a set.
LEMMA SeqSetInduction ==
  ASSUME NEW S, NEW T, <<>> \in T,
         \A s \in Seq(S), x \in S : s \in T => Append(s, x) \in T
  PROVE  \A s \in Seq(S) : s \in T
<1> DEFINE N == {n \in Nat : \A s \in Seq(S) : Len(s) = n => s \in T}
<1>1. 0 \in N
  OBVIOUS
<1>2. ASSUME NEW n \in Nat, n \in N PROVE n + 1 \in N
  <2> SUFFICES ASSUME NEW s \in Seq(S), Len(s) = n + 1 PROVE s \in T
    OBVIOUS
  <2> DEFINE t == SubSeq(s, 1, n)
  <2>1. t \in Seq(S) /\ Len(t) = n
    OBVIOUS
  <2>2. s[n + 1] \in S
    OBVIOUS
  <2>3. s = Append(t, s[n + 1])
    OBVIOUS
  <2>4. t \in T
    BY <1>2, <2>1
  <2> HIDE DEF t
  <2> QED BY <2>1, <2>2, <2>3, <2>4
<1>3. \A n \in Nat : n \in N
  <2> HIDE DEF N
  <2> QED BY <1>1, <1>2, NatSetInduction
<1> QED BY <1>3

\* step[i] makes the value at i from the value at i - 1.
StepFunctions(n, V) == [1..n -> [V -> V]]

\* f is defined over 0..n by recursion from first.
Follows(f, n, V, first, step) ==
  /\ f \in [0..n -> V]
  /\ f[0] = first
  /\ \A i \in 1..n : f[i] = step[i][f[i - 1]]

\* A function defined by recursion over 0..n exists.
LEMMA Recursion ==
  ASSUME NEW V, NEW n \in Nat, NEW first \in V, NEW step \in StepFunctions(n, V)
  PROVE  \E f : Follows(f, n, V, first, step)
<1> DEFINE N == {k \in Nat : k <= n => \E f : Follows(f, k, V, first, step)}
<1>1. 0 \in N
  <2> DEFINE f == [i \in 0..0 |-> first]
  <2>1. f \in [0..0 -> V] /\ f[0] = first
    OBVIOUS
  <2>2. \A i \in 1..0 : f[i] = step[i][f[i - 1]]
    OBVIOUS
  <2> HIDE DEF f
  <2>3. Follows(f, 0, V, first, step)
    BY <2>1, <2>2 DEF Follows
  <2> QED BY <2>3
<1>2. ASSUME NEW k \in Nat, k \in N PROVE k + 1 \in N
  <2> SUFFICES ASSUME k + 1 <= n
               PROVE  \E g : Follows(g, k + 1, V, first, step)
    OBVIOUS
  <2>1. PICK f : Follows(f, k, V, first, step)
    BY <1>2
  <2>2. /\ f \in [0..k -> V]
        /\ f[0] = first
        /\ \A i \in 1..k : f[i] = step[i][f[i - 1]]
    BY <2>1 DEF Follows
  <2> DEFINE g == [i \in 0..(k + 1) |->
                     IF i = k + 1 THEN step[k + 1][f[k]] ELSE f[i]]
  <2>3. step[k + 1][f[k]] \in V
    <3>1. k + 1 \in 1..n /\ k \in 0..k
      OBVIOUS
    <3> QED BY <3>1, <2>2 DEF StepFunctions
  <2>4. g \in [0..(k + 1) -> V] /\ g[0] = first
    BY <2>2, <2>3
  <2>5. ASSUME NEW i \in 1..(k + 1) PROVE g[i] = step[i][g[i - 1]]
    <3>1. CASE i = k + 1
      BY <3>1
    <3>2. CASE i \in 1..k
      BY <3>2, <2>2
    <3> QED BY <3>1, <3>2
  <2> HIDE DEF g
  <2>6. Follows(g, k + 1, V, first, step)
    BY <2>4, <2>5 DEF Follows
  <2> QED BY <2>6
<1>3. n \in N
  <2> HIDE DEF N
  <2> QED BY <1>1, <1>2, NatSetInduction
<1> QED BY <1>3

\* Two functions that start alike and go on alike are alike.
LEMMA Agree ==
  ASSUME NEW n \in Nat, NEW f, NEW g, f[0] = g[0],
         \A i \in 1..n : f[i - 1] = g[i - 1] => f[i] = g[i]
  PROVE  \A i \in 0..n : f[i] = g[i]
<1> DEFINE N == {k \in Nat : k <= n => f[k] = g[k]}
<1>1. 0 \in N
  OBVIOUS
<1>2. ASSUME NEW k \in Nat, k \in N PROVE k + 1 \in N
  <2> SUFFICES ASSUME k + 1 <= n PROVE f[k + 1] = g[k + 1]
    OBVIOUS
  <2>1. k + 1 \in 1..n /\ (k + 1) - 1 = k /\ f[k] = g[k]
    BY <1>2
  <2> QED BY <2>1
<1>3. \A k \in Nat : k \in N
  <2> HIDE DEF N
  <2> QED BY <1>1, <1>2, NatSetInduction
<1> QED BY <1>3

-----------------------------------------------------------------------------
\* f is the running sum of s.
RunningSum(f, s) ==
  f[0] = 0 /\ \A i \in 1..Len(s) : f[i] = f[i - 1] + s[i]

\* Total is what the running sum ends with.
LEMMA TotalOf ==
  ASSUME NEW s \in Seq(Int)
  PROVE  /\ \E f \in [0..Len(s) -> Int] : RunningSum(f, s)
         /\ \A f : RunningSum(f, s) => Total(s) = f[Len(s)]
<1> DEFINE Is(f) == f = [i \in 0..Len(s) |->
                           IF i = 0 THEN 0 ELSE f[i - 1] + s[i]]
           step == [i \in 1..Len(s) |-> [v \in Int |-> v + s[i]]]
           sum == CHOOSE f : Is(f)
<1>1. step \in StepFunctions(Len(s), Int)
  BY DEF StepFunctions
<1>2. PICK f : Follows(f, Len(s), Int, 0, step)
  <2>1. Len(s) \in Nat /\ 0 \in Int
    OBVIOUS
  <2> HIDE DEF step
  <2> QED BY <1>1, <2>1, Recursion
<1>3. f \in [0..Len(s) -> Int] /\ f[0] = 0
  BY <1>2 DEF Follows
<1>4. ASSUME NEW i \in 1..Len(s) PROVE f[i] = f[i - 1] + s[i]
  <2>1. i - 1 \in 0..Len(s) /\ f[i - 1] \in Int
    BY <1>3
  <2>2. f[i] = step[i][f[i - 1]]
    BY <1>2 DEF Follows
  <2> QED BY <2>1, <2>2
<1>5. RunningSum(f, s)
  BY <1>3, <1>4 DEF RunningSum
<1>6. Is(f)
  <2>1. \A i \in 0..Len(s) : f[i] = IF i = 0 THEN 0 ELSE f[i - 1] + s[i]
    BY <1>3, <1>4
  <2> QED BY <1>3, <2>1
<1>7. Is(sum)
  <2> HIDE DEF Is
  <2> QED BY <1>6, Zenon
<1>8. Total(s) = sum[Len(s)]
  BY DEF Total
<1> HIDE DEF sum
<1>9. RunningSum(sum, s)
  <2>1. sum = [i \in 0..Len(s) |-> IF i = 0 THEN 0 ELSE sum[i - 1] + s[i]]
    BY <1>7
  <2>2. sum[0] = 0
    BY <2>1
  <2>3. ASSUME NEW i \in 1..Len(s) PROVE sum[i] = sum[i - 1] + s[i]
    <3>1. i \in 0..Len(s) /\ i # 0
      OBVIOUS
    <3> QED BY <2>1, <3>1
  <2> QED BY <2>2, <2>3 DEF RunningSum
<1>10. ASSUME NEW g, RunningSum(g, s) PROVE Total(s) = g[Len(s)]
  <2>1. \A i \in 0..Len(s) : sum[i] = g[i]
    <3>1. sum[0] = g[0] /\ Len(s) \in Nat
      BY <1>9, <1>10 DEF RunningSum
    <3>2. \A i \in 1..Len(s) : sum[i - 1] = g[i - 1] => sum[i] = g[i]
      BY <1>9, <1>10 DEF RunningSum
    <3> QED BY <3>1, <3>2, Agree
  <2> QED BY <1>8, <2>1
<1> QED BY <1>3, <1>5, <1>10

\* A new element is added to the sum.
LEMMA TotalAppend ==
  /\ Total(<<>>) = 0
  /\ \A s \in Seq(Int), x \in Int :
       Total(s) \in Int /\ Total(Append(s, x)) = Total(s) + x
<1>1. Total(<<>>) = 0
  <2> DEFINE f == [i \in 0..0 |-> 0]
  <2>1. RunningSum(f, <<>>)
    BY DEF RunningSum
  <2>2. <<>> \in Seq(Int) /\ Len(<<>>) = 0 /\ f[0] = 0
    OBVIOUS
  <2> HIDE DEF f
  <2> QED BY <2>1, <2>2, TotalOf
<1>2. ASSUME NEW s \in Seq(Int), NEW x \in Int
      PROVE  Total(s) \in Int /\ Total(Append(s, x)) = Total(s) + x
  <2> DEFINE t == Append(s, x)
             n == Len(s)
  <2>1. PICK f \in [0..n -> Int] : RunningSum(f, s)
    BY TotalOf
  <2>2. Total(s) = f[n] /\ f[n] \in Int
    BY <2>1, TotalOf
  <2>3. n \in Nat /\ t \in Seq(Int) /\ Len(t) = n + 1
    OBVIOUS
  <2>4. t[n + 1] = x /\ \A i \in 1..n : t[i] = s[i]
    OBVIOUS
  <2> DEFINE g == [i \in 0..(n + 1) |-> IF i = n + 1 THEN f[n] + x ELSE f[i]]
  <2>5. RunningSum(g, t)
    <3>1. g[0] = 0
      BY <2>1, <2>3 DEF RunningSum
    <3>2. ASSUME NEW i \in 1..(n + 1) PROVE g[i] = g[i - 1] + t[i]
      <4>1. CASE i = n + 1
        BY <4>1, <2>3, <2>4
      <4>2. CASE i \in 1..n
        BY <4>2, <2>1, <2>4 DEF RunningSum
      <4> QED BY <4>1, <4>2, <2>3
    <3> HIDE DEF g, t
    <3> QED BY <3>1, <3>2, <2>3 DEF RunningSum
  <2>6. g[n + 1] = f[n] + x
    BY <2>3
  <2> HIDE DEF g
  <2>7. Total(t) = g[Len(t)]
    BY <2>3, <2>5, TotalOf
  <2> QED BY <2>2, <2>3, <2>6, <2>7
<1> QED BY <1>1, <1>2

-----------------------------------------------------------------------------
\* f is the choice of the elements of s that are in keep, as far as each
\* position.
RunningChoice(f, s, keep) ==
  /\ f[0] = <<>>
  /\ \A i \in 1..Len(s) :
       f[i] = IF s[i] \in keep THEN Append(f[i - 1], s[i]) ELSE f[i - 1]

\* Among is what the running choice ends with.
LEMMA AmongOf ==
  ASSUME NEW S, NEW s \in Seq(S), NEW keep
  PROVE  /\ \E f \in [0..Len(s) -> Seq(S)] : RunningChoice(f, s, keep)
         /\ \A f : RunningChoice(f, s, keep) => Among(s, keep) = f[Len(s)]
<1> DEFINE Is(f) == f = [i \in 0..Len(s) |->
                           IF i = 0 THEN <<>>
                           ELSE IF s[i] \in keep THEN Append(f[i - 1], s[i])
                           ELSE f[i - 1]]
           step == [i \in 1..Len(s) |-> [v \in Seq(S) |->
                      IF s[i] \in keep THEN Append(v, s[i]) ELSE v]]
           kept == CHOOSE f : Is(f)
<1>1. step \in StepFunctions(Len(s), Seq(S))
  BY DEF StepFunctions
<1>2. PICK f : Follows(f, Len(s), Seq(S), <<>>, step)
  <2>1. Len(s) \in Nat /\ <<>> \in Seq(S)
    OBVIOUS
  <2> HIDE DEF step
  <2> QED BY <1>1, <2>1, Recursion
<1>3. f \in [0..Len(s) -> Seq(S)] /\ f[0] = <<>>
  BY <1>2 DEF Follows
<1>4. ASSUME NEW i \in 1..Len(s)
      PROVE  f[i] = IF s[i] \in keep THEN Append(f[i - 1], s[i]) ELSE f[i - 1]
  <2>1. i - 1 \in 0..Len(s)
    OBVIOUS
  <2>2. f[i - 1] \in Seq(S)
    <3> HIDE DEF Is
    <3> QED BY <1>3, <2>1, Zenon
  <2>3. f[i] = step[i][f[i - 1]]
    BY <1>2 DEF Follows
  <2> QED BY <2>2, <2>3
<1>5. RunningChoice(f, s, keep)
  BY <1>3, <1>4 DEF RunningChoice
<1>6. Is(f)
  <2>1. \A i \in 0..Len(s) :
          f[i] = IF i = 0 THEN <<>>
                 ELSE IF s[i] \in keep THEN Append(f[i - 1], s[i])
                 ELSE f[i - 1]
    <3> TAKE i \in 0..Len(s)
    <3>1. CASE i = 0
      BY <3>1, <1>3
    <3>2. CASE i \in 1..Len(s)
      BY <3>2, <1>4
    <3> QED BY <3>1, <3>2
  <2> QED BY <1>3, <2>1
<1>7. Is(kept)
  <2> HIDE DEF Is
  <2> QED BY <1>6, Zenon
<1>8. Among(s, keep) = kept[Len(s)]
  BY DEF Among
<1> HIDE DEF kept
<1>9. RunningChoice(kept, s, keep)
  <2>1. kept = [i \in 0..Len(s) |->
                  IF i = 0 THEN <<>>
                  ELSE IF s[i] \in keep THEN Append(kept[i - 1], s[i])
                  ELSE kept[i - 1]]
    BY <1>7
  <2>2. kept[0] = <<>>
    BY <2>1
  <2>3. ASSUME NEW i \in 1..Len(s)
        PROVE  kept[i] = IF s[i] \in keep THEN Append(kept[i - 1], s[i])
                         ELSE kept[i - 1]
    <3>1. i \in 0..Len(s) /\ i # 0
      OBVIOUS
    <3> QED BY <2>1, <3>1
  <2> QED BY <2>2, <2>3 DEF RunningChoice
<1>10. ASSUME NEW g, RunningChoice(g, s, keep)
       PROVE  Among(s, keep) = g[Len(s)]
  <2>1. \A i \in 0..Len(s) : kept[i] = g[i]
    <3>1. kept[0] = g[0] /\ Len(s) \in Nat
      BY <1>9, <1>10 DEF RunningChoice
    <3>2. \A i \in 1..Len(s) : kept[i - 1] = g[i - 1] => kept[i] = g[i]
      BY <1>9, <1>10 DEF RunningChoice
    <3> QED BY <3>1, <3>2, Agree
  <2> QED BY <1>8, <2>1
<1> QED BY <1>3, <1>5, <1>10

\* Nothing is chosen from nothing.
LEMMA AmongEmpty ==
  ASSUME NEW keep
  PROVE  Among(<<>>, keep) = <<>>
<1> DEFINE f == [i \in 0..0 |-> <<>>]
<1>1. RunningChoice(f, <<>>, keep)
  BY DEF RunningChoice
<1>2. <<>> \in Seq({}) /\ Len(<<>>) = 0 /\ f[0] = <<>>
  OBVIOUS
<1> HIDE DEF f
<1> QED BY <1>1, <1>2, AmongOf

\* Among makes a sequence of elements of s.
LEMMA AmongType ==
  ASSUME NEW S, NEW s \in Seq(S), NEW keep
  PROVE  Among(s, keep) \in Seq(S)
BY AmongOf

\* A last element is chosen after the others.
LEMMA AmongAppend ==
  ASSUME NEW S, NEW s \in Seq(S), NEW x \in S, NEW keep
  PROVE  Among(Append(s, x), keep) =
           IF x \in keep THEN Append(Among(s, keep), x) ELSE Among(s, keep)
<1> DEFINE t == Append(s, x)
           n == Len(s)
           last(v) == IF x \in keep THEN Append(v, x) ELSE v
<1>1. PICK f \in [0..n -> Seq(S)] : RunningChoice(f, s, keep)
  BY AmongOf
<1>2. Among(s, keep) = f[n]
  BY <1>1, AmongOf
<1>3. n \in Nat /\ t \in Seq(S) /\ Len(t) = n + 1
  OBVIOUS
<1>4. t[n + 1] = x /\ \A i \in 1..n : t[i] = s[i]
  OBVIOUS
<1> DEFINE g == [i \in 0..(n + 1) |-> IF i = n + 1 THEN last(f[n]) ELSE f[i]]
<1> HIDE DEF last, t, n
<1>5. RunningChoice(g, t, keep)
  <2>1. g[0] = <<>>
    BY <1>1, <1>3 DEF RunningChoice
  <2>2. ASSUME NEW i \in 1..(n + 1)
        PROVE  g[i] = IF t[i] \in keep THEN Append(g[i - 1], t[i])
                      ELSE g[i - 1]
    <3>1. CASE i = n + 1
      <4>1. g[i] = last(f[n]) /\ g[i - 1] = f[n] /\ t[i] = x
        BY <3>1, <1>3, <1>4
      <4> QED BY <4>1 DEF last
    <3>2. CASE i \in 1..n
      <4>1. g[i] = f[i] /\ g[i - 1] = f[i - 1] /\ t[i] = s[i]
        BY <3>2, <1>3, <1>4
      <4>2. f[i] = IF s[i] \in keep THEN Append(f[i - 1], s[i]) ELSE f[i - 1]
        BY <3>2, <1>1 DEF RunningChoice, n
      <4> QED BY <4>1, <4>2
    <3> QED BY <3>1, <3>2, <1>3
  <2> HIDE DEF g
  <2> QED BY <2>1, <2>2, <1>3 DEF RunningChoice
<1>6. g[n + 1] = last(f[n])
  BY <1>3
<1> HIDE DEF g
<1>7. Among(t, keep) = g[Len(t)]
  BY <1>3, <1>5, AmongOf
<1> QED BY <1>2, <1>3, <1>6, <1>7 DEF last, t

\* A last element is one more element.
LEMMA RangeAppend ==
  ASSUME NEW S, NEW s \in Seq(S), NEW x \in S
  PROVE  Range(Append(s, x)) = Range(s) \cup {x}
<1>1. \A i \in 1..Len(s) : Append(s, x)[i] = s[i]
  OBVIOUS
<1>2. Append(s, x)[Len(s) + 1] = x /\ Len(s) + 1 \in DOMAIN Append(s, x)
  OBVIOUS
<1>3. DOMAIN Append(s, x) = DOMAIN s \cup {Len(s) + 1}
  OBVIOUS
<1>4. DOMAIN s = 1..Len(s)
  OBVIOUS
<1> QED BY <1>1, <1>2, <1>3, <1>4 DEF Range

\* Among chooses exactly the elements that are in keep.
LEMMA AmongElements ==
  ASSUME NEW S, NEW keep
  PROVE  \A s \in Seq(S) :
           /\ Len(Among(s, keep)) <= Len(s)
           /\ Range(Among(s, keep)) = Range(s) \cap keep
<1> DEFINE T == {s \in Seq(S) : /\ Len(Among(s, keep)) <= Len(s)
                                /\ Range(Among(s, keep)) = Range(s) \cap keep}
<1>1. <<>> \in T
  <2>1. Among(<<>>, keep) = <<>>
    BY AmongEmpty
  <2>2. Range(<<>>) = {} /\ <<>> \in Seq(S)
    BY DEF Range
  <2> QED BY <2>1, <2>2
<1>2. ASSUME NEW s \in Seq(S), NEW x \in S, s \in T PROVE Append(s, x) \in T
  <2> DEFINE a == Among(s, keep)
  <2>1. a \in Seq(S) /\ Append(s, x) \in Seq(S)
    BY AmongType
  <2>2. Len(a) <= Len(s) /\ Range(a) = Range(s) \cap keep
    BY <1>2
  <2>3. \A t \in Seq(S) : Range(Append(t, x)) = Range(t) \cup {x}
    BY RangeAppend
  <2>4. CASE x \in keep
    <3>1. Among(Append(s, x), keep) = Append(a, x)
      BY <2>4, AmongAppend
    <3>2. Len(Append(a, x)) <= Len(Append(s, x))
      BY <2>1, <2>2
    <3>3. Range(Append(a, x)) = Range(Append(s, x)) \cap keep
      BY <2>1, <2>2, <2>3, <2>4
    <3> QED BY <2>1, <3>1, <3>2, <3>3
  <2>5. CASE x \notin keep
    <3>1. Among(Append(s, x), keep) = a
      BY <2>5, AmongAppend
    <3>2. Len(a) <= Len(Append(s, x))
      BY <2>1, <2>2
    <3>3. Range(a) = Range(Append(s, x)) \cap keep
      BY <2>1, <2>2, <2>3, <2>5
    <3> QED BY <2>1, <3>1, <3>2, <3>3
  <2> QED BY <2>4, <2>5
<1>3. \A s \in Seq(S) : s \in T
  <2> HIDE DEF T
  <2> QED BY <1>1, <1>2, SeqSetInduction
<1> QED BY <1>3

\* Every two elements of s, the earlier one first, are related by R.
Ordered(s, R) ==
  \A i, j \in DOMAIN s : i < j => <<s[i], s[j]>> \in R

\* A last element that comes after all the others.
LEMMA AppendOrdered ==
  ASSUME NEW S, NEW s \in Seq(S), NEW x \in S, NEW R,
         Ordered(s, R), \A y \in Range(s) : <<y, x>> \in R
  PROVE  Ordered(Append(s, x), R)
<1> DEFINE t == Append(s, x)
<1>1. ASSUME NEW i \in DOMAIN t, NEW j \in DOMAIN t, i < j
      PROVE  <<t[i], t[j]>> \in R
  <2>1. CASE j = Len(s) + 1
    <3>1. i \in 1..Len(s) /\ t[i] = s[i] /\ t[j] = x
      BY <1>1, <2>1
    <3>2. s[i] \in Range(s)
      BY <3>1 DEF Range
    <3> HIDE DEF t
    <3> QED BY <3>1, <3>2
  <2>2. CASE j # Len(s) + 1
    <3>1. i \in DOMAIN s /\ j \in DOMAIN s /\ t[i] = s[i] /\ t[j] = s[j]
      BY <1>1, <2>2
    <3> HIDE DEF t
    <3> QED BY <1>1, <3>1 DEF Ordered
  <2> QED BY <2>1, <2>2
<1> HIDE DEF t
<1>2. Ordered(t, R)
  BY <1>1 DEF Ordered
<1> QED BY <1>2 DEF t

\* The head of a sequence comes before the others, and they keep their order.
LEMMA TailOrdered ==
  ASSUME NEW S, NEW s \in Seq(S), NEW R, Ordered(s, R), s # <<>>
  PROVE  /\ Ordered(Tail(s), R)
         /\ Range(Tail(s)) \subseteq Range(s) /\ Head(s) \in Range(s)
         /\ \A y \in Range(Tail(s)) : <<Head(s), y>> \in R
         /\ Range(s) \subseteq Range(Tail(s)) \cup {Head(s)}
<1> DEFINE t == Tail(s)
<1>1. /\ DOMAIN t = 1..(Len(s) - 1) /\ Len(s) \in Nat /\ DOMAIN s = 1..Len(s)
      /\ 1 \in DOMAIN s /\ Head(s) = s[1]
  OBVIOUS
<1>2. \A i \in DOMAIN t : t[i] = s[i + 1]
  OBVIOUS
<1> HIDE DEF t
<1>3. \A i \in DOMAIN t : i + 1 \in DOMAIN s /\ 1 < i + 1
  BY <1>1
<1>4. Range(t) \subseteq Range(s) /\ Head(s) \in Range(s)
  BY <1>1, <1>2, <1>3 DEF Range
<1>5. \A y \in Range(t) : <<Head(s), y>> \in R
  <2> TAKE y \in Range(t)
  <2>1. PICK i \in DOMAIN t : y = t[i]
    BY DEF Range
  <2> QED BY <1>1, <1>2, <1>3, <2>1 DEF Ordered
<1>6. Ordered(t, R)
  <2> SUFFICES ASSUME NEW i \in DOMAIN t, NEW j \in DOMAIN t, i < j
               PROVE  <<t[i], t[j]>> \in R
    BY DEF Ordered
  <2>1. i + 1 < j + 1
    BY <1>1
  <2> QED BY <1>2, <1>3, <2>1 DEF Ordered
<1>7. Range(s) \subseteq Range(t) \cup {Head(s)}
  <2> SUFFICES ASSUME NEW i \in DOMAIN s, i # 1 PROVE s[i] \in Range(t)
    BY <1>1 DEF Range
  <2>1. i - 1 \in DOMAIN t /\ (i - 1) + 1 = i
    BY <1>1
  <2> QED BY <1>2, <2>1 DEF Range
<1> QED BY <1>4, <1>5, <1>6, <1>7 DEF t

\* Among keeps the order.
LEMMA AmongOrdered ==
  ASSUME NEW S, NEW keep, NEW R
  PROVE  \A s \in Seq(S) : Ordered(s, R) => Ordered(Among(s, keep), R)
<1> DEFINE T == {s \in Seq(S) : Ordered(s, R) => Ordered(Among(s, keep), R)}
<1>1. <<>> \in T
  <2>1. Among(<<>>, keep) = <<>> /\ Ordered(<<>>, R)
    BY AmongEmpty DEF Ordered
  <2> QED BY <2>1
<1>2. ASSUME NEW s \in Seq(S), NEW x \in S, s \in T PROVE Append(s, x) \in T
  <2> DEFINE a == Among(s, keep)
             t == Append(s, x)
  <2> SUFFICES ASSUME Ordered(t, R) PROVE Ordered(Among(t, keep), R)
    OBVIOUS
  <2>1. a \in Seq(S) /\ Range(a) = Range(s) \cap keep
    BY AmongType, AmongElements
  <2>2. \A i \in 1..Len(s) : <<s[i], x>> \in R
    <3> TAKE i \in 1..Len(s)
    <3>1. i \in DOMAIN t /\ Len(s) + 1 \in DOMAIN t /\ i < Len(s) + 1
      OBVIOUS
    <3>2. t[i] = s[i] /\ t[Len(s) + 1] = x
      OBVIOUS
    <3> HIDE DEF t
    <3> QED BY <3>1, <3>2 DEF Ordered
  <2>3. Ordered(s, R)
    <3> SUFFICES ASSUME NEW i \in DOMAIN s, NEW j \in DOMAIN s, i < j
                 PROVE  <<s[i], s[j]>> \in R
      BY DEF Ordered
    <3>1. i \in DOMAIN t /\ j \in DOMAIN t /\ t[i] = s[i] /\ t[j] = s[j]
      OBVIOUS
    <3> HIDE DEF t
    <3> QED BY <3>1 DEF Ordered
  <2>4. Ordered(a, R)
    BY <1>2, <2>3
  <2>5. \A y \in Range(a) : <<y, x>> \in R
    <3> TAKE y \in Range(a)
    <3>1. y \in Range(s)
      BY <2>1
    <3>2. PICK k \in 1..Len(s) : s[k] = y
      BY <3>1 DEF Range
    <3> QED BY <2>2, <3>2
  <2>6. CASE x \in keep
    <3>1. Among(t, keep) = Append(a, x)
      BY <2>6, AmongAppend
    <3> HIDE DEF a
    <3> QED BY <2>1, <2>4, <2>5, <3>1, AppendOrdered
  <2>7. CASE x \notin keep
    <3>1. Among(t, keep) = a
      BY <2>7, AmongAppend
    <3> QED BY <3>1, <2>4
  <2> QED BY <2>6, <2>7
<1>3. \A s \in Seq(S) : s \in T
  <2> HIDE DEF T
  <2> QED BY <1>1, <1>2, SeqSetInduction
<1> QED BY <1>3

\* It does not matter which end of a sequence grows first.
LEMMA ConsAppend ==
  ASSUME NEW S, NEW t \in Seq(S), NEW x \in S, NEW y \in S
  PROVE  <<x>> \o Append(t, y) = Append(<<x>> \o t, y)
OBVIOUS

\* A first element is chosen before the others.
LEMMA AmongCons ==
  ASSUME NEW S, NEW keep, NEW x \in S
  PROVE  \A s \in Seq(S) :
           Among(<<x>> \o s, keep) =
             IF x \in keep THEN <<x>> \o Among(s, keep) ELSE Among(s, keep)
<1> DEFINE first == IF x \in keep THEN <<x>> ELSE <<>>
           T == {s \in Seq(S) :
                   Among(<<x>> \o s, keep) = first \o Among(s, keep)}
<1>0. first \in Seq(S)
  OBVIOUS
<1>1. <<>> \in T
  <2>1. <<x>> \o <<>> = Append(<<>>, x) /\ <<>> \in Seq(S)
    OBVIOUS
  <2>2. Among(<<>>, keep) = <<>>
    BY AmongEmpty
  <2>3. Among(Append(<<>>, x), keep) = IF x \in keep THEN Append(<<>>, x)
                                       ELSE <<>>
    BY <2>1, <2>2, AmongAppend
  <2>4. Append(<<>>, x) = <<x>>
    OBVIOUS
  <2>5. first \o <<>> = first
    BY <1>0
  <2> QED BY <2>1, <2>2, <2>3, <2>4, <2>5
<1>2. ASSUME NEW s \in Seq(S), NEW y \in S, s \in T PROVE Append(s, y) \in T
  <2> DEFINE t == <<x>> \o s
             a == Among(s, keep)
  <2>1. t \in Seq(S) /\ Append(s, y) \in Seq(S)
    OBVIOUS
  <2>2. <<x>> \o Append(s, y) = Append(t, y)
    BY ConsAppend
  <2>3. a \in Seq(S) /\ Among(t, keep) = first \o a
    BY <1>2, AmongType
  <2>4. first \o Append(a, y) = Append(first \o a, y)
    <3> HIDE DEF first, a
    <3> QED BY <1>0, <2>3
  <2>5. Among(Append(t, y), keep) = IF y \in keep THEN Append(first \o a, y)
                                    ELSE first \o a
    <3> HIDE DEF t
    <3> QED BY <2>1, <2>3, AmongAppend
  <2>6. Among(Append(s, y), keep) = IF y \in keep THEN Append(a, y) ELSE a
    BY AmongAppend
  <2>7. Among(Append(t, y), keep) = first \o Among(Append(s, y), keep)
    <3> HIDE DEF t, first, a
    <3> QED BY <2>4, <2>5, <2>6
  <2> HIDE DEF t, first
  <2> QED BY <2>1, <2>2, <2>7
<1>3. \A s \in Seq(S) : s \in T
  <2> HIDE DEF T
  <2> QED BY <1>1, <1>2, SeqSetInduction
<1>4. \A s \in Seq(S) : Among(s, keep) \in Seq(S)
  BY AmongType
<1>5. \A s \in Seq(S) : <<>> \o Among(s, keep) = Among(s, keep)
  BY <1>4
<1> QED BY <1>3, <1>5

-----------------------------------------------------------------------------
\* What the elements of s weigh together.
Weigh(s, w) == Total([i \in DOMAIN s |-> w[s[i]]])

\* Nothing weighs nothing, and each element adds its weight.
LEMMA WeighAppend ==
  ASSUME NEW S, NEW w \in [S -> Nat], NEW s \in Seq(S), NEW x \in S
  PROVE  /\ Weigh(<<>>, w) = 0
         /\ Weigh(s, w) \in Int
         /\ Weigh(Append(s, x), w) = Weigh(s, w) + w[x]
<1> DEFINE t == Append(s, x)
           ws == [i \in DOMAIN s |-> w[s[i]]]
           wt == [i \in DOMAIN t |-> w[t[i]]]
<1>1. [i \in DOMAIN <<>> |-> w[<<>>[i]]] = <<>>
  OBVIOUS
<1>2. ws \in Seq(Int) /\ w[x] \in Int
  OBVIOUS
<1>3. wt = Append(ws, w[x])
  <2>1. DOMAIN t = 1..(Len(s) + 1) /\ Len(ws) = Len(s) /\ Len(s) \in Nat
    OBVIOUS
  <2>2. \A i \in 1..Len(s) : t[i] = s[i] /\ ws[i] = w[s[i]]
    OBVIOUS
  <2>3. t[Len(s) + 1] = x
    OBVIOUS
  <2> DEFINE u == Append(ws, w[x])
  <2>4. DOMAIN u = 1..(Len(s) + 1) /\ u[Len(s) + 1] = w[x]
        /\ \A i \in 1..Len(s) : u[i] = ws[i]
    <3>1. \A v \in Seq(Int), z \in Int :
            /\ DOMAIN Append(v, z) = 1..(Len(v) + 1)
            /\ Append(v, z)[Len(v) + 1] = z
            /\ \A i \in 1..Len(v) : Append(v, z)[i] = v[i]
      OBVIOUS
    <3> HIDE DEF ws
    <3> QED BY <1>2, <2>1, <3>1
  <2>5. u \in Seq(Int)
    <3> HIDE DEF ws
    <3> QED BY <1>2
  <2>6. \A i \in DOMAIN t : wt[i] = u[i]
    <3> TAKE i \in DOMAIN t
    <3>1. wt[i] = w[t[i]]
      OBVIOUS
    <3> HIDE DEF wt, u, t, ws
    <3>2. CASE i = Len(s) + 1
      BY <3>1, <3>2, <2>3, <2>4
    <3>3. CASE i \in 1..Len(s)
      BY <3>1, <3>3, <2>2, <2>4
    <3> QED BY <2>1, <3>2, <3>3
  <2>7. wt = [i \in DOMAIN t |-> u[i]]
    <3> HIDE DEF u, t
    <3> QED BY <2>6
  <2>8. u = [i \in DOMAIN u |-> u[i]]
    <3> HIDE DEF u
    <3> QED BY <2>5
  <2> HIDE DEF wt, u, t
  <2> QED BY <2>1, <2>4, <2>7, <2>8 DEF u
<1> HIDE DEF ws, wt
<1>4. Total(ws) \in Int /\ Total(Append(ws, w[x])) = Total(ws) + w[x]
  BY <1>2, TotalAppend
<1>5. Total(<<>>) = 0
  BY TotalAppend
<1> QED BY <1>1, <1>3, <1>4, <1>5 DEF Weigh, ws, wt

\* Weights are never negative, and a choice weighs no more than the whole.
LEMMA WeighAmong ==
  ASSUME NEW S, NEW w \in [S -> Nat], NEW keep
  PROVE  \A s \in Seq(S) : /\ Weigh(s, w) \in Nat
                           /\ Weigh(Among(s, keep), w) <= Weigh(s, w)
<1> DEFINE T == {s \in Seq(S) : /\ Weigh(s, w) \in Nat
                                /\ Weigh(Among(s, keep), w) <= Weigh(s, w)}
<1>1. <<>> \in T
  <2>1. Among(<<>>, keep) = <<>>
    BY AmongEmpty
  <2>2. Weigh(<<>>, w) = 0
    <3>1. [i \in DOMAIN <<>> |-> w[<<>>[i]]] = <<>>
      OBVIOUS
    <3> QED BY <3>1, TotalAppend DEF Weigh
  <2>3. <<>> \in Seq(S)
    OBVIOUS
  <2> QED BY <2>1, <2>2, <2>3
<1>2. ASSUME NEW s \in Seq(S), NEW x \in S, s \in T PROVE Append(s, x) \in T
  <2> DEFINE a == Among(s, keep)
             t == Append(s, x)
  <2>1. a \in Seq(S) /\ t \in Seq(S) /\ w[x] \in Nat
    BY AmongType
  <2>2. Weigh(s, w) \in Nat /\ Weigh(a, w) <= Weigh(s, w)
    BY <1>2
  <2>3. Weigh(t, w) = Weigh(s, w) + w[x]
    BY WeighAppend
  <2> HIDE DEF a
  <2>4. Weigh(Append(a, x), w) = Weigh(a, w) + w[x] /\ Weigh(a, w) \in Int
    BY <2>1, WeighAppend
  <2>5. Among(t, keep) = IF x \in keep THEN Append(a, x) ELSE a
    BY AmongAppend DEF a
  <2>6. Weigh(Among(t, keep), w) <= Weigh(s, w) + w[x]
    <3>1. CASE x \in keep
      <4>1. Among(t, keep) = Append(a, x)
        BY <2>5, <3>1
      <4> HIDE DEF t
      <4> QED BY <2>1, <2>2, <2>4, <4>1
    <3>2. CASE x \notin keep
      <4>1. Among(t, keep) = a
        BY <2>5, <3>2
      <4> HIDE DEF t
      <4> QED BY <2>1, <2>2, <2>4, <4>1
    <3> QED BY <3>1, <3>2
  <2> HIDE DEF t
  <2>7. Weigh(t, w) \in Nat /\ Weigh(Among(t, keep), w) <= Weigh(t, w)
    BY <2>1, <2>2, <2>3, <2>6
  <2> QED BY <2>1, <2>7 DEF t
<1>3. \A s \in Seq(S) : s \in T
  <2> HIDE DEF T
  <2> QED BY <1>1, <1>2, SeqSetInduction
<1> QED BY <1>3

\* Without its first element a sequence is lighter by its weight.
LEMMA WeighTail ==
  ASSUME NEW S, NEW w \in [S -> Nat], NEW s \in Seq(S), s # <<>>
  PROVE  Weigh(s, w) = w[Head(s)] + Weigh(Tail(s), w)
<1> DEFINE T == {t \in Seq(S) : \A x \in S :
                   Weigh(<<x>> \o t, w) = w[x] + Weigh(t, w)}
<1>1. <<>> \in T
  <2> SUFFICES ASSUME NEW x \in S
               PROVE  Weigh(<<x>> \o <<>>, w) = w[x] + Weigh(<<>>, w)
    OBVIOUS
  <2>1. <<x>> \o <<>> = Append(<<>>, x) /\ <<>> \in Seq(S)
    OBVIOUS
  <2>2. Weigh(Append(<<>>, x), w) = Weigh(<<>>, w) + w[x] /\ Weigh(<<>>, w) = 0
    BY <2>1, WeighAppend
  <2> QED BY <2>1, <2>2
<1>2. ASSUME NEW t \in Seq(S), NEW y \in S, t \in T PROVE Append(t, y) \in T
  <2> SUFFICES ASSUME NEW x \in S
               PROVE  Weigh(<<x>> \o Append(t, y), w)
                        = w[x] + Weigh(Append(t, y), w)
    OBVIOUS
  <2> DEFINE u == <<x>> \o t
  <2>0. u \in Seq(S)
    OBVIOUS
  <2>1. <<x>> \o Append(t, y) = Append(u, y)
    BY ConsAppend
  <2>2. Weigh(u, w) = w[x] + Weigh(t, w)
    BY <1>2
  <2> HIDE DEF u
  <2>3. Weigh(Append(u, y), w) = Weigh(u, w) + w[y]
    BY <2>0, WeighAppend
  <2>4. Weigh(Append(t, y), w) = Weigh(t, w) + w[y] /\ Weigh(t, w) \in Int
    BY WeighAppend
  <2>5. w[x] \in Int /\ w[y] \in Int
    OBVIOUS
  <2> DEFINE v == Append(t, y)
  <2>6. Weigh(<<x>> \o v, w) = (w[x] + Weigh(t, w)) + w[y]
    BY <2>1, <2>2, <2>3
  <2> HIDE DEF v, T
  <2>7. (w[x] + Weigh(t, w)) + w[y] = w[x] + (Weigh(t, w) + w[y])
    BY <2>4, <2>5
  <2> QED BY <2>4, <2>6, <2>7 DEF v
<1>3. \A t \in Seq(S) : t \in T
  <2> HIDE DEF T
  <2> QED BY <1>1, <1>2, SeqSetInduction
<1>4. s = <<Head(s)>> \o Tail(s) /\ Head(s) \in S /\ Tail(s) \in Seq(S)
  OBVIOUS
<1> QED BY <1>3, <1>4
=============================================================================
