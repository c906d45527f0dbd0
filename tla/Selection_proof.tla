-------------------------- MODULE Selection_proof --------------------------
(***************************************************************************)
(* Facts about counting, about functions that recur over the numbers, and  *)
(* about Joined and Selected.  The induction theorems of the library take a predicate *)
(* as a parameter; here induction is done on the least number of a set,    *)
(* and a recursion on a function that stands for its step.                 *)
(***************************************************************************)
EXTENDS Selection, SequenceTheorems, WellFoundedInduction, TLAPS

\* Less-than is well-founded, as a set of pairs.
LEMMA LessThan == IsWellFoundedOn({ss \in Nat \X Nat : ss[1] < ss[2]}, Nat)
BY NatLessThanWellFounded, Zenon DEF OpToRel

\* A set of numbers has a least one.
LEMMA LeastNumber ==
  ASSUME NEW T \in SUBSET Nat, T # {}
  PROVE  \E x \in T : \A y \in T : x <= y
<1> DEFINE R == {ss \in Nat \X Nat : ss[1] < ss[2]}
<1>1. IsWellFoundedOn(R, Nat)
  BY LessThan
<1>2. PICK x \in T : \A y \in T : ~(<<y, x>> \in R)
  <2> HIDE DEF R
  <2>. QED BY <1>1, WFMin
<1>3. ASSUME NEW y \in T PROVE ~(y < x)
  <2>1. y < x => <<y, x>> \in R
    OBVIOUS
  <2>2. <<y, x>> \notin R
    BY <1>2
  <2> HIDE DEF R
  <2>. QED BY <2>1, <2>2
<1> HIDE DEF R
<1>. QED BY <1>3

\* A set that has zero, and the next number with every number, has all.
LEMMA CountsUp ==
  ASSUME NEW T, NEW n \in Nat, 0 \in T, \A i \in 1 .. n : i - 1 \in T => i \in T
  PROVE  \A i \in 0 .. n : i \in T
<1> DEFINE Missing == {i \in 0 .. n : i \notin T}
<1> SUFFICES ASSUME Missing # {} PROVE FALSE
  OBVIOUS
<1>1. PICK x \in Missing : \A y \in Missing : x <= y
  <2>1. Missing \in SUBSET Nat
    OBVIOUS
  <2> HIDE DEF Missing
  <2>. QED BY <2>1, LeastNumber
<1>2. x \in 1 .. n
  OBVIOUS
<1>3. x - 1 \in 0 .. n /\ x - 1 \notin Missing
  BY <1>1, <1>2
<1>. QED BY <1>2, <1>3

-----------------------------------------------------------------------------

\* f starts with a, and steps through the functions of D, to the number n.
Iterates(f, a, D, n, S) ==
  f \in [0 .. n -> S] /\ f[0] = a /\ \A i \in 1 .. n : f[i] = D[i][f[i - 1]]

LEMMA IterationExists ==
  ASSUME NEW S, NEW a \in S, NEW n \in Nat, NEW D \in [1 .. n -> [S -> S]]
  PROVE  \E f : Iterates(f, a, D, n, S)
<1> DEFINE T == {m \in 0 .. n : \E f \in [0 .. m -> S] : f[0] = a /\ \A i \in 1 .. m : f[i] = D[i][f[i - 1]]}
<1>1. 0 \in T
  <2> DEFINE f == [i \in 0 .. 0 |-> a]
  <2>1. f \in [0 .. 0 -> S] /\ f[0] = a /\ \A i \in 1 .. 0 : f[i] = D[i][f[i - 1]]
    OBVIOUS
  <2> HIDE DEF f
  <2>. QED BY <2>1
<1>2. ASSUME NEW m \in 1 .. n, m - 1 \in T PROVE m \in T
  <2>1. PICK g \in [0 .. m - 1 -> S] : g[0] = a /\ \A i \in 1 .. m - 1 : g[i] = D[i][g[i - 1]]
    BY <1>2
  <2> DEFINE h == [i \in 0 .. m |-> IF i = m THEN D[m][g[m - 1]] ELSE g[i]]
  <2>2. D[m][g[m - 1]] \in S
    OBVIOUS
  <2>3. h \in [0 .. m -> S] /\ h[0] = a
    BY <2>1, <2>2
  <2>4. \A i \in 1 .. m : h[i] = D[i][h[i - 1]]
    BY <2>1
  <2>5. \E f \in [0 .. m -> S] : f[0] = a /\ \A i \in 1 .. m : f[i] = D[i][f[i - 1]]
    <3> HIDE DEF h
    <3>. QED BY <2>3, <2>4
  <2>6. m \in 0 .. n
    OBVIOUS
  <2>. QED BY <2>5, <2>6, Zenon
<1> HIDE DEF T
<1>3. \A m \in 1 .. n : m - 1 \in T => m \in T
  BY <1>2
<1>4. \A m \in 0 .. n : m \in T
  BY <1>1, <1>3, CountsUp
<1>. QED BY <1>4 DEF T, Iterates

-----------------------------------------------------------------------------

\* A step of S repeated from a on, over all numbers, as a recursive function.
Repeats(f, a, D) == f = [i \in Nat |-> IF i = 0 THEN a ELSE D[f[i - 1]]]

LEMMA RepetitionExists ==
  ASSUME NEW S, NEW a \in S, NEW D \in [S -> S]
  PROVE  /\ \E f : Repeats(f, a, D)
         /\ \A f : Repeats(f, a, D) => f \in [Nat -> S]
<1> DEFINE Same(n) == [i \in 1 .. n |-> D]
           some(n) == CHOOSE f : Iterates(f, a, Same(n), n, S)
           h == [n \in Nat |-> some(n)[n]]
<1>1. ASSUME NEW n \in Nat
      PROVE  /\ some(n) \in [0 .. n -> S] /\ some(n)[0] = a
             /\ \A i \in 1 .. n : some(n)[i] = D[some(n)[i - 1]]
  <2>1. \E f : Iterates(f, a, Same(n), n, S)
    <3>1. Same(n) \in [1 .. n -> [S -> S]]
      OBVIOUS
    <3> HIDE DEF Same
    <3>. QED BY <3>1, IterationExists
  <2>2. Iterates(some(n), a, Same(n), n, S)
    <3> HIDE DEF Same
    <3>. QED BY <2>1
  <2> HIDE DEF some
  <2>. QED BY <2>2 DEF Iterates
<1> HIDE DEF some, Same
<1>2. ASSUME NEW n \in Nat PROVE some(n + 1)[n] = some(n)[n]
  <2> DEFINE T == {i \in 0 .. n : some(n + 1)[i] = some(n)[i]}
             p == some(n)
             q == some(n + 1)
  <2>1. /\ p[0] = a /\ q[0] = a /\ \A i \in 1 .. n : p[i] = D[p[i - 1]]
        /\ \A i \in 1 .. n : q[i] = D[q[i - 1]]
    <3>1. n + 1 \in Nat /\ \A i \in 1 .. n : i \in 1 .. n + 1
      OBVIOUS
    <3>2. q[0] = a /\ \A i \in 1 .. n + 1 : q[i] = D[q[i - 1]]
      BY <1>1, <3>1
    <3>. QED BY <1>1, <3>1, <3>2
  <2> HIDE DEF p, q
  <2>2. 0 \in T
    BY <2>1 DEF p, q
  <2>3. \A i \in 1 .. n : i - 1 \in T => i \in T
    <3>1. T = {i \in 0 .. n : q[i] = p[i]}
      BY DEF p, q
    <3> HIDE DEF T
    <3>. QED BY <2>1, <3>1
  <2>4. \A i \in 0 .. n : i \in T
    <3> HIDE DEF T
    <3>. QED BY <2>2, <2>3, CountsUp
  <2>. QED BY <2>4
<1>3. Repeats(h, a, D)
  <2>1. ASSUME NEW i \in Nat PROVE h[i] = IF i = 0 THEN a ELSE D[h[i - 1]]
    <3>1. CASE i = 0
      BY <1>1, <3>1
    <3>2. CASE i # 0
      <4>1. i - 1 \in Nat /\ (i - 1) + 1 = i /\ i \in 1 .. i
        BY <3>2
      <4>2. some(i)[i] = D[some(i)[i - 1]] /\ some(i)[i - 1] = some(i - 1)[i - 1]
        <5>1. some((i - 1) + 1)[i - 1] = some(i - 1)[i - 1]
          BY <1>2, <4>1
        <5>. QED BY <1>1, <4>1, <5>1
      <4>. QED BY <3>2, <4>1, <4>2
    <3>. QED BY <3>1, <3>2
  <2>2. h = [i \in Nat |-> h[i]]
    OBVIOUS
  <2> HIDE DEF h
  <2>. QED BY <2>1, <2>2 DEF Repeats
<1>4. ASSUME NEW f, Repeats(f, a, D) PROVE f \in [Nat -> S]
  <2>1. f = [i \in Nat |-> f[i]] /\ f[0] = a /\ \A i \in Nat \ {0} : f[i] = D[f[i - 1]]
    BY <1>4 DEF Repeats
  <2>2. ASSUME NEW n \in Nat PROVE f[n] \in S
    <3> DEFINE T == {i \in 0 .. n : f[i] \in S}
    <3>1. 0 \in T /\ \A i \in 1 .. n : i - 1 \in T => i \in T
      BY <2>1
    <3> HIDE DEF T
    <3>2. n \in T
      BY <3>1, CountsUp
    <3>. QED BY <3>2 DEF T
  <2>. QED BY <2>1, <2>2
<1>. QED BY <1>3, <1>4

-----------------------------------------------------------------------------

\* Concatenation under a name of its own: the provers take \o apart, and a
\* law of \o is easier to use on long terms while they cannot.
Join(s, t) == s \o t

LEMMA JoinAssociates ==
  ASSUME NEW S, NEW s \in Seq(S), NEW t \in Seq(S), NEW u \in Seq(S)
  PROVE  Join(s, t) \in Seq(S) /\ Join(s, Join(t, u)) = Join(Join(s, t), u)
BY ConcatProperties, ConcatAssociative DEF Join

LEMMA JoinNothing ==
  ASSUME NEW S, NEW s \in Seq(S)
  PROVE  Join(s, <<>>) = s /\ Join(<<>>, s) = s
BY ConcatEmptySeq DEF Join

\* The recursion of Joined is a function that obeys its equation.
Sums(f, parts, S) ==
  /\ f \in [0 .. Len(parts) -> Seq(S)]
  /\ f[0] = <<>>
  /\ \A i \in 1 .. Len(parts) : f[i] = Join(f[i - 1], parts[i])
  /\ Joined(parts) = f[Len(parts)]

LEMMA JoinedRecurs ==
  ASSUME NEW S, NEW parts \in Seq(Seq(S))
  PROVE  \E f : Sums(f, parts, S)
<1> DEFINE U == Seq(S)
           n == Len(parts)
           a == <<>>
           Add(i, s) == Join(s, parts[i])
           D == [i \in 1 .. n |-> [s \in U |-> Add(i, s)]]
           IsSum(f) == f = [i \in 0 .. n |-> IF i = 0 THEN a ELSE Add(i, f[i - 1])]
           sum == CHOOSE f : IsSum(f)
<1>1. n \in Nat /\ a \in U
  OBVIOUS
<1>2. \A i \in 1 .. n, s \in U : Add(i, s) \in U
  <2>1. \A i \in 1 .. n : parts[i] \in Seq(S)
    BY ElementOfSeq
  <2>. QED BY <2>1, JoinAssociates
<1>3. Joined(parts) = sum[n]
  BY DEF Joined, Join
<1> HIDE DEF U, n, a, Add
<1>4. D \in [1 .. n -> [U -> U]]
  BY <1>2
<1>5. PICK g : Iterates(g, a, D, n, U)
  <2> HIDE DEF D
  <2>. QED BY <1>1, <1>4, IterationExists
<1>6. \A i \in 1 .. n : g[i - 1] \in U /\ g[i] = Add(i, g[i - 1])
  <2>1. \A i \in 1 .. n : i - 1 \in 0 .. n /\ g[i - 1] \in U
    BY <1>1, <1>5 DEF Iterates
  <2>. QED BY <1>5, <2>1 DEF Iterates
<1>7. IsSum(g)
  BY <1>1, <1>5, <1>6 DEF Iterates
<1>8. IsSum(sum)
  BY <1>7
<1> HIDE DEF sum
<1>9. sum[0] = a /\ \A i \in 1 .. n : sum[i] = Add(i, sum[i - 1])
  BY <1>1, <1>8
<1>10. \A i \in 0 .. n : sum[i] \in U
  <2> DEFINE T == {i \in 0 .. n : sum[i] \in U}
  <2>1. 0 \in T
    BY <1>1, <1>9
  <2>2. ASSUME NEW i \in 1 .. n, i - 1 \in T PROVE i \in T
    <3>1. sum[i] = Add(i, sum[i - 1]) /\ sum[i - 1] \in U /\ i \in 0 .. n
      BY <1>1, <1>9, <2>2
    <3>. QED BY <1>2, <3>1
  <2> HIDE DEF T
  <2>3. \A i \in 0 .. n : i \in T
    BY <1>1, <2>1, <2>2, CountsUp
  <2>. QED BY <2>3 DEF T
<1>11. sum \in [0 .. n -> U]
  BY <1>8, <1>10
<1>12. Sums(sum, parts, S)
  BY <1>3, <1>9, <1>11 DEF Add, U, n, a, Sums
<1>. QED BY <1>12

LEMMA JoinedEmpty == Joined(<<>>) = <<>>
<1>1. <<>> \in Seq(Seq({})) /\ Len(<<>>) = 0
  OBVIOUS
<1>2. PICK f : Sums(f, <<>>, {})
  BY <1>1, JoinedRecurs
<1>. QED BY <1>1, <1>2 DEF Sums

LEMMA JoinedType ==
  ASSUME NEW S, NEW parts \in Seq(Seq(S))
  PROVE  Joined(parts) \in Seq(S)
<1>1. PICK f : Sums(f, parts, S)
  BY JoinedRecurs
<1>2. Len(parts) \in 0 .. Len(parts)
  OBVIOUS
<1>. QED BY <1>1, <1>2 DEF Sums

\* One more at the end is joined last.
LEMMA JoinedAppend ==
  ASSUME NEW S, NEW parts \in Seq(Seq(S)), NEW s \in Seq(S)
  PROVE  Joined(Append(parts, s)) = Join(Joined(parts), s)
<1> DEFINE r == Append(parts, s)
<1>1. /\ Len(parts) \in Nat /\ r \in Seq(Seq(S)) /\ Len(r) = Len(parts) + 1 /\ r[Len(parts) + 1] = s
      /\ \A i \in 1 .. Len(parts) : r[i] = parts[i]
  BY AppendProperties
<1> HIDE DEF r
<1>2. PICK f : Sums(f, parts, S)
  BY JoinedRecurs
<1>3. PICK g : Sums(g, r, S)
  BY <1>1, JoinedRecurs
<1>4. \A i \in 0 .. Len(parts) : g[i] = f[i]
  <2> DEFINE T == {i \in 0 .. Len(parts) : g[i] = f[i]}
  <2>1. 0 \in T
    BY <1>1, <1>2, <1>3 DEF Sums
  <2>2. ASSUME NEW i \in 1 .. Len(parts), i - 1 \in T PROVE i \in T
    <3>1. i \in 1 .. Len(r) /\ i \in 0 .. Len(parts) /\ r[i] = parts[i] /\ g[i - 1] = f[i - 1]
      BY <1>1, <2>2
    <3>2. g[i] = f[i]
      BY <1>2, <1>3, <3>1 DEF Sums
    <3>. QED BY <3>1, <3>2
  <2> HIDE DEF T
  <2>3. \A i \in 0 .. Len(parts) : i \in T
    BY <1>1, <2>1, <2>2, CountsUp
  <2>. QED BY <2>3 DEF T
<1>5. /\ Len(parts) + 1 \in 1 .. Len(r) /\ (Len(parts) + 1) - 1 = Len(parts) /\ g[Len(parts)] = f[Len(parts)]
      /\ Joined(r) = g[Len(parts) + 1]
  BY <1>1, <1>3, <1>4 DEF Sums
<1>6. g[Len(parts) + 1] = Join(g[Len(parts)], s)
  BY <1>1, <1>3, <1>5 DEF Sums
<1>. QED BY <1>2, <1>5, <1>6 DEF r, Sums

\* One sequence joined is itself.
LEMMA JoinedOne ==
  ASSUME NEW S, NEW s \in Seq(S)
  PROVE  Joined(<<s>>) = s
<1> DEFINE none == <<>>
<1>1. none \in Seq(Seq(S)) /\ Append(none, s) = <<s>>
  OBVIOUS
<1>2. Joined(Append(none, s)) = Join(Joined(none), s)
  <2> HIDE DEF none
  <2>. QED BY <1>1, JoinedAppend
<1>. QED BY <1>1, <1>2, JoinedEmpty, JoinNothing

\* What is joined of two sequences is joined of one after the other.
LEMMA JoinedConcat ==
  ASSUME NEW S, NEW p \in Seq(Seq(S)), NEW q \in Seq(Seq(S))
  PROVE  Joined(Join(p, q)) = Join(Joined(p), Joined(q))
<1> DEFINE Part(n) == SubSeq(q, 1, n)
           T == {n \in 0 .. Len(q) : Joined(Join(p, Part(n))) = Join(Joined(p), Joined(Part(n)))}
<1>0. Len(q) \in Nat
  OBVIOUS
<1>1. 0 \in T
  <2>1. Part(0) = <<>>
    BY SubSeqEmpty
  <2>2. Join(p, <<>>) = p /\ Join(Joined(p), <<>>) = Joined(p)
    BY JoinedType, JoinNothing
  <2>3. Joined(Join(p, Part(0))) = Join(Joined(p), Joined(Part(0)))
    BY <2>1, <2>2, JoinedEmpty, Zenon
  <2>4. 0 \in 0 .. Len(q)
    BY <1>0
  <2>. QED BY <2>3, <2>4
<1>2. ASSUME NEW n \in 1 .. Len(q), n - 1 \in T PROVE n \in T
  <2> DEFINE s == Part(n - 1)
             e == q[n]
  <2>1. s \in Seq(Seq(S)) /\ e \in Seq(S) /\ Join(p, s) \in Seq(Seq(S))
    <3>1. \A i \in 1 .. n - 1 : q[i] \in Seq(S)
      BY <1>0, ElementOfSeq
    <3>2. s \in Seq(Seq(S)) /\ e \in Seq(S)
      BY <1>0, <3>1, SubSeqProperties, ElementOfSeq
    <3>. QED BY <3>2, JoinAssociates
  <2>2. Part(n) = Append(s, e)
    BY <1>0, <2>1, SubSeqRecursiveSecond, AppendIsConcat
  <2>3. Joined(Join(p, s)) = Join(Joined(p), Joined(s))
    BY <1>2
  <2> HIDE DEF s, e
  <2>4. Join(p, Append(s, e)) = Append(Join(p, s), e)
    BY <2>1 DEF Join
  <2>5. /\ Joined(Append(Join(p, s), e)) = Join(Joined(Join(p, s)), e)
        /\ Joined(Append(s, e)) = Join(Joined(s), e)
    BY <2>1, JoinedAppend
  <2>6. Join(Joined(p), Join(Joined(s), e)) = Join(Join(Joined(p), Joined(s)), e)
    BY <2>1, JoinedType, JoinAssociates
  <2>7. Joined(Join(p, Part(n))) = Join(Joined(p), Joined(Part(n)))
    BY <2>2, <2>3, <2>4, <2>5, <2>6, Zenon
  <2>8. n \in 0 .. Len(q)
    BY <1>0
  <2>. QED BY <2>7, <2>8
<1>3. \A n \in 0 .. Len(q) : n \in T
  <2> HIDE DEF T
  <2>. QED BY <1>0, <1>1, <1>2, CountsUp
<1>4. Part(Len(q)) = q
  BY SubSeqFull
<1>5. Len(q) \in T
  BY <1>0, <1>3
<1>. QED BY <1>4, <1>5

-----------------------------------------------------------------------------

LEMMA PickedType ==
  ASSUME NEW S, NEW q \in Seq(S), NEW kind
  PROVE  Picked(q, kind) \in Seq(Seq(S \cap kind)) /\ Picked(q, kind) \in Seq(Seq(S))
<1> DEFINE P(m) == IF m \in kind THEN <<m>> ELSE <<>>
           U == Seq(S \cap kind)
           V == Seq(S)
<1>1. ASSUME NEW m \in S PROVE P(m) \in U /\ P(m) \in V
  <2>1. CASE m \in kind
    <3>1. m \in S \cap kind
      BY <2>1
    <3>2. <<m>> \in U /\ <<m>> \in V
      BY <3>1
    <3>. QED BY <2>1, <3>2
  <2>2. CASE m \notin kind
    BY <2>2
  <2>. QED BY <2>1, <2>2
<1>2. Len(q) \in Nat /\ \A i \in 1 .. Len(q) : q[i] \in S
  BY ElementOfSeq
<1>3. Picked(q, kind) = [i \in 1 .. Len(q) |-> P(q[i])]
  BY DEF Picked
<1> HIDE DEF P, U, V
<1>4. \A i \in 1 .. Len(q) : P(q[i]) \in U /\ P(q[i]) \in V
  BY <1>1, <1>2
<1>5. Picked(q, kind) \in Seq(U) /\ Picked(q, kind) \in Seq(V)
  BY <1>2, <1>3, <1>4
<1>. QED BY <1>5 DEF U, V

\* Nothing is selected from nothing, and the selection is of its kind.
LEMMA SelectedEmpty == ASSUME NEW kind PROVE Selected(<<>>, kind) = <<>>
<1>1. Picked(<<>>, kind) = <<>>
  BY DEF Picked
<1>. QED BY <1>1, JoinedEmpty DEF Selected

LEMMA SelectedType ==
  ASSUME NEW S, NEW q \in Seq(S), NEW kind
  PROVE  Selected(q, kind) \in Seq(S \cap kind) /\ Selected(q, kind) \in Seq(S)
BY PickedType, JoinedType DEF Selected

LEMMA SelectedOne ==
  ASSUME NEW m, NEW kind
  PROVE  Selected(<<m>>, kind) = IF m \in kind THEN <<m>> ELSE <<>>
<1> DEFINE s == IF m \in kind THEN <<m>> ELSE <<>>
<1>1. s \in Seq({m})
  <2>1. <<m>> \in Seq({m}) /\ <<>> \in Seq({m})
    OBVIOUS
  <2>. QED BY <2>1
<1>2. Picked(<<m>>, kind) = <<s>>
  BY DEF Picked
<1> HIDE DEF s
<1>3. Joined(<<s>>) = s
  BY <1>1, JoinedOne
<1>. QED BY <1>2, <1>3, Zenon DEF Selected, s

\* What is selected from two sequences is selected from one after the other.
LEMMA SelectedConcat ==
  ASSUME NEW S, NEW p \in Seq(S), NEW q \in Seq(S), NEW kind
  PROVE  Selected(p \o q, kind) = Selected(p, kind) \o Selected(q, kind)
<1>1. Picked(p \o q, kind) = Picked(p, kind) \o Picked(q, kind)
  BY DEF Picked
<1>2. Joined(Join(Picked(p, kind), Picked(q, kind))) = Join(Joined(Picked(p, kind)), Joined(Picked(q, kind)))
  <2> DEFINE a == Picked(p, kind)
             b == Picked(q, kind)
  <2>1. a \in Seq(Seq(S)) /\ b \in Seq(Seq(S))
    BY PickedType
  <2> HIDE DEF a, b
  <2>2. Joined(Join(a, b)) = Join(Joined(a), Joined(b))
    BY <2>1, JoinedConcat
  <2>. QED BY <2>2 DEF a, b
<1>. QED BY <1>1, <1>2, Zenon DEF Selected, Join

LEMMA SelectedJoin ==
  ASSUME NEW S, NEW p \in Seq(S), NEW q \in Seq(S), NEW kind
  PROVE  Selected(Join(p, q), kind) = Join(Selected(p, kind), Selected(q, kind))
BY SelectedConcat DEF Join
=============================================================================
