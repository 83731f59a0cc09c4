----------------------------- MODULE ListsProofs -----------------------------
(***************************************************************************)
(* Facts about the lists that the parsers build and join, and the two      *)
(* principles they rest on: what holds for 0 and passes from a number to   *)
(* the next holds up to N, and a function on 0..N may be defined at each   *)
(* place from the place before, or from a later one.                       *)
(***************************************************************************)
EXTENDS Lists, SequencesExt, WellFoundedInduction, FiniteSetTheorems, TLAPS

(* A set of numbers that is not empty has a least one.                     *)
LEMMA NatMin ==
  ASSUME NEW T \in SUBSET Nat, T # {}
  PROVE  \E m \in T : \A k \in T : m <= k
<1> DEFINE R == {ss \in Nat \X Nat : ss[1] < ss[2]}
<1>1. R = OpToRel(<, Nat) BY DEF OpToRel
<1>2. IsWellFoundedOn(R, Nat) BY <1>1, NatLessThanWellFounded
<1> HIDE DEF R
<1>3. PICK m \in T : \A y \in T : ~(<<y, m>> \in R) BY <1>2, WFMin
<1>4. ASSUME NEW k \in T PROVE m <= k
  <2>1. k < m => <<k, m>> \in R BY DEF R
  <2> QED BY <2>1, <1>3
<1> QED BY <1>4

(* It is the one that Min chooses.                                         *)
LEMMA MinIsLeast ==
  ASSUME NEW S \in SUBSET Nat, S # {}
  PROVE  Min(S) \in S /\ \A k \in S : Min(S) <= k
<1>1. \E m \in S : \A k \in S : m <= k BY NatMin
<1> QED BY <1>1 DEF Min

(* What holds for 0, and for each number when for the one before, holds    *)
(* up to N.                                                                *)
LEMMA UpTo ==
  ASSUME NEW N \in Nat, NEW T, 0 \in T,
         \A n \in 1..N : n - 1 \in T => n \in T
  PROVE  0..N \subseteq T
<1> DEFINE missing == (0..N) \ T
<1>1. CASE missing = {} BY <1>1
<1>2. CASE missing # {}
  <2>1. PICK m \in missing : \A k \in missing : m <= k
    <3>1. missing \in SUBSET Nat OBVIOUS
    <3> HIDE DEF missing
    <3> QED BY <1>2, <3>1, NatMin
  <2>2. m \in 1..N /\ m - 1 \in 0..N /\ m - 1 \notin missing BY <2>1
  <2> QED BY <2>2
<1> QED BY <1>1, <1>2

(* A function that starts with a and goes on, at each place, with a step   *)
(* from its value at the place before.                                     *)
Steps(N, V) == [1..N -> [V -> V]]
Iterates(f, N, V, a, step) ==
  f \in [0..N -> V] /\ f[0] = a /\ \A n \in 1..N : f[n] = step[n][f[n - 1]]

(* There is such a function for every start and all steps.                 *)
LEMMA Recursion ==
  ASSUME NEW N \in Nat, NEW V, NEW a \in V, NEW step \in Steps(N, V)
  PROVE  \E f : Iterates(f, N, V, a, step)
<1> USE DEF Steps, Iterates
<1> DEFINE Good(n, f) == f[0] = a /\ \A k \in 1..n : f[k] = step[k][f[k - 1]]
           T == {n \in 0..N : \E f \in [0..n -> V] : Good(n, f)}
<1>1. 0 \in T
  <2>1. [k \in 0..0 |-> a] \in [0..0 -> V] /\ Good(0, [k \in 0..0 |-> a]) OBVIOUS
  <2>2. \E f \in [0..0 -> V] : Good(0, f) BY <2>1
  <2> HIDE DEF Good
  <2> QED BY <2>2
<1>2. ASSUME NEW n \in 1..N, n - 1 \in T PROVE n \in T
  <2>1. PICK g \in [0..(n - 1) -> V] : Good(n - 1, g) BY <1>2
  <2> DEFINE f == [k \in 0..n |-> IF k = n THEN step[n][g[n - 1]] ELSE g[k]]
  <2>2. g[n - 1] \in V OBVIOUS
  <2>3. step[n][g[n - 1]] \in V BY <2>2
  <2>4. f \in [0..n -> V] BY <2>3
  <2>5. f[0] = a BY <2>1
  <2>6. ASSUME NEW k \in 1..n PROVE f[k] = step[k][f[k - 1]]
    <3>1. CASE k = n BY <3>1
    <3>2. CASE k # n
       <4>1. k \in 1..(n-1) /\ k - 1 # n /\ k - 1 \in 0..n BY <3>2
       <4>2. f[k] = g[k] /\ f[k-1] = g[k-1] BY <4>1, <3>2
       <4> QED BY <4>1, <4>2, <2>1
    <3> QED BY <3>1, <3>2
  <2>7. Good(n, f) BY <2>5, <2>6
  <2>8. \E h \in [0..n -> V] : Good(n, h) BY <2>4, <2>7
  <2> HIDE DEF Good
  <2> QED BY <2>8
<1>3. N \in T
  <2> HIDE DEF T
  <2>1. 0..N \subseteq T BY <1>1, <1>2, UpTo
  <2> QED BY <2>1
<1> QED BY <1>3

(* The lists that picking the places of s goes through.                    *)
Appends(f, s, places) ==
  /\ f[0] = <<>>
  /\ \A n \in 1..Len(s) : f[n] = IF n \in places THEN Append(f[n - 1], s[n]) ELSE f[n - 1]
  /\ Picked(s, places) = f[Len(s)]

(* Picking goes through such lists, of elements of s.                      *)
LEMMA PickedFunction ==
  ASSUME NEW A, NEW s \in Seq(A), NEW places
  PROVE  \E f \in [0..Len(s) -> Seq(A)] : Appends(f, s, places)
<1> DEFINE step == [n \in 1..Len(s) |-> [t \in Seq(A) |-> IF n \in places THEN Append(t, s[n]) ELSE t]]
           Body(f) == [n \in 0..Len(s) |-> IF n = 0 THEN <<>>
                         ELSE IF n \in places THEN Append(f[n - 1], s[n]) ELSE f[n - 1]]
           F == CHOOSE f : f = Body(f)
<1>1. step \in [1..Len(s) -> [Seq(A) -> Seq(A)]]
  OBVIOUS
<1>2. <<>> \in Seq(A) /\ Len(s) \in Nat OBVIOUS
<1>3. PICK g \in [0..Len(s) -> Seq(A)] : g[0] = <<>> /\ \A n \in 1..Len(s) : g[n] = step[n][g[n - 1]]
  <2> HIDE DEF step
  <2>1. step \in Steps(Len(s), Seq(A)) BY <1>1 DEF Steps
  <2>2. \E f : Iterates(f, Len(s), Seq(A), <<>>, step) BY <2>1, <1>2, Recursion
  <2> QED BY <2>2 DEF Iterates
<1>4. g = Body(g)
  <2>1. ASSUME NEW n \in 1..Len(s) PROVE g[n] = Body(g)[n]
    <3>1. n - 1 \in 0..Len(s) /\ g[n - 1] \in Seq(A) /\ n \in 0..Len(s) /\ n # 0 OBVIOUS
    <3>2. step[n][g[n - 1]] = IF n \in places THEN Append(g[n - 1], s[n]) ELSE g[n - 1]
      BY <3>1
    <3>3. g[n] = step[n][g[n - 1]] BY <1>3
    <3>4. Body(g)[n] = IF n \in places THEN Append(g[n - 1], s[n]) ELSE g[n - 1] BY <3>1
    <3> HIDE DEF step, Body
    <3> QED BY <3>2, <3>3, <3>4
  <2>2. ASSUME NEW n \in 0..Len(s) PROVE g[n] = Body(g)[n]
    <3>1. CASE n = 0
      <4>1. Body(g)[0] = <<>> BY <1>2
      <4> HIDE DEF Body
      <4> QED BY <3>1, <4>1, <1>3
    <3>2. CASE n # 0
      <4>1. n \in 1..Len(s) BY <3>2
      <4> HIDE DEF Body
      <4> QED BY <2>1, <4>1
    <3> QED BY <3>1, <3>2
  <2>3. Body(g) = [n \in 0..Len(s) |-> Body(g)[n]] OBVIOUS
  <2> HIDE DEF Body
  <2>4. g = [n \in 0..Len(s) |-> g[n]] OBVIOUS
  <2> QED BY <2>2, <2>3, <2>4
<1>5. F = Body(F)
  <2>1. \E f : f = Body(f) BY <1>4
  <2> QED BY <2>1, Zenon
<1>6. Picked(s, places) = F[Len(s)]
  BY DEF Picked
<1> HIDE DEF F
<1>7. F[0] = <<>> /\ \A n \in 1..Len(s) : F[n] = IF n \in places THEN Append(F[n - 1], s[n]) ELSE F[n - 1]
  <2>1. 0 \in 0..Len(s) /\ \A n \in 1..Len(s) : n \in 0..Len(s) /\ n # 0 BY <1>2
  <2>2. \A n \in 0..Len(s) : F[n] = Body(F)[n] BY <1>5
  <2> QED BY <2>1, <2>2
<1>8. F \in [0..Len(s) -> Seq(A)]
  <2> DEFINE T == {n \in 0..Len(s) : F[n] \in Seq(A)}
  <2>1. 0 \in T
     <3>1. F[0] \in Seq(A) BY <1>7, <1>2
     <3> QED BY <3>1, <1>2
  <2>2. ASSUME NEW n \in 1..Len(s), n - 1 \in T PROVE n \in T
     <3>1. F[n - 1] \in Seq(A) BY <2>2
     <3>2. s[n] \in A OBVIOUS
     <3>3. Append(F[n - 1], s[n]) \in Seq(A) BY <3>1, <3>2
     <3>4. F[n] = IF n \in places THEN Append(F[n - 1], s[n]) ELSE F[n - 1] BY <1>7
     <3>5. F[n] \in Seq(A) BY <3>1, <3>3, <3>4
     <3>6. n \in 0..Len(s) BY <1>2
     <3> QED BY <3>5, <3>6
  <2>3. 0..Len(s) \subseteq T
     <3> HIDE DEF T
     <3> QED BY <2>1, <2>2, <1>2, UpTo
  <2>4. F = [n \in 0..Len(s) |-> F[n]]
    BY <1>5
  <2> QED BY <2>3, <2>4
<1> QED BY <1>6, <1>7, <1>8 DEF Appends

(* What is picked are the elements of s at the places, and all of them.    *)
LEMMA PickedElements ==
  ASSUME NEW A, NEW s \in Seq(A), NEW places
  PROVE  /\ Picked(s, places) \in Seq(A)
         /\ \A k \in DOMAIN Picked(s, places) :
              \E i \in (1..Len(s)) \cap places : Picked(s, places)[k] = s[i]
         /\ \A i \in (1..Len(s)) \cap places :
              \E k \in DOMAIN Picked(s, places) : Picked(s, places)[k] = s[i]
<1>0. PICK f \in [0..Len(s) -> Seq(A)] : Appends(f, s, places) BY PickedFunction
<1>1. /\ f[0] = <<>>
      /\ \A n \in 1..Len(s) : f[n] = IF n \in places THEN Append(f[n - 1], s[n]) ELSE f[n - 1]
      /\ Picked(s, places) = f[Len(s)]
  BY <1>0 DEF Appends
<1> DEFINE Sound(n) == \A k \in 1..Len(f[n]) : \E i \in (1..n) \cap places : f[n][k] = s[i]
           Complete(n) == \A i \in (1..n) \cap places : \E k \in 1..Len(f[n]) : f[n][k] = s[i]
           T == {n \in 0..Len(s) : Sound(n) /\ Complete(n)}
<1>2. 0 \in T BY <1>1
<1>3. ASSUME NEW n \in 1..Len(s), n - 1 \in T PROVE n \in T
  <2>1. n \in 0..Len(s) /\ n - 1 \in 0..Len(s) /\ f[n - 1] \in Seq(A) /\ f[n] \in Seq(A) /\ s[n] \in A
    OBVIOUS
  <2>2. CASE n \in places
    <3>1. f[n] = Append(f[n - 1], s[n]) BY <1>1, <2>2
    <3>2. Len(f[n]) = Len(f[n - 1]) + 1 /\ f[n][Len(f[n])] = s[n]
          /\ \A k \in 1..Len(f[n - 1]) : f[n][k] = f[n - 1][k]
      BY <3>1, <2>1
    <3>3. ASSUME NEW k \in 1..Len(f[n]) PROVE \E i \in (1..n) \cap places : f[n][k] = s[i]
      <4>1. CASE k = Len(f[n]) BY <4>1, <3>2, <2>2
      <4>2. CASE k # Len(f[n])
        <5>1. k \in 1..Len(f[n - 1]) BY <4>2, <3>2, <2>1
        <5>2. PICK i \in (1..(n - 1)) \cap places : f[n - 1][k] = s[i] BY <5>1, <1>3
        <5>3. i \in (1..n) \cap places OBVIOUS
        <5> QED BY <5>1, <5>2, <5>3, <3>2
      <4> QED BY <4>1, <4>2
    <3>4. ASSUME NEW i \in (1..n) \cap places PROVE \E k \in 1..Len(f[n]) : f[n][k] = s[i]
      <4>1. CASE i = n
         <5>1. Len(f[n]) \in 1..Len(f[n]) BY <3>2, <2>1
         <5> QED BY <5>1, <4>1, <3>2
      <4>2. CASE i # n
        <5>1. i \in (1..(n - 1)) \cap places BY <4>2
        <5>2. PICK k \in 1..Len(f[n - 1]) : f[n - 1][k] = s[i] BY <5>1, <1>3
        <5>3. k \in 1..Len(f[n]) BY <3>2, <2>1
        <5> QED BY <5>2, <5>3, <3>2
      <4> QED BY <4>1, <4>2
    <3> QED BY <3>3, <3>4, <2>1
  <2>3. CASE n \notin places
    <3>1. f[n] = f[n - 1] BY <1>1, <2>3
    <3>2. (1..n) \cap places = (1..(n - 1)) \cap places BY <2>3
    <3>3. Sound(n) /\ Complete(n) BY <1>3, <3>1, <3>2, ZenonT(40)
    <3> QED BY <3>3, <2>1
  <2> QED BY <2>2, <2>3
<1>4. Len(s) \in T
  <2> HIDE DEF T
  <2>1. Len(s) \in Nat OBVIOUS
  <2>2. 0..Len(s) \subseteq T BY <2>1, <1>2, <1>3, UpTo
  <2> QED BY <2>1, <2>2
<1>5. DOMAIN f[Len(s)] = 1..Len(f[Len(s)]) OBVIOUS
<1> QED BY <1>1, <1>4, <1>5, ZenonT(40)

(* It is as long as there are places in s.                                 *)
LEMMA PickedLength ==
  ASSUME NEW A, NEW s \in Seq(A), NEW places
  PROVE  Len(Picked(s, places)) = Cardinality((1..Len(s)) \cap places)
<1>0. PICK f \in [0..Len(s) -> Seq(A)] : Appends(f, s, places) BY PickedFunction
<1>1. /\ f[0] = <<>>
      /\ \A n \in 1..Len(s) : f[n] = IF n \in places THEN Append(f[n - 1], s[n]) ELSE f[n - 1]
      /\ Picked(s, places) = f[Len(s)]
  BY <1>0 DEF Appends
<1> DEFINE T == {n \in 0..Len(s) : Len(f[n]) = Cardinality((1..n) \cap places)}
<1>2. 0 \in T
  <2>1. (1..0) \cap places = {} OBVIOUS
  <2>2. Len(f[0]) = Cardinality((1..0) \cap places) BY <2>1, <1>1, FS_EmptySet
  <2> QED BY <2>2
<1>3. ASSUME NEW n \in 1..Len(s), n - 1 \in T PROVE n \in T
  <2>1. n \in 0..Len(s) /\ n - 1 \in 0..Len(s) /\ f[n - 1] \in Seq(A) /\ f[n] \in Seq(A) /\ s[n] \in A
    OBVIOUS
  <2> DEFINE before == (1..(n - 1)) \cap places
  <2>0. IsFiniteSet(before)
    <3>1. IsFiniteSet(1..(n - 1)) BY FS_Interval
    <3> QED BY <3>1, FS_Subset
  <2>2. CASE n \in places
    <3>1. f[n] = Append(f[n - 1], s[n]) BY <1>1, <2>2
    <3>2. Len(f[n]) = Len(f[n - 1]) + 1 BY <3>1, <2>1
    <3>3. (1..n) \cap places = before \cup {n} BY <2>2
    <3>4. n \notin before OBVIOUS
    <3>5. Cardinality(before \cup {n}) = Cardinality(before) + 1
      <4> HIDE DEF before
      <4> QED BY <2>0, <3>4, FS_AddElement
    <3>6. Len(f[n - 1]) = Cardinality(before) BY <1>3
    <3>7. Len(f[n]) = Cardinality((1..n) \cap places) BY <3>2, <3>3, <3>5, <3>6
    <3> QED BY <3>7, <2>1
  <2>3. CASE n \notin places
    <3>1. f[n] = f[n - 1] BY <1>1, <2>3
    <3>2. (1..n) \cap places = before BY <2>3
    <3>3. Len(f[n]) = Cardinality((1..n) \cap places) BY <1>3, <3>1, <3>2
    <3> QED BY <3>3, <2>1
  <2> QED BY <2>2, <2>3
<1>4. Len(s) \in T
  <2> HIDE DEF T
  <2>1. Len(s) \in Nat OBVIOUS
  <2>2. 0..Len(s) \subseteq T BY <2>1, <1>2, <1>3, UpTo
  <2> QED BY <2>1, <2>2
<1> QED BY <1>1, <1>4

(* Picking every place gives s.                                            *)
LEMMA PickedAll ==
  ASSUME NEW A, NEW s \in Seq(A), NEW places, 1..Len(s) \subseteq places
  PROVE  Picked(s, places) = s
<1>0. PICK f \in [0..Len(s) -> Seq(A)] : Appends(f, s, places) BY PickedFunction
<1>1. /\ f[0] = <<>>
      /\ \A n \in 1..Len(s) : f[n] = IF n \in places THEN Append(f[n - 1], s[n]) ELSE f[n - 1]
      /\ Picked(s, places) = f[Len(s)]
  BY <1>0 DEF Appends
<1> DEFINE T == {n \in 0..Len(s) : Len(f[n]) = n /\ \A k \in 1..n : f[n][k] = s[k]}
<1>2. 0 \in T BY <1>1
<1>3. ASSUME NEW n \in 1..Len(s), n - 1 \in T PROVE n \in T
  <2>1. n \in 0..Len(s) /\ n - 1 \in 0..Len(s) /\ f[n - 1] \in Seq(A) /\ f[n] \in Seq(A) /\ s[n] \in A
    OBVIOUS
  <2>2. f[n] = Append(f[n - 1], s[n]) BY <1>1
  <2>3. Len(f[n - 1]) = n - 1 /\ \A k \in 1..(n - 1) : f[n - 1][k] = s[k] BY <1>3
  <2>4. Len(f[n]) = n BY <2>1, <2>2, <2>3
  <2>5. ASSUME NEW k \in 1..n PROVE f[n][k] = s[k]
    <3>1. CASE k = n BY <3>1, <2>1, <2>2, <2>3
    <3>2. CASE k # n BY <3>2, <2>1, <2>2, <2>3
    <3> QED BY <3>1, <3>2
  <2> QED BY <2>1, <2>4, <2>5
<1>4. Len(s) \in T
  <2> HIDE DEF T
  <2>1. Len(s) \in Nat OBVIOUS
  <2>2. 0..Len(s) \subseteq T BY <2>1, <1>2, <1>3, UpTo
  <2> QED BY <2>1, <2>2
<1>5. f[Len(s)] \in Seq(A) OBVIOUS
<1>6. Len(f[Len(s)]) = Len(s) /\ \A k \in 1..Len(s) : f[Len(s)][k] = s[k] BY <1>4
<1>7. f[Len(s)] = s BY <1>5, <1>6
<1> QED BY <1>1, <1>7

(* w is u and behind it v, element by element.                             *)
Joined(w, u, v) ==
  /\ Len(w) = Len(u) + Len(v) /\ Len(u) \in Nat /\ Len(v) \in Nat
  /\ \A j \in 1..Len(u) : w[j] = u[j]
  /\ \A k \in 1..Len(v) : w[Len(u) + k] = v[k]

(* So is what the standard modules call concatenation.                     *)
LEMMA Concat ==
  ASSUME NEW A, NEW u \in Seq(A), NEW v \in Seq(A)
  PROVE  Joined(u \o v, u, v)
BY DEF Joined

(* The lists that joining the lists of s goes through.                     *)
Joins(f, s) ==
  /\ f[0] = <<>>
  /\ \A n \in 1..Len(s) : f[n] = f[n - 1] \o s[n]
  /\ FlattenSeq(s) = f[Len(s)]

(* Joining goes through such lists.                                        *)
LEMMA FlattenFunction ==
  ASSUME NEW A, NEW s \in Seq(Seq(A))
  PROVE  \E f \in [0..Len(s) -> Seq(A)] : Joins(f, s)
<1>0. <<>> \in Seq(A) /\ Len(s) \in Nat OBVIOUS
<1>1. CASE Len(s) = 0
  <2>1. s = <<>> BY <1>1
  <2>2. FlattenSeq(s) = <<>> BY <2>1 DEF FlattenSeq
  <2> DEFINE f == [n \in 0..0 |-> <<>>]
  <2>3. f \in [0..Len(s) -> Seq(A)] BY <1>1, <1>0
  <2>4. Joins(f, s) BY <1>1, <2>2 DEF Joins
  <2> QED BY <2>3, <2>4
<1>2. CASE Len(s) # 0
  <2> DEFINE N == Len(s)
             step == [n \in 1..N |-> [t \in Seq(A) |-> t \o s[n]]]
             Body(f) == [i \in 1..Len(s) |-> IF i = 1 THEN s[i] ELSE f[i - 1] \o s[i]]
             F == CHOOSE f : f = Body(f)
  <2>0. N \in Nat /\ 1 \in 1..N BY <1>2
  <2>1. step \in Steps(N, Seq(A)) BY DEF Steps
  <2>2. PICK g : Iterates(g, N, Seq(A), <<>>, step)
    <3> HIDE DEF step, N
    <3> QED BY <2>0, <2>1, <1>0, Recursion
  <2>3. /\ g \in [0..N -> Seq(A)] /\ g[0] = <<>>
        /\ \A n \in 1..N : g[n] = g[n - 1] \o s[n]
    <3>1. g \in [0..N -> Seq(A)] /\ g[0] = <<>> BY <2>2 DEF Iterates
    <3>2. ASSUME NEW n \in 1..N PROVE g[n] = g[n - 1] \o s[n]
      <4>1. n - 1 \in 0..N BY <2>0
      <4>2. g[n - 1] \in Seq(A) BY <3>1, <4>1
      <4>3. g[n] = step[n][g[n - 1]]
        <5> HIDE DEF step, N
        <5> QED BY <2>2 DEF Iterates
      <4> QED BY <4>2, <4>3
    <3> QED BY <3>1, <3>2
  <2>31. 0 \in 0..N /\ 1 - 1 = 0 BY <2>0
  <2>32. g[1] = s[1]
    <3>1. g[1] = g[0] \o s[1] BY <2>0, <2>3, <2>31
    <3>2. s[1] \in Seq(A) BY <2>0
    <3>3. <<>> \o s[1] = s[1] BY <3>2
    <3> QED BY <3>1, <3>3, <2>3
  <2> DEFINE h == [i \in 1..N |-> g[i]]
  <2>4. h = Body(h)
    <3>1. ASSUME NEW i \in 1..N PROVE h[i] = Body(h)[i]
      <4>2. CASE i = 1 BY <4>2, <2>32
      <4>3. CASE i # 1
         <5>1. i - 1 \in 1..N BY <4>3
         <5> QED BY <4>3, <5>1, <2>3
      <4> QED BY <4>2, <4>3
    <3>2. Body(h) = [i \in 1..N |-> Body(h)[i]] OBVIOUS
    <3>3. h = [i \in 1..N |-> h[i]] OBVIOUS
    <3> HIDE DEF Body, h
    <3> QED BY <3>1, <3>2, <3>3
  <2>5. F = Body(F)
    <3>1. \E f : f = Body(f) BY <2>4
    <3> QED BY <3>1, Zenon
  <2>6. FlattenSeq(s) = F[Len(s)] BY <1>2 DEF FlattenSeq
  <2> HIDE DEF F
  <2>7. \A i \in 1..N : F[i] = IF i = 1 THEN s[i] ELSE F[i - 1] \o s[i]
    <3>1. \A i \in 1..N : F[i] = Body(F)[i] BY <2>5
    <3> QED BY <3>1
  <2> DEFINE T == {n \in 0..N : n = 0 \/ F[n] = g[n]}
  <2>8. 0 \in T BY <2>0
  <2>9. ASSUME NEW n \in 1..N, n - 1 \in T PROVE n \in T
    <3>0. n \in 0..N BY <2>0
    <3>1. CASE n = 1 BY <3>1, <2>32, <2>7, <3>0
    <3>2. CASE n # 1
       <4>1. F[n - 1] = g[n - 1] BY <2>9, <3>2
       <4>2. F[n] = F[n - 1] \o s[n] BY <2>7, <3>2
       <4> QED BY <4>1, <4>2, <2>3, <3>0
    <3> QED BY <3>1, <3>2
  <2>10. 0..N \subseteq T
    <3> HIDE DEF T, N
    <3> QED BY <2>0, <2>8, <2>9, UpTo
  <2>11. F[N] = g[N] BY <2>10, <2>0, SMTT(30)
  <2>12. Joins(g, s) BY <2>3, <2>6, <2>11 DEF Joins
  <2> QED BY <2>3, <2>12
<1> QED BY <1>1, <1>2

(* Joined lists hold the elements of each of them.                         *)
LEMMA FlattenElements ==
  ASSUME NEW A, NEW s \in Seq(Seq(A))
  PROVE  /\ FlattenSeq(s) \in Seq(A)
         /\ \A b \in 1..Len(s) : \A k \in 1..Len(s[b]) :
              \E j \in 1..Len(FlattenSeq(s)) : FlattenSeq(s)[j] = s[b][k]
<1>0. PICK f \in [0..Len(s) -> Seq(A)] : Joins(f, s) BY FlattenFunction
<1>1. /\ f[0] = <<>>
      /\ \A n \in 1..Len(s) : f[n] = f[n - 1] \o s[n]
      /\ FlattenSeq(s) = f[Len(s)]
  BY <1>0 DEF Joins
<1> DEFINE Complete(n) == \A b \in 1..n : \A k \in 1..Len(s[b]) :
                            \E j \in 1..Len(f[n]) : f[n][j] = s[b][k]
           T == {n \in 0..Len(s) : Complete(n)}
<1>2. 0 \in T OBVIOUS
<1>3. ASSUME NEW n \in 1..Len(s), n - 1 \in T PROVE n \in T
  <2>0. n \in 0..Len(s) /\ n - 1 \in 0..Len(s) OBVIOUS
  <2>10. Complete(n - 1) BY <1>3
  <2> HIDE DEF T
  <2>11. f[n - 1] \in Seq(A) BY <2>0
  <2>12. s[n] \in Seq(A) OBVIOUS
  <2>2. f[n] = f[n - 1] \o s[n] BY <1>1
  <2>3. /\ Len(f[n]) = Len(f[n - 1]) + Len(s[n])
        /\ Len(f[n - 1]) \in Nat /\ Len(s[n]) \in Nat
        /\ \A j \in 1..Len(f[n - 1]) : f[n][j] = f[n - 1][j]
        /\ \A k \in 1..Len(s[n]) : f[n][Len(f[n - 1]) + k] = s[n][k]
    <3>1. Joined(f[n], f[n - 1], s[n]) BY <2>11, <2>12, <2>2, Concat
    <3> QED BY <3>1 DEF Joined
  <2>4. ASSUME NEW b \in 1..n, NEW k \in 1..Len(s[b]) PROVE \E j \in 1..Len(f[n]) : f[n][j] = s[b][k]
    <3>1. CASE b = n
      <4>0. k \in 1..Len(s[n]) BY <3>1
      <4>1. Len(f[n - 1]) + k \in 1..Len(f[n])
        <5> DEFINE a == Len(f[n - 1])
                   b2 == Len(s[n])
                   c == Len(f[n])
        <5>1. a \in Nat /\ b2 \in Nat /\ c = a + b2 /\ k \in 1..b2 BY <2>3, <4>0
        <5> HIDE DEF a, b2, c
        <5>2. a + k \in 1..c BY <5>1
        <5> QED BY <5>2 DEF a, c
      <4>2. f[n][Len(f[n - 1]) + k] = s[b][k] BY <3>1, <2>3
      <4> QED BY <4>1, <4>2
    <3>2. CASE b # n
      <4>1. b \in 1..(n - 1) BY <3>2
      <4>3. PICK j \in 1..Len(f[n - 1]) : f[n - 1][j] = s[b][k] BY <4>1, <2>10
      <4>4. j \in 1..Len(f[n])
        <5> DEFINE a == Len(f[n - 1])
                   b2 == Len(s[n])
                   c == Len(f[n])
        <5>1. a \in Nat /\ b2 \in Nat /\ c = a + b2 /\ j \in 1..a BY <2>3
        <5> HIDE DEF a, b2, c
        <5>2. j \in 1..c BY <5>1
        <5> QED BY <5>2 DEF a, c
      <4> QED BY <4>3, <4>4, <2>3
    <3> QED BY <3>1, <3>2
  <2>5. Complete(n) BY <2>4
  <2> HIDE DEF Complete
  <2> QED BY <2>0, <2>5 DEF T
<1>4. Len(s) \in T
  <2> HIDE DEF T
  <2>1. Len(s) \in Nat OBVIOUS
  <2>2. 0..Len(s) \subseteq T BY <2>1, <1>2, <1>3, UpTo
  <2> QED BY <2>1, <2>2
<1>5. f[Len(s)] \in Seq(A) OBVIOUS
<1> QED BY <1>1, <1>4, <1>5

(* The lists of t are those of s, element by element under g; u is v under *)
(* g.                                                                      *)
Mapped(t, s, g) ==
  /\ Len(t) = Len(s)
  /\ \A b \in 1..Len(s) : t[b] = [k \in 1..Len(s[b]) |-> g[s[b][k]]]
Renders(u, v, g) == Len(u) = Len(v) /\ \A j \in 1..Len(v) : u[j] = g[v[j]]

(* Lists whose elements are those of other lists under a function join to  *)
(* the join of the others under it.                                        *)
LEMMA FlattenMapped ==
  ASSUME NEW A, NEW B, NEW g \in [A -> B], NEW s \in Seq(Seq(A)), NEW t \in Seq(Seq(B)),
         Mapped(t, s, g)
  PROVE  Renders(FlattenSeq(t), FlattenSeq(s), g)
<1>01. /\ Len(t) = Len(s)
       /\ \A b \in 1..Len(s) : t[b] = [k \in 1..Len(s[b]) |-> g[s[b][k]]]
  BY DEF Mapped
<1>0. PICK f \in [0..Len(s) -> Seq(A)] : Joins(f, s) BY FlattenFunction
<1>00. PICK h \in [0..Len(t) -> Seq(B)] : Joins(h, t) BY FlattenFunction
<1>1. /\ f[0] = <<>>
      /\ \A n \in 1..Len(s) : f[n] = f[n - 1] \o s[n]
      /\ FlattenSeq(s) = f[Len(s)]
  BY <1>0 DEF Joins
<1>2. /\ h[0] = <<>>
      /\ \A n \in 1..Len(s) : h[n] = h[n - 1] \o t[n]
      /\ FlattenSeq(t) = h[Len(s)]
  BY <1>00, <1>01 DEF Joins
<1> DEFINE Same(n) == Len(h[n]) = Len(f[n]) /\ \A j \in 1..Len(f[n]) : h[n][j] = g[f[n][j]]
           T == {n \in 0..Len(s) : Same(n)}
<1>3. 0 \in T BY <1>1, <1>2
<1>4. ASSUME NEW n \in 1..Len(s), n - 1 \in T PROVE n \in T
  <2>0. n \in 0..Len(s) /\ n - 1 \in 0..Len(s) OBVIOUS
  <2>5. /\ Len(h[n - 1]) = Len(f[n - 1])
        /\ \A j \in 1..Len(f[n - 1]) : h[n - 1][j] = g[f[n - 1][j]]
    BY <1>4
  <2> HIDE DEF T
  <2>11. f[n - 1] \in Seq(A) BY <2>0
  <2>12. s[n] \in Seq(A) OBVIOUS
  <2>13. h[n - 1] \in Seq(B) BY <1>01, <2>0
  <2>14. t[n] \in Seq(B) BY <1>01
  <2>1. /\ f[n - 1] \in Seq(A) /\ s[n] \in Seq(A) /\ h[n - 1] \in Seq(B) /\ t[n] \in Seq(B)
    BY <2>11, <2>12, <2>13, <2>14
  <2>2. f[n] = f[n - 1] \o s[n] /\ h[n] = h[n - 1] \o t[n] BY <1>1, <1>2
  <2>3. t[n] = [k \in 1..Len(s[n]) |-> g[s[n][k]]] BY <1>01
  <2>4. Len(t[n]) = Len(s[n]) /\ \A k \in 1..Len(s[n]) : t[n][k] = g[s[n][k]] BY <2>1, <2>3
  <2>6. /\ Len(f[n]) = Len(f[n - 1]) + Len(s[n])
        /\ Len(f[n - 1]) \in Nat /\ Len(s[n]) \in Nat
        /\ \A j \in 1..Len(f[n - 1]) : f[n][j] = f[n - 1][j]
        /\ \A k \in 1..Len(s[n]) : f[n][Len(f[n - 1]) + k] = s[n][k]
    <3>1. Joined(f[n], f[n - 1], s[n]) BY <2>1, <2>2, Concat
    <3> QED BY <3>1 DEF Joined
  <2>7. /\ Len(h[n]) = Len(h[n - 1]) + Len(t[n])
        /\ \A j \in 1..Len(h[n - 1]) : h[n][j] = h[n - 1][j]
        /\ \A k \in 1..Len(t[n]) : h[n][Len(h[n - 1]) + k] = t[n][k]
    <3>1. Joined(h[n], h[n - 1], t[n]) BY <2>1, <2>2, Concat
    <3> QED BY <3>1 DEF Joined
  <2>8. Len(h[n]) = Len(f[n]) BY <2>4, <2>5, <2>6, <2>7
  <2>9. ASSUME NEW j \in 1..Len(f[n]) PROVE h[n][j] = g[f[n][j]]
    <3>1. CASE j <= Len(f[n - 1])
      <4>1. j \in 1..Len(f[n - 1]) BY <3>1, <2>6
      <4> QED BY <4>1, <2>5, <2>6, <2>7
    <3>2. CASE j > Len(f[n - 1])
      <4>1. j - Len(f[n - 1]) \in 1..Len(s[n])
        <5> DEFINE a == Len(f[n - 1])
                   b == Len(s[n])
                   c == Len(f[n])
        <5>1. a \in Nat /\ b \in Nat /\ c = a + b /\ j \in 1..c /\ j > a BY <2>6, <3>2
        <5> HIDE DEF a, b, c
        <5>2. j - a \in 1..b BY <5>1
        <5> QED BY <5>2 DEF a, b
      <4>2. PICK k \in 1..Len(s[n]) : j = Len(f[n - 1]) + k BY <4>1, <2>6
      <4>3. f[n][j] = s[n][k] BY <4>2, <2>6
      <4>4. h[n][j] = t[n][k] BY <4>2, <2>4, <2>5, <2>7
      <4> QED BY <4>3, <4>4, <2>4
    <3> QED BY <3>1, <3>2, <2>6
  <2>10. Same(n) BY <2>8, <2>9
  <2> HIDE DEF Same
  <2> QED BY <2>0, <2>10 DEF T
<1>5. Len(s) \in T
  <2> HIDE DEF T
  <2>1. Len(s) \in Nat OBVIOUS
  <2>2. 0..Len(s) \subseteq T BY <2>1, <1>3, <1>4, UpTo
  <2>3. Len(s) \in 0..Len(s) BY <2>1
  <2> QED BY <2>2, <2>3
<1>6. /\ Len(FlattenSeq(t)) = Len(FlattenSeq(s))
      /\ \A j \in 1..Len(FlattenSeq(s)) : FlattenSeq(t)[j] = g[FlattenSeq(s)[j]]
  BY <1>1, <1>2, <1>5
<1> QED BY <1>6 DEF Renders

(* What follows for a number from all the greater ones holds for all.      *)
LEMMA DownTo ==
  ASSUME NEW N \in Nat, NEW T, \A k \in 1..N : (\A j \in (k + 1)..N : j \in T) => k \in T
  PROVE  1..N \subseteq T
<1> DEFINE U == {n \in 0..N : \A j \in (N + 1 - n)..N : j \in T}
<1>1. 0 \in U OBVIOUS
<1>2. ASSUME NEW n \in 1..N, n - 1 \in U PROVE n \in U
  <2>1. \A j \in ((N + 1 - n) + 1)..N : j \in T
    <3>1. N + 1 - (n - 1) = (N + 1 - n) + 1 OBVIOUS
    <3> QED BY <1>2, <3>1
  <2>2. N + 1 - n \in 1..N OBVIOUS
  <2>3. N + 1 - n \in T BY <2>1, <2>2
  <2>4. \A j \in (N + 1 - n)..N : j = N + 1 - n \/ j \in ((N + 1 - n) + 1)..N OBVIOUS
  <2> QED BY <2>1, <2>3, <2>4
<1> HIDE DEF U
<1>3. 0..N \subseteq U BY <1>1, <1>2, UpTo
<1>4. N \in U BY <1>3
<1>5. N + 1 - N = 1 OBVIOUS
<1> QED BY <1>4, <1>5 DEF U

(* A function may be defined at each place from its value at a later one.  *)
Jumps(N) == {jump \in [1..N -> 0..N] : \A k \in 1..N : jump[k] = 0 \/ jump[k] \in (k + 1)..N}
Falls(f, N, V, base, jump, step) ==
  /\ f \in [1..N -> V]
  /\ \A k \in 1..N : f[k] = IF jump[k] = 0 THEN base ELSE step[k][f[jump[k]]]

(* There is such a function.                                               *)
LEMMA Downward ==
  ASSUME NEW N \in Nat, NEW V, NEW base \in V, NEW jump \in Jumps(N), NEW step \in Steps(N, V)
  PROVE  \E f : Falls(f, N, V, base, jump, step)
<1> USE DEF Jumps, Steps, Falls
<1> DEFINE Good(f, k) == f[k] = IF jump[k] = 0 THEN base ELSE step[k][f[jump[k]]]
           U == {n \in 0..N : \E f \in [1..N -> V] : \A k \in (N + 1 - n)..N : Good(f, k)}
<1>1. 0 \in U
  <2>1. [k \in 1..N |-> base] \in [1..N -> V] OBVIOUS
  <2>2. (N + 1 - 0)..N = {} /\ 0 \in 0..N OBVIOUS
  <2> HIDE DEF Good
  <2>3. \E f \in [1..N -> V] : \A k \in (N + 1 - 0)..N : Good(f, k) BY <2>1, <2>2
  <2> QED BY <2>2, <2>3
<1>2. ASSUME NEW n \in 1..N, n - 1 \in U PROVE n \in U
  <2> DEFINE m == N + 1 - n
  <2>0. m \in 1..N /\ N + 1 - (n - 1) = m + 1 OBVIOUS
  <2>1. PICK f \in [1..N -> V] : \A k \in (m + 1)..N : Good(f, k) BY <1>2, <2>0
  <2> DEFINE value == IF jump[m] = 0 THEN base ELSE step[m][f[jump[m]]]
             g == [f EXCEPT ![m] = value]
  <2> HIDE DEF m
  <2>2. jump[m] = 0 \/ jump[m] \in (m + 1)..N BY <2>0
  <2>3. value \in V
    <3>1. CASE jump[m] = 0 BY <3>1
    <3>2. CASE jump[m] # 0
      <4>1. jump[m] \in 1..N BY <2>0, <2>2, <3>2
      <4>2. f[jump[m]] \in V BY <2>1, <4>1
      <4> QED BY <2>0, <3>2, <4>2
    <3> QED BY <3>1, <3>2
  <2> HIDE DEF value
  <2>4. g \in [1..N -> V] /\ g[m] = value /\ \A k \in (m + 1)..N : g[k] = f[k]
    BY <2>0, <2>1, <2>3
  <2> HIDE DEF g
  <2>5. Good(g, m)
    <3>1. jump[m] # 0 => g[jump[m]] = f[jump[m]] BY <2>2, <2>4
    <3> QED BY <2>4, <3>1 DEF value
  <2>6. ASSUME NEW k \in (m + 1)..N PROVE Good(g, k)
    <3>1. k \in 1..N BY <2>0
    <3>2. jump[k] # 0 => jump[k] \in (m + 1)..N BY <2>0, <3>1
    <3>3. jump[k] # 0 => g[jump[k]] = f[jump[k]] BY <2>4, <3>2
    <3>4. g[k] = f[k] /\ Good(f, k) BY <2>1, <2>4
    <3> QED BY <3>3, <3>4
  <2>7. \A k \in m..N : k = m \/ k \in (m + 1)..N BY <2>0
  <2>8. \A k \in m..N : Good(g, k) BY <2>5, <2>6, <2>7
  <2> HIDE DEF Good
  <2>9. \E h \in [1..N -> V] : \A k \in (N + 1 - n)..N : Good(h, k) BY <2>4, <2>8 DEF m
  <2> QED BY <2>9
<1> HIDE DEF U
<1>3. 0..N \subseteq U BY <1>1, <1>2, UpTo
<1>4. N \in U BY <1>3
<1>5. N + 1 - N = 1 OBVIOUS
<1> QED BY <1>4, <1>5 DEF U
=============================================================================
