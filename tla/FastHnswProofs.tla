--------------------------- MODULE FastHnswProofs ---------------------------
(***************************************************************************)
(* FastHNSW builds the same graph whatever its goroutines do, for any data,  *)
(* configuration, number of workers and width of the marks; what either     *)
(* builder publishes can be saved and loaded, and a wide search of it is     *)
(* exact; and the candidates of its layers are sound.                       *)
(***************************************************************************)
EXTENDS FastHnsw, FiniteSetTheorems, WellFoundedInduction, TLAPS

----------------------------------------------------------------------------
(* Induction over numbers, and functions defined by recursion.              *)

Below == {p \in Nat \X Nat : p[1] < p[2]}

(* A set of numbers has a least element.                                    *)
LEMMA LeastNumber ==
    ASSUME NEW T \in SUBSET Nat, T # {}
    PROVE  \E x \in T : \A y \in T : x <= y
<1>1. IsWellFoundedOn(OpToRel(<, Nat), Nat)
  BY NatLessThanWellFounded, Zenon
<1>2. OpToRel(<, Nat) = Below
  BY Zenon DEF OpToRel, Below
<1>3. IsWellFoundedOn(Below, Nat)
  BY <1>1, <1>2, Zenon
<1>4. \E x \in T : \A y \in T : ~ (<<y, x>> \in Below)
  BY <1>3, WFMin
<1>5. \A x, y \in Nat : <<y, x>> \in Below <=> y < x
  BY DEF Below
<1>6. PICK x \in T : \A y \in T : ~ (<<y, x>> \in Below)
  BY <1>4
<1>7. ASSUME NEW y \in T PROVE x <= y
  <2>1. ~ (y < x) /\ x \in Nat /\ y \in Nat
    BY <1>5, <1>6
  <2> QED
    BY <2>1
<1> QED
  BY <1>7

(* What holds of 0 and passes from each number to the next holds up to top.   *)
LEMMA Induct ==
    ASSUME NEW top \in Nat, NEW T, 0 \in T, \A i \in 0 .. top - 1 : i \in T => i + 1 \in T
    PROVE  0 .. top \subseteq T
<1> SUFFICES ASSUME ~ (0 .. top \subseteq T) PROVE FALSE
  OBVIOUS
<1> DEFINE Bad == (0 .. top) \ T
<1>1. PICK x \in Bad : \A y \in Bad : x <= y
  <2>1. Bad \in SUBSET Nat /\ Bad # {}
    OBVIOUS
  <2> QED
    BY <2>1, LeastNumber
<1>2. x - 1 \in 0 .. top - 1 /\ x - 1 \notin Bad
  BY <1>1
<1> QED
  BY <1>1, <1>2

\* F[i] makes the i-th value out of the one before, and x is the first.
Solution(top, S, x, F, f) ==
    f \in [0 .. top -> S] /\ f[0] = x /\ \A i \in 1 .. top : f[i] = F[i][f[i - 1]]

(* A recursion over 0 .. top that stays in a set S has a solution.            *)
LEMMA Recursion ==
    ASSUME NEW top \in Nat, NEW S, NEW x \in S, NEW F \in [1 .. top -> [S -> S]]
    PROVE  \E f : Solution(top, S, x, F, f)
<1> DEFINE Good(m, f) == \A i \in 0 .. m : f[i] = IF i = 0 THEN x ELSE F[i][f[i - 1]]
           T == {m \in 0 .. top : \E f \in [0 .. m -> S] : Good(m, f)}
<1>1. 0 \in T
  <2> DEFINE g == [i \in 0 .. 0 |-> x]
  <2>1. g \in [0 .. 0 -> S] /\ Good(0, g)
    OBVIOUS
  <2>2. \E f \in [0 .. 0 -> S] : Good(0, f)
    BY <2>1
  <2> QED
    BY <2>2
<1>2. ASSUME NEW m \in 0 .. top - 1, m \in T
      PROVE  m + 1 \in T
  <2>1. PICK f \in [0 .. m -> S] : Good(m, f)
    BY <1>2
  <2> DEFINE g == [i \in 0 .. m + 1 |-> IF i = m + 1 THEN F[m + 1][f[m]] ELSE f[i]]
  <2>2. g \in [0 .. m + 1 -> S]
    <3>1. F[m + 1][f[m]] \in S
      BY <2>1
    <3> QED
      BY <3>1
  <2>3. ASSUME NEW i \in 0 .. m + 1
        PROVE  g[i] = IF i = 0 THEN x ELSE F[i][g[i - 1]]
    <3>1. CASE i = m + 1
      BY <3>1
    <3>2. CASE i # m + 1
      BY <2>1, <3>2
    <3> QED
      BY <3>1, <3>2
  <2>4. Good(m + 1, g)
    BY <2>3
  <2>5. \E h \in [0 .. m + 1 -> S] : Good(m + 1, h)
    BY <2>2, <2>4
  <2> QED
    BY <2>5
<1> HIDE DEF T
<1>3. 0 .. top \subseteq T
  BY <1>1, <1>2, Induct
<1>4. top \in T
  BY <1>3
<1>5. PICK f \in [0 .. top -> S] : Good(top, f)
  BY <1>4 DEF T
<1>6. Solution(top, S, x, F, f)
  BY <1>5 DEF Solution
<1> QED
  BY <1>6

\* The values of a loop: m rounds that begin with x and stay in S.
Run(M, m, S, x) == M \in [0 .. m -> S] /\ M[0] = x

----------------------------------------------------------------------------
(* Ranks: a finite set with a strict order has a member of every rank.       *)

\* R is a strict order of S in which any two members can be compared.
Orders(R, S) ==
    /\ \A a \in S : <<a, a>> \notin R
    /\ \A a, b, c \in S : <<a, b>> \in R /\ <<b, c>> \in R => <<a, c>> \in R
    /\ \A a, b \in S : a = b \/ <<a, b>> \in R \/ <<b, a>> \in R

Under(R, S, a) == {b \in S : <<b, a>> \in R}

HasRank(R, S, i) == \E a \in S : Cardinality(Under(R, S, a)) = i

LEMMA Ranks ==
    ASSUME NEW S, IsFiniteSet(S), NEW R, Orders(R, S), NEW i \in 0 .. Cardinality(S) - 1
    PROVE  HasRank(R, S, i)
<1> DEFINE N == Cardinality(S)
           f == [a \in S |-> Cardinality(Under(R, S, a))]
<1>1. N \in Nat
  BY FS_CardinalityType
<1>2. ASSUME NEW a \in S
      PROVE  IsFiniteSet(Under(R, S, a)) /\ Cardinality(Under(R, S, a)) \in 0 .. N - 1
  <2>1. Under(R, S, a) \subseteq S \ {a}
    BY DEF Under, Orders
  <2>2. IsFiniteSet(S \ {a}) /\ Cardinality(S \ {a}) = N - 1
    BY FS_RemoveElement
  <2>3. IsFiniteSet(Under(R, S, a)) /\ Cardinality(Under(R, S, a)) <= N - 1
    BY <2>1, <2>2, FS_Subset
  <2>4. Cardinality(Under(R, S, a)) \in Nat
    BY <2>3, FS_CardinalityType
  <2> QED
    BY <1>1, <2>3, <2>4
<1>3. ASSUME NEW a \in S, NEW b \in S, <<a, b>> \in R
      PROVE  Cardinality(Under(R, S, a)) # Cardinality(Under(R, S, b))
  <2>1. Under(R, S, a) \in SUBSET Under(R, S, b)
    BY <1>3 DEF Under, Orders
  <2>2. a \in Under(R, S, b) /\ a \notin Under(R, S, a)
    BY <1>3 DEF Under, Orders
  <2> QED
    BY <1>2, <2>1, <2>2, FS_Subset
<1>4. f \in [S -> 0 .. N - 1]
  BY <1>2
<1>5. \A a, b \in S : f[a] = f[b] => a = b
  BY <1>3 DEF Orders
<1> HIDE DEF f
<1>6. f \in Injection(S, 0 .. N - 1)
  BY <1>4, <1>5 DEF Injection, IsInjective
<1>7. IsFiniteSet(0 .. N - 1) /\ Cardinality(0 .. N - 1) = N
  BY <1>1, FS_Interval
<1>8. f \in Surjection(S, 0 .. N - 1)
  BY <1>6, <1>7, FS_Injection
<1>9. \E a \in S : f[a] = i
  BY <1>8 DEF Surjection
<1> QED
  BY <1>9 DEF f, HasRank

\* The order of ids by distance.
ByDistance(d, S) == {p \in S \X S : Better(d, p[1], p[2])}

LEMMA DistanceOrders ==
    ASSUME NEW S \in SUBSET Int, NEW d, \A a \in S : d[a] \in Int
    PROVE  Orders(ByDistance(d, S), S)
<1>1. \A a, b \in S : <<a, b>> \in ByDistance(d, S) <=> Better(d, a, b)
  BY DEF ByDistance
<1>2. \A a, b \in S : a \in Int /\ b \in Int /\ d[a] \in Int /\ d[b] \in Int
  OBVIOUS
<1>3. \A a \in S : ~ Better(d, a, a)
  BY <1>2 DEF Better
<1>4. \A a, b, c \in S : Better(d, a, b) /\ Better(d, b, c) => Better(d, a, c)
  BY <1>2 DEF Better
<1>5. \A a, b \in S : a = b \/ Better(d, a, b) \/ Better(d, b, a)
  BY <1>2 DEF Better
<1> QED
  BY <1>1, <1>3, <1>4, <1>5 DEF Orders

LEMMA MinType ==
    ASSUME NEW a \in Int, NEW b \in Int
    PROVE  AtMost(a, b) \in Int /\ AtMost(a, b) <= a /\ AtMost(a, b) <= b
                /\ AtMost(a, b) \in {a, b}
BY DEF AtMost

(* What a bounded heap keeps of a set is a sequence of its members.         *)
LEMMA NearestType ==
    ASSUME NEW S \in SUBSET Int, IsFiniteSet(S), NEW d, \A a \in S : d[a] \in Int,
           NEW limit \in Nat
    PROVE  Nearest(d, S, limit) \in Seq(S)
<1> DEFINE m == AtMost(limit, Cardinality(S))
<1>1. Cardinality(S) \in Nat
  BY FS_CardinalityType
<1>2. m \in Nat /\ m <= Cardinality(S)
  BY <1>1 DEF AtMost
<1> HIDE DEF m
<1>3. ASSUME NEW i \in 1 .. m
      PROVE  (CHOOSE a \in S : Cardinality({b \in S : Better(d, b, a)}) = i - 1) \in S
  <2>1. i - 1 \in 0 .. Cardinality(S) - 1
    BY <1>1, <1>2
  <2>2. PICK a \in S : Cardinality(Under(ByDistance(d, S), S, a)) = i - 1
    <3>1. HasRank(ByDistance(d, S), S, i - 1)
      BY <2>1, DistanceOrders, Ranks
    <3> QED
      BY <3>1 DEF HasRank
  <2>3. Under(ByDistance(d, S), S, a) = {b \in S : Better(d, b, a)}
    BY DEF Under, ByDistance
  <2> QED
    BY <2>2, <2>3
<1> DEFINE g == [i \in 1 .. m |-> CHOOSE a \in S : Cardinality({b \in S : Better(d, b, a)}) = i - 1]
<1>5. g \in [1 .. m -> S]
  BY <1>3
<1>6. Nearest(d, S, limit) = g
  BY DEF Nearest, m
<1> HIDE DEF g
<1> QED
  BY <1>2, <1>5, <1>6

ById(S) == {p \in S \X S : p[1] < p[2]}

LEMMA InOrderType ==
    ASSUME NEW S \in SUBSET Int, IsFiniteSet(S)
    PROVE  InOrder(S) \in Seq(S)
<1> DEFINE m == Cardinality(S)
           g == [i \in 1 .. m |-> CHOOSE a \in S : Cardinality({b \in S : b < a}) = i - 1]
<1>1. m \in Nat
  BY FS_CardinalityType
<1>2. \A a, b \in S : <<a, b>> \in ById(S) <=> a < b
  BY DEF ById
<1>3. Orders(ById(S), S)
  BY <1>2 DEF Orders
<1>5. ASSUME NEW i \in 1 .. m
      PROVE  (CHOOSE a \in S : Cardinality({b \in S : b < a}) = i - 1) \in S
  <2>1. i - 1 \in 0 .. Cardinality(S) - 1
    BY <1>1
  <2>2. PICK a \in S : Cardinality(Under(ById(S), S, a)) = i - 1
    <3>1. HasRank(ById(S), S, i - 1)
      BY <2>1, <1>3, Ranks
    <3> QED
      BY <3>1 DEF HasRank
  <2>3. Under(ById(S), S, a) = {b \in S : b < a}
    BY <1>2 DEF Under
  <2>4. \E x \in S : Cardinality({b \in S : b < x}) = i - 1
    BY <2>2, <2>3, Zenon
  <2> QED
    BY <2>4, Zenon
<1>6. g \in [1 .. m -> S]
  BY <1>5
<1>7. InOrder(S) = g
  BY DEF InOrder
<1> HIDE DEF g, m
<1> QED
  BY <1>1, <1>6, <1>7

(* Of a set of nodes some is the nearest.                                   *)
LEMMA BestType ==
    ASSUME NEW S \in SUBSET Nat, S # {}, NEW d, \A a \in S : d[a] \in Nat
    PROVE  Best(d, S) \in S
<1> DEFINE D == {d[a] : a \in S}
<1>1. PICK x \in D : \A y \in D : x <= y
  <2>1. D \in SUBSET Nat /\ D # {}
    OBVIOUS
  <2> HIDE DEF D
  <2> QED
    BY <2>1, LeastNumber
<1> DEFINE E == {a \in S : d[a] = x}
<1>2. E \in SUBSET Nat /\ E # {}
  BY <1>1
<1>3. PICK a \in E : \A b \in E : a <= b
  <2> HIDE DEF E
  <2> QED
    BY <1>2, LeastNumber
<1>4. a \in S /\ d[a] = x /\ a \in Nat
  BY <1>3
<1>5. ASSUME NEW b \in S PROVE ~ Better(d, b, a)
  <2>1. x <= d[b] /\ d[b] \in Nat /\ x \in Nat /\ b \in Nat
    BY <1>1
  <2>2. d[b] = x => a <= b
    BY <1>3
  <2> QED
    BY <1>4, <2>1, <2>2 DEF Better
<1>6. \E y \in S : \A b \in S : ~ Better(d, b, y)
  BY <1>4, <1>5
<1> QED
  BY <1>6 DEF Best

----------------------------------------------------------------------------
(* Scratch: whatever it was used for before, a reset one has no mark.       *)

ScratchType(k) == [marks : [0 .. k - 1 -> Nat], mark : Nat, found : Seq(0 .. k - 1)]

\* No mark is of a generation to come.
MarksPast(sc, k) ==
    sc.mark < MarkLimit /\ \A id \in 0 .. k - 1 : sc.marks[id] <= sc.mark

Scratches(k) == {sc \in ScratchType(k) : MarksPast(sc, k)}

\* Scratch between two nodes: what it found last may be anything.
IsScratch(sc, k) ==
    /\ sc = [marks |-> sc.marks, mark |-> sc.mark, found |-> sc.found]
    /\ sc.marks \in [0 .. k - 1 -> Nat] /\ sc.mark \in Nat
    /\ MarksPast(sc, k)

\* Scratches that cannot be told apart: they have found the same, and of every
\* node they say the same.
Alike(a, b, k) ==
    /\ a.found = b.found
    /\ \A id \in 0 .. k - 1 : a.marks[id] = a.mark <=> b.marks[id] = b.mark

LEMMA NewIsScratch ==
    ASSUME NEW k \in Nat
    PROVE  IsScratch(NewScratch(k), k)
BY GraphAssumption DEF IsScratch, MarksPast, NewScratch

LEMMA ScratchIs ==
    ASSUME NEW k \in Nat, NEW sc \in Scratches(k)
    PROVE  IsScratch(sc, k)
BY DEF IsScratch, Scratches, ScratchType

LEMMA ResetIs ==
    ASSUME NEW k \in Nat, NEW sc, IsScratch(sc, k)
    PROVE  /\ Reset(sc) \in Scratches(k)
           /\ Reset(sc).found = <<>>
           /\ \A id \in 0 .. k - 1 : Reset(sc).marks[id] # Reset(sc).mark
<1> DEFINE next == (sc.mark + 1) % MarkLimit
<1>0. MarkLimit \in Nat /\ MarkLimit > 1 /\ sc.mark \in Nat /\ sc.mark < MarkLimit
  BY GraphAssumption DEF IsScratch, MarksPast
<1>1. next = IF sc.mark + 1 = MarkLimit THEN 0 ELSE sc.mark + 1
  BY <1>0
<1>2. CASE next # 0
  <2>1. Reset(sc) = [sc EXCEPT !.mark = next, !.found = <<>>]
    BY <1>2 DEF Reset
  <2>2. next = sc.mark + 1 /\ next < MarkLimit
    BY <1>0, <1>1, <1>2
  <2> HIDE DEF next
  <2>3. Reset(sc) = [marks |-> sc.marks, mark |-> next, found |-> <<>>]
    BY <2>1 DEF IsScratch, MarksPast
  <2>4. \A id \in 0 .. k - 1 : sc.marks[id] \in Nat /\ sc.marks[id] <= sc.mark
    BY DEF IsScratch, MarksPast
  <2>5. sc.marks \in [0 .. k - 1 -> Nat]
    BY DEF IsScratch, MarksPast
  <2>6. \A id \in 0 .. k - 1 : sc.marks[id] <= next /\ sc.marks[id] # next
    BY <1>0, <2>2, <2>4
  <2>7. next \in Nat /\ <<>> \in Seq(0 .. k - 1)
    BY <1>0, <2>2
  <2>8. Reset(sc) \in Scratches(k)
    <3>1. Reset(sc) \in ScratchType(k)
      BY <2>3, <2>5, <2>7 DEF ScratchType
    <3>2. MarksPast(Reset(sc), k)
      BY <2>2, <2>3, <2>6 DEF MarksPast
    <3> QED
      BY <3>1, <3>2 DEF Scratches
  <2> QED
    BY <2>3, <2>6, <2>8
<1>3. CASE next = 0
  <2>1. Reset(sc) = [marks |-> [id \in DOMAIN sc.marks |-> 0], mark |-> 1, found |-> <<>>]
    BY <1>3 DEF Reset
  <2>2. DOMAIN sc.marks = 0 .. k - 1
    BY DEF IsScratch, MarksPast
  <2> DEFINE z == [id \in 0 .. k - 1 |-> 0]
  <2>3. z \in [0 .. k - 1 -> Nat] /\ (\A id \in 0 .. k - 1 : z[id] = 0) /\ <<>> \in Seq(0 .. k - 1)
    OBVIOUS
  <2>4. Reset(sc) = [marks |-> z, mark |-> 1, found |-> <<>>]
    BY <2>1, <2>2
  <2> HIDE DEF z
  <2>5. \A id \in 0 .. k - 1 : z[id] <= 1 /\ z[id] # 1
    BY <2>3
  <2>6. Reset(sc) \in Scratches(k)
    <3>1. Reset(sc) \in ScratchType(k)
      BY <2>3, <2>4 DEF ScratchType
    <3>2. MarksPast(Reset(sc), k)
      BY <1>0, <2>4, <2>5 DEF MarksPast
    <3> QED
      BY <3>1, <3>2 DEF Scratches
  <2> QED
    BY <2>4, <2>5, <2>6
<1> QED
  BY <1>2, <1>3

LEMMA ResetsAlike ==
    ASSUME NEW k \in Nat, NEW a, IsScratch(a, k), NEW b, IsScratch(b, k)
    PROVE  Alike(Reset(a), Reset(b), k)
BY ResetIs DEF Alike

----------------------------------------------------------------------------
(* The id collector.                                                        *)

LEMMA AddType ==
    ASSUME NEW k \in Nat, NEW sc \in Scratches(k), NEW id \in 0 .. k - 1, NEW s
    PROVE  Add(sc, id, s) \in Scratches(k)
<1>1. /\ sc.found \in Seq(0 .. k - 1) /\ sc.marks \in [0 .. k - 1 -> Nat] /\ sc.mark \in Nat
      /\ sc \in ScratchType(k) /\ MarksPast(sc, k)
  BY DEF Scratches, ScratchType
<1>2. Add(sc, id, s) \in {sc, [sc EXCEPT !.marks[id] = sc.mark, !.found = Append(sc.found, id)]}
  BY DEF Add
<1> DEFINE x == [sc EXCEPT !.marks[id] = sc.mark, !.found = Append(sc.found, id)]
<1>3. x \in ScratchType(k)
  <2> DEFINE ms == [sc.marks EXCEPT ![id] = sc.mark]
             fd == Append(sc.found, id)
  <2>1. ms \in [0 .. k - 1 -> Nat] /\ fd \in Seq(0 .. k - 1)
    BY <1>1
  <2>2. x = [sc EXCEPT !.marks = ms, !.found = fd]
    BY <1>1 DEF ScratchType
  <2> HIDE DEF ms, fd, x
  <2> QED
    BY <1>1, <2>1, <2>2 DEF ScratchType
<1>4. x.mark = sc.mark /\ x.marks = [sc.marks EXCEPT ![id] = sc.mark]
  BY <1>1 DEF ScratchType
<1> HIDE DEF x
<1>5. MarksPast(x, k)
  BY <1>1, <1>4 DEF MarksPast
<1>6. x \in Scratches(k)
  BY <1>3, <1>5 DEF Scratches
<1> QED
  BY <1>2, <1>6 DEF x

LEMMA AddAlike ==
    ASSUME NEW k \in Nat, NEW a \in Scratches(k), NEW b \in Scratches(k), Alike(a, b, k),
           NEW id \in 0 .. k - 1, NEW s
    PROVE  Alike(Add(a, id, s), Add(b, id, s), k)
<1>1. CASE id = s \/ a.marks[id] = a.mark
  BY <1>1 DEF Add, Alike
<1>2. CASE ~ (id = s \/ a.marks[id] = a.mark)
  <2>1. Add(a, id, s) = [a EXCEPT !.marks[id] = a.mark, !.found = Append(a.found, id)]
    BY <1>2 DEF Add
  <2>2. Add(b, id, s) = [b EXCEPT !.marks[id] = b.mark, !.found = Append(b.found, id)]
    BY <1>2 DEF Add, Alike
  <2> QED
    BY <2>1, <2>2 DEF Alike, Scratches, ScratchType
<1> QED
  BY <1>1, <1>2

LEMMA AddIfRoomType ==
    ASSUME NEW k \in Nat, NEW sc \in Scratches(k), NEW id \in 0 .. k - 1, NEW s, NEW limit
    PROVE  AddIfRoom(sc, id, s, limit) \in Scratches(k)
BY AddType DEF AddIfRoom

LEMMA AddIfRoomAlike ==
    ASSUME NEW k \in Nat, NEW a \in Scratches(k), NEW b \in Scratches(k), Alike(a, b, k),
           NEW id \in 0 .. k - 1, NEW s, NEW limit
    PROVE  Alike(AddIfRoom(a, id, s, limit), AddIfRoom(b, id, s, limit), k)
<1>1. Len(a.found) = Len(b.found)
  BY DEF Alike
<1>2. Alike(Add(a, id, s), Add(b, id, s), k)
  BY AddAlike
<1> QED
  BY <1>1, <1>2 DEF AddIfRoom

(* The scratch after each id.                                               *)
LEMMA AddingIs ==
    ASSUME NEW k \in Nat, NEW sc \in Scratches(k), NEW ids \in Seq(0 .. k - 1), NEW s
    PROVE  /\ Run(Adding(sc, ids, s), Len(ids), Scratches(k), sc)
           /\ \A i \in 1 .. Len(ids) :
                 Adding(sc, ids, s)[i]
                    = Add(Adding(sc, ids, s)[i - 1], ids[i], s)
<1> DEFINE m == Len(ids)
           F == [i \in 1 .. m |-> [x \in Scratches(k) |-> Add(x, ids[i], s)]]
           M == Adding(sc, ids, s)
<1>0. m \in Nat /\ \A i \in 1 .. m : ids[i] \in 0 .. k - 1
  OBVIOUS
<1>1. F \in [1 .. m -> [Scratches(k) -> Scratches(k)]]
  BY <1>0, AddType
<1>2. \A i \in 1 .. m : \A x \in Scratches(k) : F[i][x] = Add(x, ids[i], s)
  OBVIOUS
<1>10. sc \in Scratches(k)
  OBVIOUS
<1> HIDE DEF F, m
<1>3. PICK f : Solution(m, Scratches(k), sc, F, f)
  BY <1>0, <1>1, <1>10, Recursion
<1>4. f = [i \in 0 .. m |-> IF i = 0 THEN sc ELSE Add(f[i - 1], ids[i], s)]
  <2>1. f \in [0 .. m -> Scratches(k)] /\ f[0] = sc /\ \A i \in 1 .. m : f[i] = F[i][f[i - 1]]
    BY <1>3 DEF Solution
  <2>2. ASSUME NEW i \in 0 .. m
        PROVE  f[i] = IF i = 0 THEN sc ELSE Add(f[i - 1], ids[i], s)
    <3>1. CASE i = 0
      BY <2>1, <3>1
    <3>2. CASE i # 0
      <4>1. i \in 1 .. m /\ f[i - 1] \in Scratches(k)
        BY <1>0, <2>1, <3>2
      <4> QED
        BY <1>2, <2>1, <3>2, <4>1
    <3> QED
      BY <3>1, <3>2
  <2> QED
    BY <2>1, <2>2
<1>5. M = [i \in 0 .. m |-> IF i = 0 THEN sc ELSE Add(M[i - 1], ids[i], s)]
  BY <1>4, Zenon DEF Adding, m
<1> HIDE DEF M
<1>6. \A i \in 0 .. m : M[i] = IF i = 0 THEN sc ELSE Add(M[i - 1], ids[i], s)
  BY <1>5
<1>7. \A i \in 1 .. m : M[i] = Add(M[i - 1], ids[i], s)
  BY <1>0, <1>6
<1>8. M[0] = sc /\ DOMAIN M = 0 .. m /\ M = [i \in 0 .. m |-> M[i]]
  BY <1>0, <1>5, <1>6
<1>9. 0 .. m \subseteq {i \in 0 .. m : M[i] \in Scratches(k)}
  <2> DEFINE T == {i \in 0 .. m : M[i] \in Scratches(k)}
  <2>1. 0 \in T
    BY <1>0, <1>8, <1>10
  <2>2. ASSUME NEW i \in 0 .. m - 1, i \in T PROVE i + 1 \in T
    <3>1. i + 1 \in 1 .. m /\ (i + 1) - 1 = i
      BY <1>0
    <3>2. M[i + 1] = Add(M[i], ids[i + 1], s)
      BY <1>7, <3>1
    <3>3. M[i + 1] \in Scratches(k)
      BY <1>0, <2>2, <3>1, <3>2, AddType
    <3> QED
      BY <3>1, <3>3
  <2> HIDE DEF T
  <2> QED
    BY <1>0, <2>1, <2>2, Induct DEF T
<1> QED
  BY <1>7, <1>8, <1>9 DEF M, m, Run

(* Scratches that are alike stay alike.                                     *)
LEMMA AddingAlike ==
    ASSUME NEW k \in Nat, NEW a \in Scratches(k), NEW b \in Scratches(k), Alike(a, b, k),
           NEW ids \in Seq(0 .. k - 1), NEW s
    PROVE  /\ AddAll(a, ids, s) \in Scratches(k) /\ AddAll(b, ids, s) \in Scratches(k)
           /\ Alike(AddAll(a, ids, s), AddAll(b, ids, s), k)
<1> DEFINE m == Len(ids)
           A == Adding(a, ids, s)
           B == Adding(b, ids, s)
           T == {i \in 0 .. m : Alike(A[i], B[i], k)}
<1>0. m \in Nat /\ \A i \in 1 .. m : ids[i] \in 0 .. k - 1
  OBVIOUS
<1>1. /\ A \in [0 .. m -> Scratches(k)] /\ A[0] = a
      /\ \A i \in 1 .. m : A[i] = Add(A[i - 1], ids[i], s)
  <2>1. Run(A, m, Scratches(k), a)
    BY AddingIs
  <2>3. \A i \in 1 .. m : A[i] = Add(A[i - 1], ids[i], s)
    BY AddingIs
  <2> HIDE DEF A, B, m
  <2> QED
    BY <2>1, <2>3 DEF Run
<1>2. /\ B \in [0 .. m -> Scratches(k)] /\ B[0] = b
      /\ \A i \in 1 .. m : B[i] = Add(B[i - 1], ids[i], s)
  <2>1. Run(B, m, Scratches(k), b)
    BY AddingIs
  <2>3. \A i \in 1 .. m : B[i] = Add(B[i - 1], ids[i], s)
    BY AddingIs
  <2> HIDE DEF A, B, m
  <2> QED
    BY <2>1, <2>3 DEF Run
<1> HIDE DEF A, B, m
<1>3. 0 \in T
  BY <1>0, <1>1, <1>2
<1>4. ASSUME NEW i \in 0 .. m - 1, i \in T PROVE i + 1 \in T
  <2>1. i + 1 \in 1 .. m /\ (i + 1) - 1 = i /\ i \in 0 .. m
    BY <1>0
  <2>2. A[i] \in Scratches(k) /\ B[i] \in Scratches(k) /\ Alike(A[i], B[i], k)
    BY <1>1, <1>2, <1>4, <2>1
  <2>3. A[i + 1] = Add(A[i], ids[i + 1], s) /\ B[i + 1] = Add(B[i], ids[i + 1], s)
    BY <1>1, <1>2, <2>1
  <2>4. Alike(A[i + 1], B[i + 1], k)
    BY <1>0, <2>1, <2>2, <2>3, AddAlike
  <2> QED
    BY <2>1, <2>4
<1> HIDE DEF T
<1>5. 0 .. m \subseteq T
  BY <1>0, <1>3, <1>4, Induct
<1>6. Alike(A[m], B[m], k) /\ A[m] \in Scratches(k) /\ B[m] \in Scratches(k)
  BY <1>0, <1>1, <1>2, <1>5 DEF T
<1> QED
  BY <1>6 DEF A, B, m, AddAll

LEMMA AddAllType ==
    ASSUME NEW k \in Nat, NEW sc \in Scratches(k), NEW ids \in Seq(0 .. k - 1), NEW s
    PROVE  AddAll(sc, ids, s) \in Scratches(k)
<1>1. Len(ids) \in 0 .. Len(ids)
  OBVIOUS
<1> QED
  BY <1>1, AddingIs DEF AddAll, Run

LEMMA AddAllAlike ==
    ASSUME NEW k \in Nat, NEW a \in Scratches(k), NEW b \in Scratches(k), Alike(a, b, k),
           NEW ids \in Seq(0 .. k - 1), NEW s
    PROVE  Alike(AddAll(a, ids, s), AddAll(b, ids, s), k)
BY AddingAlike

(* The same, as long as there is room.                                      *)
LEMMA AddingUpToIs ==
    ASSUME NEW k \in Nat, NEW sc \in Scratches(k), NEW ids \in Seq(0 .. k - 1), NEW s, NEW limit
    PROVE  /\ Run(AddingUpTo(sc, ids, s, limit), Len(ids), Scratches(k), sc)
           /\ \A i \in 1 .. Len(ids) :
                 AddingUpTo(sc, ids, s, limit)[i]
                    = AddIfRoom(AddingUpTo(sc, ids, s, limit)[i - 1], ids[i], s, limit)
<1> DEFINE m == Len(ids)
           F == [i \in 1 .. m |-> [x \in Scratches(k) |-> AddIfRoom(x, ids[i], s, limit)]]
           M == AddingUpTo(sc, ids, s, limit)
<1>0. m \in Nat /\ \A i \in 1 .. m : ids[i] \in 0 .. k - 1
  OBVIOUS
<1>1. F \in [1 .. m -> [Scratches(k) -> Scratches(k)]]
  BY <1>0, AddIfRoomType
<1>2. \A i \in 1 .. m : \A x \in Scratches(k) : F[i][x] = AddIfRoom(x, ids[i], s, limit)
  OBVIOUS
<1>10. sc \in Scratches(k)
  OBVIOUS
<1> HIDE DEF F, m
<1>3. PICK f : Solution(m, Scratches(k), sc, F, f)
  BY <1>0, <1>1, <1>10, Recursion
<1>4. f = [i \in 0 .. m |-> IF i = 0 THEN sc ELSE AddIfRoom(f[i - 1], ids[i], s, limit)]
  <2>1. f \in [0 .. m -> Scratches(k)] /\ f[0] = sc /\ \A i \in 1 .. m : f[i] = F[i][f[i - 1]]
    BY <1>3 DEF Solution
  <2>2. ASSUME NEW i \in 0 .. m
        PROVE  f[i] = IF i = 0 THEN sc ELSE AddIfRoom(f[i - 1], ids[i], s, limit)
    <3>1. CASE i = 0
      BY <2>1, <3>1
    <3>2. CASE i # 0
      <4>1. i \in 1 .. m /\ f[i - 1] \in Scratches(k)
        BY <1>0, <2>1, <3>2
      <4> QED
        BY <1>2, <2>1, <3>2, <4>1
    <3> QED
      BY <3>1, <3>2
  <2> QED
    BY <2>1, <2>2
<1>5. M = [i \in 0 .. m |-> IF i = 0 THEN sc ELSE AddIfRoom(M[i - 1], ids[i], s, limit)]
  BY <1>4, Zenon DEF AddingUpTo, m
<1> HIDE DEF M
<1>6. \A i \in 0 .. m : M[i] = IF i = 0 THEN sc ELSE AddIfRoom(M[i - 1], ids[i], s, limit)
  BY <1>5
<1>7. \A i \in 1 .. m : M[i] = AddIfRoom(M[i - 1], ids[i], s, limit)
  BY <1>0, <1>6
<1>8. M[0] = sc /\ DOMAIN M = 0 .. m /\ M = [i \in 0 .. m |-> M[i]]
  BY <1>0, <1>5, <1>6
<1>9. 0 .. m \subseteq {i \in 0 .. m : M[i] \in Scratches(k)}
  <2> DEFINE T == {i \in 0 .. m : M[i] \in Scratches(k)}
  <2>1. 0 \in T
    BY <1>0, <1>8, <1>10
  <2>2. ASSUME NEW i \in 0 .. m - 1, i \in T PROVE i + 1 \in T
    <3>1. i + 1 \in 1 .. m /\ (i + 1) - 1 = i
      BY <1>0
    <3>2. M[i + 1] = AddIfRoom(M[i], ids[i + 1], s, limit)
      BY <1>7, <3>1
    <3>3. M[i + 1] \in Scratches(k)
      BY <1>0, <2>2, <3>1, <3>2, AddIfRoomType
    <3> QED
      BY <3>1, <3>3
  <2> HIDE DEF T
  <2> QED
    BY <1>0, <2>1, <2>2, Induct DEF T
<1> QED
  BY <1>7, <1>8, <1>9 DEF M, m, Run

(* And alike.                                                               *)
LEMMA AddingUpToAlike ==
    ASSUME NEW k \in Nat, NEW a \in Scratches(k), NEW b \in Scratches(k), Alike(a, b, k),
           NEW ids \in Seq(0 .. k - 1), NEW s, NEW limit
    PROVE  /\ AddUpTo(a, ids, s, limit) \in Scratches(k) /\ AddUpTo(b, ids, s, limit) \in Scratches(k)
           /\ Alike(AddUpTo(a, ids, s, limit), AddUpTo(b, ids, s, limit), k)
<1> DEFINE m == Len(ids)
           A == AddingUpTo(a, ids, s, limit)
           B == AddingUpTo(b, ids, s, limit)
           T == {i \in 0 .. m : Alike(A[i], B[i], k)}
<1>0. m \in Nat /\ \A i \in 1 .. m : ids[i] \in 0 .. k - 1
  OBVIOUS
<1>1. /\ A \in [0 .. m -> Scratches(k)] /\ A[0] = a
      /\ \A i \in 1 .. m : A[i] = AddIfRoom(A[i - 1], ids[i], s, limit)
  <2>1. Run(A, m, Scratches(k), a)
    BY AddingUpToIs
  <2>3. \A i \in 1 .. m : A[i] = AddIfRoom(A[i - 1], ids[i], s, limit)
    BY AddingUpToIs
  <2> HIDE DEF A, B, m
  <2> QED
    BY <2>1, <2>3 DEF Run
<1>2. /\ B \in [0 .. m -> Scratches(k)] /\ B[0] = b
      /\ \A i \in 1 .. m : B[i] = AddIfRoom(B[i - 1], ids[i], s, limit)
  <2>1. Run(B, m, Scratches(k), b)
    BY AddingUpToIs
  <2>3. \A i \in 1 .. m : B[i] = AddIfRoom(B[i - 1], ids[i], s, limit)
    BY AddingUpToIs
  <2> HIDE DEF A, B, m
  <2> QED
    BY <2>1, <2>3 DEF Run
<1> HIDE DEF A, B, m
<1>3. 0 \in T
  BY <1>0, <1>1, <1>2
<1>4. ASSUME NEW i \in 0 .. m - 1, i \in T PROVE i + 1 \in T
  <2>1. i + 1 \in 1 .. m /\ (i + 1) - 1 = i /\ i \in 0 .. m
    BY <1>0
  <2>2. A[i] \in Scratches(k) /\ B[i] \in Scratches(k) /\ Alike(A[i], B[i], k)
    BY <1>1, <1>2, <1>4, <2>1
  <2>3. A[i + 1] = AddIfRoom(A[i], ids[i + 1], s, limit) /\ B[i + 1] = AddIfRoom(B[i], ids[i + 1], s, limit)
    BY <1>1, <1>2, <2>1
  <2>4. Alike(A[i + 1], B[i + 1], k)
    BY <1>0, <2>1, <2>2, <2>3, AddIfRoomAlike
  <2> QED
    BY <2>1, <2>4
<1> HIDE DEF T
<1>5. 0 .. m \subseteq T
  BY <1>0, <1>3, <1>4, Induct
<1>6. Alike(A[m], B[m], k) /\ A[m] \in Scratches(k) /\ B[m] \in Scratches(k)
  BY <1>0, <1>1, <1>2, <1>5 DEF T
<1> QED
  BY <1>6 DEF A, B, m, AddUpTo

\* A list of nodes for each node.
Lists(k) == [0 .. k - 1 -> Seq(0 .. k - 1)]

(* The lists of some nodes.                                                 *)
LEMMA AddingListsIs ==
    ASSUME NEW k \in Nat, NEW sc \in Scratches(k), NEW ids \in Seq(0 .. k - 1), NEW lists \in Lists(k), NEW s
    PROVE  /\ Run(AddingLists(sc, ids, lists, s), Len(ids), Scratches(k), sc)
           /\ \A i \in 1 .. Len(ids) :
                 AddingLists(sc, ids, lists, s)[i]
                    = AddAll(AddingLists(sc, ids, lists, s)[i - 1], lists[ids[i]], s)
<1> DEFINE m == Len(ids)
           F == [i \in 1 .. m |-> [x \in Scratches(k) |-> AddAll(x, lists[ids[i]], s)]]
           M == AddingLists(sc, ids, lists, s)
<1>0. m \in Nat /\ \A i \in 1 .. m : lists[ids[i]] \in Seq(0 .. k - 1)
  BY DEF Lists
<1>1. F \in [1 .. m -> [Scratches(k) -> Scratches(k)]]
  BY <1>0, AddAllType
<1>2. \A i \in 1 .. m : \A x \in Scratches(k) : F[i][x] = AddAll(x, lists[ids[i]], s)
  OBVIOUS
<1>10. sc \in Scratches(k)
  OBVIOUS
<1> HIDE DEF F, m
<1>3. PICK f : Solution(m, Scratches(k), sc, F, f)
  BY <1>0, <1>1, <1>10, Recursion
<1>4. f = [i \in 0 .. m |-> IF i = 0 THEN sc ELSE AddAll(f[i - 1], lists[ids[i]], s)]
  <2>1. f \in [0 .. m -> Scratches(k)] /\ f[0] = sc /\ \A i \in 1 .. m : f[i] = F[i][f[i - 1]]
    BY <1>3 DEF Solution
  <2>2. ASSUME NEW i \in 0 .. m
        PROVE  f[i] = IF i = 0 THEN sc ELSE AddAll(f[i - 1], lists[ids[i]], s)
    <3>1. CASE i = 0
      BY <2>1, <3>1
    <3>2. CASE i # 0
      <4>1. i \in 1 .. m /\ f[i - 1] \in Scratches(k)
        BY <1>0, <2>1, <3>2
      <4> QED
        BY <1>2, <2>1, <3>2, <4>1
    <3> QED
      BY <3>1, <3>2
  <2> QED
    BY <2>1, <2>2
<1>5. M = [i \in 0 .. m |-> IF i = 0 THEN sc ELSE AddAll(M[i - 1], lists[ids[i]], s)]
  BY <1>4, Zenon DEF AddingLists, m
<1> HIDE DEF M
<1>6. \A i \in 0 .. m : M[i] = IF i = 0 THEN sc ELSE AddAll(M[i - 1], lists[ids[i]], s)
  BY <1>5
<1>7. \A i \in 1 .. m : M[i] = AddAll(M[i - 1], lists[ids[i]], s)
  BY <1>0, <1>6
<1>8. M[0] = sc /\ DOMAIN M = 0 .. m /\ M = [i \in 0 .. m |-> M[i]]
  BY <1>0, <1>5, <1>6
<1>9. 0 .. m \subseteq {i \in 0 .. m : M[i] \in Scratches(k)}
  <2> DEFINE T == {i \in 0 .. m : M[i] \in Scratches(k)}
  <2>1. 0 \in T
    BY <1>0, <1>8, <1>10
  <2>2. ASSUME NEW i \in 0 .. m - 1, i \in T PROVE i + 1 \in T
    <3>1. i + 1 \in 1 .. m /\ (i + 1) - 1 = i
      BY <1>0
    <3>2. M[i + 1] = AddAll(M[i], lists[ids[i + 1]], s)
      BY <1>7, <3>1
    <3>3. M[i + 1] \in Scratches(k)
      BY <1>0, <2>2, <3>1, <3>2, AddAllType
    <3> QED
      BY <3>1, <3>3
  <2> HIDE DEF T
  <2> QED
    BY <1>0, <2>1, <2>2, Induct DEF T
<1> QED
  BY <1>7, <1>8, <1>9 DEF M, m, Run

(* And alike.                                                               *)
LEMMA AddingListsAlike ==
    ASSUME NEW k \in Nat, NEW a \in Scratches(k), NEW b \in Scratches(k), Alike(a, b, k),
           NEW ids \in Seq(0 .. k - 1), NEW lists \in Lists(k), NEW s
    PROVE  /\ AddLists(a, ids, lists, s) \in Scratches(k) /\ AddLists(b, ids, lists, s) \in Scratches(k)
           /\ Alike(AddLists(a, ids, lists, s), AddLists(b, ids, lists, s), k)
<1> DEFINE m == Len(ids)
           A == AddingLists(a, ids, lists, s)
           B == AddingLists(b, ids, lists, s)
           T == {i \in 0 .. m : Alike(A[i], B[i], k)}
<1>0. m \in Nat /\ \A i \in 1 .. m : lists[ids[i]] \in Seq(0 .. k - 1)
  BY DEF Lists
<1>1. /\ A \in [0 .. m -> Scratches(k)] /\ A[0] = a
      /\ \A i \in 1 .. m : A[i] = AddAll(A[i - 1], lists[ids[i]], s)
  <2>1. Run(A, m, Scratches(k), a)
    BY AddingListsIs
  <2>3. \A i \in 1 .. m : A[i] = AddAll(A[i - 1], lists[ids[i]], s)
    BY AddingListsIs
  <2> HIDE DEF A, B, m
  <2> QED
    BY <2>1, <2>3 DEF Run
<1>2. /\ B \in [0 .. m -> Scratches(k)] /\ B[0] = b
      /\ \A i \in 1 .. m : B[i] = AddAll(B[i - 1], lists[ids[i]], s)
  <2>1. Run(B, m, Scratches(k), b)
    BY AddingListsIs
  <2>3. \A i \in 1 .. m : B[i] = AddAll(B[i - 1], lists[ids[i]], s)
    BY AddingListsIs
  <2> HIDE DEF A, B, m
  <2> QED
    BY <2>1, <2>3 DEF Run
<1> HIDE DEF A, B, m
<1>3. 0 \in T
  BY <1>0, <1>1, <1>2
<1>4. ASSUME NEW i \in 0 .. m - 1, i \in T PROVE i + 1 \in T
  <2>1. i + 1 \in 1 .. m /\ (i + 1) - 1 = i /\ i \in 0 .. m
    BY <1>0
  <2>2. A[i] \in Scratches(k) /\ B[i] \in Scratches(k) /\ Alike(A[i], B[i], k)
    BY <1>1, <1>2, <1>4, <2>1
  <2>3. A[i + 1] = AddAll(A[i], lists[ids[i + 1]], s) /\ B[i + 1] = AddAll(B[i], lists[ids[i + 1]], s)
    BY <1>1, <1>2, <2>1
  <2>4. Alike(A[i + 1], B[i + 1], k)
    BY <1>0, <2>1, <2>2, <2>3, AddAllAlike
  <2> QED
    BY <2>1, <2>4
<1> HIDE DEF T
<1>5. 0 .. m \subseteq T
  BY <1>0, <1>3, <1>4, Induct
<1>6. Alike(A[m], B[m], k) /\ A[m] \in Scratches(k) /\ B[m] \in Scratches(k)
  BY <1>0, <1>1, <1>2, <1>5 DEF T
<1> QED
  BY <1>6 DEF A, B, m, AddLists

\* The pseudo-random numbers are numbers.
DrawsAreNumbers == \A stream \in Seq(Int), i \in Int : Draw(stream, i) \in Int

LEMMA Remainder ==
    ASSUME NEW k \in Nat \ {0}, NEW x \in Int
    PROVE  x % k \in 0 .. k - 1
OBVIOUS

(* Two numbers that follow each other leave different remainders.             *)
LEMMA NextRemainder ==
    ASSUME NEW k \in Nat \ {0, 1}, NEW x \in Int
    PROVE  x % k # (x + 1) % k
<1> DEFINE q == x \div k
           r == x % k
           u == (x + 1) \div k
           v == (x + 1) % k
<1>1. q \in Int /\ r \in Int /\ x = k * q + r
  OBVIOUS
<1>2. u \in Int /\ v \in Int /\ x + 1 = k * u + v
  OBVIOUS
<1> HIDE DEF q, r, u, v
<1>3. SUFFICES ASSUME r = v PROVE FALSE
  BY DEF r, v
<1> DEFINE e == u - q
<1>4. e \in Int /\ k * e = 1
  BY <1>1, <1>2, <1>3
<1> HIDE DEF e
<1>5. CASE e <= 0
  BY <1>4, <1>5
<1>6. CASE e >= 1
  <2>1. k * e >= k
    BY <1>4, <1>6
  <2> QED
    BY <1>4, <2>1
<1> QED
  BY <1>4, <1>5, <1>6

\* initialApproxNeighborIDs adds the ids of two lists; where there are two nodes
\* the second list has one that is not the node itself.
FirstIds(k, s, limit, stream, near, more) ==
    /\ \A sc : InitialIds(sc, k, s, limit, stream)
               = AddUpTo(AddUpTo(Reset(sc), near, s, limit \div 2), more, s, limit)
    /\ k > 1 => \E i \in 1 .. Len(more) : more[i] # s

LEMMA InitialIdsIs ==
    ASSUME DrawsAreNumbers, NEW k \in Nat \ {0}, NEW s \in 0 .. k - 1, NEW limit,
           NEW stream \in Seq(Int)
    PROVE  \E near, more \in Seq(0 .. k - 1) : FirstIds(k, s, limit, stream, near, more)
<1> DEFINE Offset(i) == (i + 1) \div 2
           NearId(i) == IF i % 2 = 1 THEN (s + Offset(i)) % k ELSE (s - Offset(i) + k) % k
           near == [i \in 1 .. 2 * (k - 1) |->
                      LET offset == (i + 1) \div 2
                      IN  IF i % 2 = 1 THEN (s + offset) % k ELSE (s - offset + k) % k]
           random == [i \in 1 .. 4 * k |-> Draw(Append(stream, s), i) % k]
           start == Draw(Append(stream, s), 0)
           rest == [o \in 1 .. k |-> (start + o - 1) % k]
<1>1. near \in Seq(0 .. k - 1)
  <2>1. ASSUME NEW i \in 1 .. 2 * (k - 1) PROVE NearId(i) \in 0 .. k - 1
    <3>1. Offset(i) \in Int
      OBVIOUS
    <3> HIDE DEF Offset
    <3>2. s + Offset(i) \in Int /\ s - Offset(i) + k \in Int
      BY <3>1
    <3>3. (s + Offset(i)) % k \in 0 .. k - 1 /\ (s - Offset(i) + k) % k \in 0 .. k - 1
      BY <3>2, Remainder
    <3> QED
      BY <3>3
  <2>2. near = [i \in 1 .. 2 * (k - 1) |-> NearId(i)]
    OBVIOUS
  <2>3. 2 * (k - 1) \in Nat
    OBVIOUS
  <2> HIDE DEF NearId, near
  <2>4. near \in [1 .. 2 * (k - 1) -> 0 .. k - 1]
    BY <2>1, <2>2
  <2> QED
    BY <2>3, <2>4
<1>2. Append(stream, s) \in Seq(Int)
  OBVIOUS
<1>3. \A i \in Int : Draw(Append(stream, s), i) \in Int
  BY <1>2 DEF DrawsAreNumbers
<1>4. random \in Seq(0 .. k - 1)
  <2>1. ASSUME NEW i \in 1 .. 4 * k
        PROVE  Draw(Append(stream, s), i) % k \in 0 .. k - 1
    <3>1. i \in Int
      OBVIOUS
    <3>2. Draw(Append(stream, s), i) \in Int
      BY <1>3, <3>1
    <3> QED
      BY <3>2, Remainder
  <2>2. random \in [1 .. 4 * k -> 0 .. k - 1] /\ 4 * k \in Nat
    BY <2>1
  <2> HIDE DEF random
  <2> QED
    BY <2>2
<1>5. rest \in Seq(0 .. k - 1)
  <2>1. start \in Int
    BY <1>3
  <2> HIDE DEF start
  <2>2. ASSUME NEW o \in 1 .. k PROVE (start + o - 1) % k \in 0 .. k - 1
    <3>1. start + o - 1 \in Int
      BY <2>1
    <3> QED
      BY <3>1, Remainder
  <2>3. rest \in [1 .. k -> 0 .. k - 1]
    BY <2>2
  <2> HIDE DEF rest
  <2> QED
    BY <2>3
<1> HIDE DEF near, random, rest, start
<1>6. random \o rest \in Seq(0 .. k - 1)
  BY <1>4, <1>5
<1>7. \A sc : InitialIds(sc, k, s, limit, stream)
              = AddUpTo(AddUpTo(Reset(sc), near, s, limit \div 2), random \o rest, s, limit)
  BY Zenon DEF InitialIds, near, random, rest, start
<1>8. ASSUME k > 1 PROVE \E i \in 1 .. Len(random \o rest) : (random \o rest)[i] # s
  <2>1. Len(random) = 4 * k /\ Len(rest) = k /\ start \in Int
    BY <1>3, <1>4, <1>5 DEF random, rest, start
  <2>2. rest[1] = (start + 1 - 1) % k /\ rest[2] = (start + 2 - 1) % k
    BY <1>8 DEF rest
  <2>3. start + 1 - 1 = start /\ start + 2 - 1 = start + 1
    BY <2>1
  <2>4. rest[1] # rest[2]
    <3>1. k \in Nat \ {0, 1}
      BY <1>8
    <3>2. start % k # (start + 1) % k
      BY <2>1, <3>1, NextRemainder, Zenon
    <3> QED
      BY <2>2, <2>3, <3>2
  <2>5. /\ Len(random \o rest) = 4 * k + k
        /\ (random \o rest)[4 * k + 1] = rest[1] /\ (random \o rest)[4 * k + 2] = rest[2]
    <3> DEFINE m == 4 * k
               N == 0 .. k - 1
    <3>1. m \in Nat /\ k > 1
      BY <1>8
    <3>2. Len(random) = m /\ random \in Seq(N) /\ rest \in Seq(N)
      BY <1>4, <1>5, <2>1
    <3> HIDE DEF m, N
    <3>3. /\ Len(random \o rest) = m + k
          /\ (random \o rest)[m + 1] = rest[1] /\ (random \o rest)[m + 2] = rest[2]
      BY <2>1, <3>1, <3>2
    <3> QED
      BY <3>3 DEF m
  <2>6. 4 * k + 1 \in 1 .. 4 * k + k /\ 4 * k + 2 \in 1 .. 4 * k + k
    BY <1>8
  <2> QED
    BY <2>4, <2>5, <2>6
<1> DEFINE more == random \o rest
<1> HIDE DEF more
<1>9. near \in Seq(0 .. k - 1) /\ more \in Seq(0 .. k - 1)
  BY <1>1, <1>6 DEF more
<1>10. FirstIds(k, s, limit, stream, near, more)
  BY <1>7, <1>8 DEF more, FirstIds
<1> QED
  BY <1>9, <1>10

(* The first candidates do not depend on what the collector held before.     *)
LEMMA InitialIdsAlike ==
    ASSUME DrawsAreNumbers, NEW k \in Nat \ {0}, NEW s \in 0 .. k - 1, NEW limit,
           NEW stream \in Seq(Int), NEW a, IsScratch(a, k), NEW b, IsScratch(b, k)
    PROVE  /\ InitialIds(a, k, s, limit, stream) \in Scratches(k)
           /\ Alike(InitialIds(a, k, s, limit, stream), InitialIds(b, k, s, limit, stream), k)
<1>0. PICK near, more \in Seq(0 .. k - 1) : FirstIds(k, s, limit, stream, near, more)
  BY InitialIdsIs
<1>1. \A sc : InitialIds(sc, k, s, limit, stream)
              = AddUpTo(AddUpTo(Reset(sc), near, s, limit \div 2), more, s, limit)
  BY <1>0 DEF FirstIds
<1>2. /\ Reset(a) \in Scratches(k) /\ Reset(b) \in Scratches(k)
      /\ Alike(Reset(a), Reset(b), k)
  BY ResetIs, ResetsAlike
<1>3. /\ AddUpTo(Reset(a), near, s, limit \div 2) \in Scratches(k)
      /\ AddUpTo(Reset(b), near, s, limit \div 2) \in Scratches(k)
      /\ Alike(AddUpTo(Reset(a), near, s, limit \div 2), AddUpTo(Reset(b), near, s, limit \div 2), k)
  BY <1>2, AddingUpToAlike
<1> QED
  BY <1>1, <1>3, AddingUpToAlike

LEMMA SeqWidens ==
    ASSUME NEW S, NEW T, S \subseteq T, NEW q \in Seq(S)
    PROVE  q \in Seq(T)
<1>1. q \in [1 .. Len(q) -> S] /\ Len(q) \in Nat
  OBVIOUS
<1>2. q \in [1 .. Len(q) -> T]
  BY <1>1
<1> QED
  BY <1>1, <1>2

LEMMA NodesFinite ==
    ASSUME NEW k \in Nat, NEW S \in SUBSET (0 .. k - 1)
    PROVE  /\ IsFiniteSet(S) /\ Cardinality(S) \in Nat /\ Cardinality(S) <= k
           /\ S \in SUBSET Int /\ S \in SUBSET Nat
<1>1. IsFiniteSet(0 .. k - 1) /\ Cardinality(0 .. k - 1) = k
  BY FS_Interval
<1>2. IsFiniteSet(S) /\ Cardinality(S) <= k
  BY <1>1, FS_Subset
<1>3. Cardinality(S) \in Nat
  BY <1>2, FS_CardinalityType
<1> QED
  BY <1>2, <1>3

LEMMA HeldByType ==
    ASSUME NEW k \in Nat, NEW lists, NEW s
    PROVE  HeldBy(lists, s, k) \in Seq(0 .. k - 1)
<1> DEFINE S == {u \in 0 .. k - 1 : s \in ToSet(lists[u])}
<1>1. S \in SUBSET (0 .. k - 1)
  OBVIOUS
<1> HIDE DEF S
<1>5. IsFiniteSet(S) /\ S \in SUBSET Int
  BY <1>1, NodesFinite
<1>3. InOrder(S) \in Seq(S)
  BY <1>5, InOrderType
<1>4. InOrder(S) \in Seq(0 .. k - 1)
  BY <1>1, <1>3, SeqWidens, Zenon
<1> QED
  BY <1>4 DEF HeldBy, S

(* Nor do the candidates of an exchange.                                     *)
LEMMA ExchangeAlike ==
    ASSUME NEW k \in Nat, NEW s \in 0 .. k - 1, NEW lists \in Lists(k),
           NEW a, IsScratch(a, k), NEW b, IsScratch(b, k)
    PROVE  /\ Exchange(a, lists, s, k) \in Scratches(k)
           /\ Alike(Exchange(a, lists, s, k), Exchange(b, lists, s, k), k)
<1> DEFINE own == lists[s]
           reverse == HeldBy(lists, s, k)
           Both(sc) == AddAll(AddAll(Reset(sc), own, s), reverse, s)
<1>1. own \in Seq(0 .. k - 1) /\ reverse \in Seq(0 .. k - 1)
  BY HeldByType DEF Lists
<1>2. \A sc : Exchange(sc, lists, s, k)
              = AddLists(AddLists(Both(sc), own, lists, s), reverse, lists, s)
  BY Zenon DEF Exchange
<1> HIDE DEF own, reverse
<1>3. /\ Reset(a) \in Scratches(k) /\ Reset(b) \in Scratches(k)
      /\ Alike(Reset(a), Reset(b), k)
  BY ResetIs, ResetsAlike
<1>4. /\ AddAll(Reset(a), own, s) \in Scratches(k) /\ AddAll(Reset(b), own, s) \in Scratches(k)
      /\ Alike(AddAll(Reset(a), own, s), AddAll(Reset(b), own, s), k)
  BY <1>1, <1>3, AddingAlike
<1>5. Both(a) \in Scratches(k) /\ Both(b) \in Scratches(k) /\ Alike(Both(a), Both(b), k)
  BY <1>1, <1>4, AddingAlike
<1> HIDE DEF Both
<1>6. /\ AddLists(Both(a), own, lists, s) \in Scratches(k)
      /\ AddLists(Both(b), own, lists, s) \in Scratches(k)
      /\ Alike(AddLists(Both(a), own, lists, s), AddLists(Both(b), own, lists, s), k)
  BY <1>1, <1>5, AddingListsAlike
<1> QED
  BY <1>1, <1>2, <1>6, AddingListsAlike

----------------------------------------------------------------------------
(* SEARCH-LAYER.                                                            *)

Searches(k) == [sc : Scratches(k), cand : SUBSET (0 .. k - 1), res : SUBSET (0 .. k - 1)]

\* The distance of each of k nodes to a query.
Distances(k) == [0 .. k - 1 -> Nat]

\* Searches that go on in the same way.
Together(a, b, k) == Alike(a.sc, b.sc, k) /\ a.cand = b.cand /\ a.res = b.res

Marked(sc, id) == [sc EXCEPT !.marks[id] = sc.mark]

LEMMA MarkedType ==
    ASSUME NEW k \in Nat, NEW sc \in Scratches(k), NEW id \in 0 .. k - 1
    PROVE  Marked(sc, id) \in Scratches(k)
<1>1. /\ sc.found \in Seq(0 .. k - 1) /\ sc.marks \in [0 .. k - 1 -> Nat] /\ sc.mark \in Nat
      /\ sc \in ScratchType(k) /\ MarksPast(sc, k)
  BY DEF Scratches, ScratchType
<1> DEFINE ms == [sc.marks EXCEPT ![id] = sc.mark]
           x == Marked(sc, id)
<1>2. ms \in [0 .. k - 1 -> Nat]
  BY <1>1
<1>3. x = [sc EXCEPT !.marks = ms]
  BY <1>1 DEF ScratchType, Marked
<1> HIDE DEF ms, x
<1>4. x \in ScratchType(k) /\ x.mark = sc.mark /\ x.marks = ms
  BY <1>1, <1>2, <1>3 DEF ScratchType
<1>5. MarksPast(x, k)
  BY <1>1, <1>4 DEF MarksPast, ms
<1> QED
  BY <1>4, <1>5 DEF Scratches, x

LEMMA MarkedAlike ==
    ASSUME NEW k \in Nat, NEW a \in Scratches(k), NEW b \in Scratches(k), Alike(a, b, k),
           NEW id \in 0 .. k - 1
    PROVE  Alike(Marked(a, id), Marked(b, id), k)
BY DEF Alike, Marked, Scratches, ScratchType

\* The heaps after a node that was not visited before.
Candidates(d, ef, st, id) ==
    IF Cardinality(st.res) < ef \/ Better(d, id, Worst(d, st.res)) THEN st.cand \cup {id} ELSE st.cand

Results(d, ef, st, id) ==
    IF Cardinality(st.res) < ef THEN st.res \cup {id}
    ELSE IF Better(d, id, Worst(d, st.res)) THEN (st.res \ {Worst(d, st.res)}) \cup {id}
    ELSE st.res

LEMMA VisitIs ==
    ASSUME NEW k \in Nat, NEW d \in Distances(k), NEW ef, NEW st \in Searches(k), NEW id
    PROVE  /\ id \notin 0 .. k - 1 \/ st.sc.marks[id] = st.sc.mark => Visit(d, ef, st, id) = st
           /\ ~ (id \notin 0 .. k - 1 \/ st.sc.marks[id] = st.sc.mark) =>
                 Visit(d, ef, st, id) = [sc |-> Marked(st.sc, id),
                                         cand |-> Candidates(d, ef, st, id),
                                         res |-> Results(d, ef, st, id)]
<1>1. DOMAIN d = 0 .. k - 1
  BY DEF Distances
<1>2. [st EXCEPT !.sc.marks[id] = st.sc.mark]
        = [sc |-> Marked(st.sc, id), cand |-> st.cand, res |-> st.res]
  BY DEF Searches, Marked
<1>3. CASE id \notin 0 .. k - 1 \/ st.sc.marks[id] = st.sc.mark
  BY <1>1, <1>3, Zenon DEF Visit
<1>4. CASE ~ (id \notin 0 .. k - 1 \/ st.sc.marks[id] = st.sc.mark)
  <2>1. CASE Cardinality(st.res) < ef
    BY <1>1, <1>4, <2>1, Zenon DEF Visit, Marked, Candidates, Results
  <2>2. CASE ~ (Cardinality(st.res) < ef) /\ Better(d, id, Worst(d, st.res))
    BY <1>1, <1>4, <2>2, Zenon DEF Visit, Marked, Candidates, Results
  <2>3. CASE ~ (Cardinality(st.res) < ef) /\ ~ Better(d, id, Worst(d, st.res))
    BY <1>1, <1>2, <1>4, <2>3, Zenon DEF Visit, Candidates, Results
  <2> QED
    BY <2>1, <2>2, <2>3
<1> QED
  BY <1>3, <1>4

LEMMA VisitType ==
    ASSUME NEW k \in Nat, NEW d \in Distances(k), NEW ef, NEW st \in Searches(k), NEW id
    PROVE  Visit(d, ef, st, id) \in Searches(k)
<1>1. CASE id \notin 0 .. k - 1 \/ st.sc.marks[id] = st.sc.mark
  BY <1>1, VisitIs
<1>2. CASE ~ (id \notin 0 .. k - 1 \/ st.sc.marks[id] = st.sc.mark)
  <2>1. st.sc \in Scratches(k) /\ st.cand \in SUBSET (0 .. k - 1) /\ st.res \in SUBSET (0 .. k - 1)
    BY DEF Searches
  <2>2. Marked(st.sc, id) \in Scratches(k)
    BY <1>2, <2>1, MarkedType
  <2>3. /\ Candidates(d, ef, st, id) \in SUBSET (0 .. k - 1)
        /\ Results(d, ef, st, id) \in SUBSET (0 .. k - 1)
    BY <1>2, <2>1 DEF Candidates, Results
  <2>4. Visit(d, ef, st, id) = [sc |-> Marked(st.sc, id), cand |-> Candidates(d, ef, st, id),
                                res |-> Results(d, ef, st, id)]
    BY <1>2, VisitIs
  <2> QED
    BY <2>2, <2>3, <2>4 DEF Searches
<1> QED
  BY <1>1, <1>2

LEMMA VisitAlike ==
    ASSUME NEW k \in Nat, NEW d \in Distances(k), NEW ef,
           NEW a \in Searches(k), NEW b \in Searches(k), Together(a, b, k), NEW id
    PROVE  Together(Visit(d, ef, a, id), Visit(d, ef, b, id), k)
<1>1. /\ a.sc \in Scratches(k) /\ b.sc \in Scratches(k) /\ Alike(a.sc, b.sc, k)
      /\ a.cand = b.cand /\ a.res = b.res
  BY DEF Searches, Together
<1>2. CASE id \notin 0 .. k - 1 \/ a.sc.marks[id] = a.sc.mark
  <2>1. id \notin 0 .. k - 1 \/ b.sc.marks[id] = b.sc.mark
    BY <1>1, <1>2 DEF Alike
  <2>2. Visit(d, ef, a, id) = a /\ Visit(d, ef, b, id) = b
    BY <1>2, <2>1, VisitIs
  <2> QED
    BY <2>2
<1>3. CASE ~ (id \notin 0 .. k - 1 \/ a.sc.marks[id] = a.sc.mark)
  <2>1. ~ (id \notin 0 .. k - 1 \/ b.sc.marks[id] = b.sc.mark)
    BY <1>1, <1>3 DEF Alike
  <2>2. Alike(Marked(a.sc, id), Marked(b.sc, id), k)
    BY <1>1, <1>3, MarkedAlike
  <2>3. /\ Candidates(d, ef, a, id) = Candidates(d, ef, b, id)
        /\ Results(d, ef, a, id) = Results(d, ef, b, id)
    BY <1>1, Zenon DEF Candidates, Results
  <2>4. Visit(d, ef, a, id) = [sc |-> Marked(a.sc, id), cand |-> Candidates(d, ef, a, id),
                               res |-> Results(d, ef, a, id)]
    BY <1>3, VisitIs
  <2>5. Visit(d, ef, b, id) = [sc |-> Marked(b.sc, id), cand |-> Candidates(d, ef, b, id),
                               res |-> Results(d, ef, b, id)]
    BY <2>1, VisitIs
  <2> QED
    BY <2>2, <2>3, <2>4, <2>5 DEF Together
<1> QED
  BY <1>2, <1>3

(* The search after each neighbour.                                         *)
LEMMA VisitingIs ==
    ASSUME NEW k \in Nat, NEW d \in Distances(k), NEW ef,
           NEW st \in Searches(k), NEW ids \in Seq(0 .. k - 1)
    PROVE  /\ Run(Visiting(d, ef, st, ids), Len(ids), Searches(k), st)
           /\ \A i \in 1 .. Len(ids) :
                 Visiting(d, ef, st, ids)[i]
                    = Visit(d, ef, Visiting(d, ef, st, ids)[i - 1], ids[i])
<1> DEFINE m == Len(ids)
           F == [i \in 1 .. m |-> [x \in Searches(k) |-> Visit(d, ef, x, ids[i])]]
           M == Visiting(d, ef, st, ids)
<1>0. m \in Nat /\ \A i \in 1 .. m : ids[i] \in 0 .. k - 1
  OBVIOUS
<1>1. F \in [1 .. m -> [Searches(k) -> Searches(k)]]
  BY <1>0, VisitType
<1>2. \A i \in 1 .. m : \A x \in Searches(k) : F[i][x] = Visit(d, ef, x, ids[i])
  OBVIOUS
<1>10. st \in Searches(k)
  OBVIOUS
<1> HIDE DEF F, m
<1>3. PICK f : Solution(m, Searches(k), st, F, f)
  BY <1>0, <1>1, <1>10, Recursion
<1>4. f = [i \in 0 .. m |-> IF i = 0 THEN st ELSE Visit(d, ef, f[i - 1], ids[i])]
  <2>1. f \in [0 .. m -> Searches(k)] /\ f[0] = st /\ \A i \in 1 .. m : f[i] = F[i][f[i - 1]]
    BY <1>3 DEF Solution
  <2>2. ASSUME NEW i \in 0 .. m
        PROVE  f[i] = IF i = 0 THEN st ELSE Visit(d, ef, f[i - 1], ids[i])
    <3>1. CASE i = 0
      BY <2>1, <3>1
    <3>2. CASE i # 0
      <4>1. i \in 1 .. m /\ f[i - 1] \in Searches(k)
        BY <1>0, <2>1, <3>2
      <4> QED
        BY <1>2, <2>1, <3>2, <4>1
    <3> QED
      BY <3>1, <3>2
  <2> QED
    BY <2>1, <2>2
<1>5. M = [i \in 0 .. m |-> IF i = 0 THEN st ELSE Visit(d, ef, M[i - 1], ids[i])]
  BY <1>4, Zenon DEF Visiting, m
<1> HIDE DEF M
<1>6. \A i \in 0 .. m : M[i] = IF i = 0 THEN st ELSE Visit(d, ef, M[i - 1], ids[i])
  BY <1>5
<1>7. \A i \in 1 .. m : M[i] = Visit(d, ef, M[i - 1], ids[i])
  BY <1>0, <1>6
<1>8. M[0] = st /\ DOMAIN M = 0 .. m /\ M = [i \in 0 .. m |-> M[i]]
  BY <1>0, <1>5, <1>6
<1>9. 0 .. m \subseteq {i \in 0 .. m : M[i] \in Searches(k)}
  <2> DEFINE T == {i \in 0 .. m : M[i] \in Searches(k)}
  <2>1. 0 \in T
    BY <1>0, <1>8, <1>10
  <2>2. ASSUME NEW i \in 0 .. m - 1, i \in T PROVE i + 1 \in T
    <3>1. i + 1 \in 1 .. m /\ (i + 1) - 1 = i
      BY <1>0
    <3>2. M[i + 1] = Visit(d, ef, M[i], ids[i + 1])
      BY <1>7, <3>1
    <3>3. M[i + 1] \in Searches(k)
      BY <1>0, <2>2, <3>1, <3>2, VisitType
    <3> QED
      BY <3>1, <3>3
  <2> HIDE DEF T
  <2> QED
    BY <1>0, <2>1, <2>2, Induct DEF T
<1> QED
  BY <1>7, <1>8, <1>9 DEF M, m, Run

(* And of two that go together.                                             *)
LEMMA VisitingAlike ==
    ASSUME NEW k \in Nat, NEW d \in Distances(k), NEW ef,
           NEW a \in Searches(k), NEW b \in Searches(k), Together(a, b, k),
           NEW ids \in Seq(0 .. k - 1)
    PROVE  /\ VisitAll(d, ef, a, ids) \in Searches(k) /\ VisitAll(d, ef, b, ids) \in Searches(k)
           /\ Together(VisitAll(d, ef, a, ids), VisitAll(d, ef, b, ids), k)
<1> DEFINE m == Len(ids)
           A == Visiting(d, ef, a, ids)
           B == Visiting(d, ef, b, ids)
           T == {i \in 0 .. m : Together(A[i], B[i], k)}
<1>0. m \in Nat /\ \A i \in 1 .. m : ids[i] \in 0 .. k - 1
  OBVIOUS
<1>1. /\ A \in [0 .. m -> Searches(k)] /\ A[0] = a
      /\ \A i \in 1 .. m : A[i] = Visit(d, ef, A[i - 1], ids[i])
  <2>1. Run(A, m, Searches(k), a)
    BY VisitingIs
  <2>3. \A i \in 1 .. m : A[i] = Visit(d, ef, A[i - 1], ids[i])
    BY VisitingIs
  <2> HIDE DEF A, B, m
  <2> QED
    BY <2>1, <2>3 DEF Run
<1>2. /\ B \in [0 .. m -> Searches(k)] /\ B[0] = b
      /\ \A i \in 1 .. m : B[i] = Visit(d, ef, B[i - 1], ids[i])
  <2>1. Run(B, m, Searches(k), b)
    BY VisitingIs
  <2>3. \A i \in 1 .. m : B[i] = Visit(d, ef, B[i - 1], ids[i])
    BY VisitingIs
  <2> HIDE DEF A, B, m
  <2> QED
    BY <2>1, <2>3 DEF Run
<1> HIDE DEF A, B, m
<1>3. 0 \in T
  BY <1>0, <1>1, <1>2
<1>4. ASSUME NEW i \in 0 .. m - 1, i \in T PROVE i + 1 \in T
  <2>1. i + 1 \in 1 .. m /\ (i + 1) - 1 = i /\ i \in 0 .. m
    BY <1>0
  <2>2. A[i] \in Searches(k) /\ B[i] \in Searches(k) /\ Together(A[i], B[i], k)
    BY <1>1, <1>2, <1>4, <2>1
  <2>3. A[i + 1] = Visit(d, ef, A[i], ids[i + 1]) /\ B[i + 1] = Visit(d, ef, B[i], ids[i + 1])
    BY <1>1, <1>2, <2>1
  <2>4. Together(A[i + 1], B[i + 1], k)
    BY <1>0, <2>1, <2>2, <2>3, VisitAlike
  <2> QED
    BY <2>1, <2>4
<1> HIDE DEF T
<1>5. 0 .. m \subseteq T
  BY <1>0, <1>3, <1>4, Induct
<1>6. Together(A[m], B[m], k) /\ A[m] \in Searches(k) /\ B[m] \in Searches(k)
  BY <1>0, <1>1, <1>2, <1>5 DEF T
<1> QED
  BY <1>6 DEF A, B, m, VisitAll

LEMMA VisitAllType ==
    ASSUME NEW k \in Nat, NEW d \in Distances(k), NEW ef, NEW st \in Searches(k),
           NEW ids \in Seq(0 .. k - 1)
    PROVE  VisitAll(d, ef, st, ids) \in Searches(k)
<1>1. Len(ids) \in 0 .. Len(ids)
  OBVIOUS
<1>2. Run(Visiting(d, ef, st, ids), Len(ids), Searches(k), st)
  BY VisitingIs
<1> QED
  BY <1>1, <1>2 DEF VisitAll, Run

\* A search whose nearest candidate is taken.
Taken(d, st) == [st EXCEPT !.cand = st.cand \ {Best(d, st.cand)}]

LEMMA HopIs ==
    ASSUME NEW d, NEW ef, NEW st, NEW adjacency
    PROVE  /\ st.cand = {} => Hop(adjacency, d, ef, st) = st
           /\ st.cand # {} /\ Over(d, st) => Hop(adjacency, d, ef, st) = [st EXCEPT !.cand = {}]
           /\ st.cand # {} /\ ~ Over(d, st) =>
                 Hop(adjacency, d, ef, st)
                    = VisitAll(d, ef, Taken(d, st), adjacency[Best(d, st.cand)])
BY Zenon DEF Hop, Taken

LEMMA TakenType ==
    ASSUME NEW k \in Nat, NEW d \in Distances(k), NEW st \in Searches(k), st.cand # {},
           NEW adjacency \in Lists(k)
    PROVE  /\ Taken(d, st) \in Searches(k)
           /\ Best(d, st.cand) \in 0 .. k - 1
           /\ adjacency[Best(d, st.cand)] \in Seq(0 .. k - 1)
<1>1. st.cand \in SUBSET (0 .. k - 1)
  BY DEF Searches
<1>2. st.cand \in SUBSET Nat /\ \A a \in st.cand : d[a] \in Nat
  BY <1>1 DEF Distances
<1>3. Best(d, st.cand) \in st.cand
  BY <1>2, BestType
<1>4. Taken(d, st) \in Searches(k)
  BY DEF Taken, Searches
<1> QED
  BY <1>1, <1>3, <1>4 DEF Lists

LEMMA HopType ==
    ASSUME NEW k \in Nat, NEW d \in Distances(k), NEW ef, NEW adjacency \in Lists(k),
           NEW st \in Searches(k)
    PROVE  Hop(adjacency, d, ef, st) \in Searches(k)
<1>1. CASE st.cand = {}
  BY <1>1, HopIs
<1>2. CASE st.cand # {} /\ Over(d, st)
  <2>1. [st EXCEPT !.cand = {}] \in Searches(k)
    BY DEF Searches
  <2>2. Hop(adjacency, d, ef, st) = [st EXCEPT !.cand = {}]
    BY <1>2, HopIs
  <2> QED
    BY <2>1, <2>2
<1>3. CASE st.cand # {} /\ ~ Over(d, st)
  <2>1. Hop(adjacency, d, ef, st) = VisitAll(d, ef, Taken(d, st), adjacency[Best(d, st.cand)])
    BY <1>3, HopIs
  <2>2. Taken(d, st) \in Searches(k) /\ adjacency[Best(d, st.cand)] \in Seq(0 .. k - 1)
    BY <1>3, TakenType
  <2> QED
    BY <2>1, <2>2, VisitAllType
<1> QED
  BY <1>1, <1>2, <1>3

LEMMA HopAlike ==
    ASSUME NEW k \in Nat, NEW d \in Distances(k), NEW ef, NEW adjacency \in Lists(k),
           NEW a \in Searches(k), NEW b \in Searches(k), Together(a, b, k)
    PROVE  Together(Hop(adjacency, d, ef, a), Hop(adjacency, d, ef, b), k)
<1>1. a.cand = b.cand /\ a.res = b.res /\ Alike(a.sc, b.sc, k)
  BY DEF Together
<1>2. Over(d, a) <=> Over(d, b)
  BY <1>1, Zenon DEF Over
<1>3. CASE a.cand = {}
  <2>1. Hop(adjacency, d, ef, a) = a
    BY <1>3, HopIs
  <2>3. b.cand = {}
    BY <1>1, <1>3
  <2>2. Hop(adjacency, d, ef, b) = b
    BY <2>3, HopIs
  <2> QED
    BY <2>1, <2>2
<1>4. CASE a.cand # {} /\ Over(d, a)
  <2>1. /\ Hop(adjacency, d, ef, a) = [a EXCEPT !.cand = {}]
        /\ Hop(adjacency, d, ef, b) = [b EXCEPT !.cand = {}]
    BY <1>1, <1>2, <1>4, HopIs
  <2>2. Together([a EXCEPT !.cand = {}], [b EXCEPT !.cand = {}], k)
    BY <1>1 DEF Together, Searches
  <2> QED
    BY <2>1, <2>2
<1>5. CASE a.cand # {} /\ ~ Over(d, a)
  <2> DEFINE ids == adjacency[Best(d, a.cand)]
  <2>1. Hop(adjacency, d, ef, a) = VisitAll(d, ef, Taken(d, a), ids)
    BY <1>5, HopIs
  <2>2. Hop(adjacency, d, ef, b) = VisitAll(d, ef, Taken(d, b), ids)
    BY <1>1, <1>2, <1>5, HopIs
  <2>3. /\ Taken(d, a) \in Searches(k) /\ Taken(d, b) \in Searches(k)
        /\ ids \in Seq(0 .. k - 1)
    BY <1>1, <1>5, TakenType
  <2>4. Together(Taken(d, a), Taken(d, b), k)
    BY <1>1 DEF Together, Searches, Taken
  <2> HIDE DEF ids
  <2> QED
    BY <2>1, <2>2, <2>3, <2>4, VisitingAlike
<1> QED
  BY <1>3, <1>4, <1>5

LEMMA CountOf ==
    ASSUME NEW k \in Nat, NEW d \in Distances(k)
    PROVE  Count(d) = k /\ Count(d) \in Nat
<1>1. DOMAIN d = 0 .. k - 1
  BY DEF Distances
<1>2. Cardinality(0 .. k - 1) = k
  BY FS_Interval
<1> QED
  BY <1>1, <1>2 DEF Count

(* The search after each round.                                             *)
LEMMA SearchingIs ==
    ASSUME NEW k \in Nat, NEW d \in Distances(k), NEW ef, NEW adjacency \in Lists(k),
           NEW begin \in Searches(k)
    PROVE  /\ Run(Searching(adjacency, d, ef, begin), Count(d), Searches(k), begin)
           /\ \A i \in 1 .. Count(d) :
                 Searching(adjacency, d, ef, begin)[i]
                    = Hop(adjacency, d, ef, Searching(adjacency, d, ef, begin)[i - 1])
<1> DEFINE m == Count(d)
           F == [i \in 1 .. m |-> [x \in Searches(k) |-> Hop(adjacency, d, ef, x)]]
           M == Searching(adjacency, d, ef, begin)
<1>0. m \in Nat
  BY CountOf
<1>1. F \in [1 .. m -> [Searches(k) -> Searches(k)]]
  BY <1>0, HopType
<1>2. \A i \in 1 .. m : \A x \in Searches(k) : F[i][x] = Hop(adjacency, d, ef, x)
  OBVIOUS
<1>10. begin \in Searches(k)
  OBVIOUS
<1> HIDE DEF F, m
<1>3. PICK f : Solution(m, Searches(k), begin, F, f)
  BY <1>0, <1>1, <1>10, Recursion
<1>4. f = [i \in 0 .. m |-> IF i = 0 THEN begin ELSE Hop(adjacency, d, ef, f[i - 1])]
  <2>1. f \in [0 .. m -> Searches(k)] /\ f[0] = begin /\ \A i \in 1 .. m : f[i] = F[i][f[i - 1]]
    BY <1>3 DEF Solution
  <2>2. ASSUME NEW i \in 0 .. m
        PROVE  f[i] = IF i = 0 THEN begin ELSE Hop(adjacency, d, ef, f[i - 1])
    <3>1. CASE i = 0
      BY <2>1, <3>1
    <3>2. CASE i # 0
      <4>1. i \in 1 .. m /\ f[i - 1] \in Searches(k)
        BY <1>0, <2>1, <3>2
      <4> QED
        BY <1>2, <2>1, <3>2, <4>1
    <3> QED
      BY <3>1, <3>2
  <2> QED
    BY <2>1, <2>2
<1>5. M = [i \in 0 .. m |-> IF i = 0 THEN begin ELSE Hop(adjacency, d, ef, M[i - 1])]
  BY <1>4, Zenon DEF Searching, m
<1> HIDE DEF M
<1>6. \A i \in 0 .. m : M[i] = IF i = 0 THEN begin ELSE Hop(adjacency, d, ef, M[i - 1])
  BY <1>5
<1>7. \A i \in 1 .. m : M[i] = Hop(adjacency, d, ef, M[i - 1])
  BY <1>0, <1>6
<1>8. M[0] = begin /\ DOMAIN M = 0 .. m /\ M = [i \in 0 .. m |-> M[i]]
  BY <1>0, <1>5, <1>6
<1>9. 0 .. m \subseteq {i \in 0 .. m : M[i] \in Searches(k)}
  <2> DEFINE T == {i \in 0 .. m : M[i] \in Searches(k)}
  <2>1. 0 \in T
    BY <1>0, <1>8, <1>10
  <2>2. ASSUME NEW i \in 0 .. m - 1, i \in T PROVE i + 1 \in T
    <3>1. i + 1 \in 1 .. m /\ (i + 1) - 1 = i
      BY <1>0
    <3>2. M[i + 1] = Hop(adjacency, d, ef, M[i])
      BY <1>7, <3>1
    <3>3. M[i + 1] \in Searches(k)
      BY <1>0, <2>2, <3>1, <3>2, HopType
    <3> QED
      BY <3>1, <3>3
  <2> HIDE DEF T
  <2> QED
    BY <1>0, <2>1, <2>2, Induct DEF T
<1> QED
  BY <1>7, <1>8, <1>9 DEF M, m, Run

(* And of two that go together.                                             *)
LEMMA SearchingAlike ==
    ASSUME NEW k \in Nat, NEW d \in Distances(k), NEW ef, NEW adjacency \in Lists(k),
           NEW a \in Searches(k), NEW b \in Searches(k), Together(a, b, k)
    PROVE  /\ Searching(adjacency, d, ef, a)[Count(d)] \in Searches(k)
           /\ Together(Searching(adjacency, d, ef, a)[Count(d)],
                       Searching(adjacency, d, ef, b)[Count(d)], k)
<1> DEFINE m == Count(d)
           A == Searching(adjacency, d, ef, a)
           B == Searching(adjacency, d, ef, b)
           T == {i \in 0 .. m : Together(A[i], B[i], k)}
<1>0. m \in Nat
  BY CountOf
<1>1. /\ A \in [0 .. m -> Searches(k)] /\ A[0] = a
      /\ \A i \in 1 .. m : A[i] = Hop(adjacency, d, ef, A[i - 1])
  <2>1. Run(A, m, Searches(k), a)
    BY SearchingIs
  <2>3. \A i \in 1 .. m : A[i] = Hop(adjacency, d, ef, A[i - 1])
    BY SearchingIs
  <2> HIDE DEF A, B, m
  <2> QED
    BY <2>1, <2>3 DEF Run
<1>2. /\ B \in [0 .. m -> Searches(k)] /\ B[0] = b
      /\ \A i \in 1 .. m : B[i] = Hop(adjacency, d, ef, B[i - 1])
  <2>1. Run(B, m, Searches(k), b)
    BY SearchingIs
  <2>3. \A i \in 1 .. m : B[i] = Hop(adjacency, d, ef, B[i - 1])
    BY SearchingIs
  <2> HIDE DEF A, B, m
  <2> QED
    BY <2>1, <2>3 DEF Run
<1> HIDE DEF A, B, m
<1>3. 0 \in T
  BY <1>0, <1>1, <1>2
<1>4. ASSUME NEW i \in 0 .. m - 1, i \in T PROVE i + 1 \in T
  <2>1. i + 1 \in 1 .. m /\ (i + 1) - 1 = i /\ i \in 0 .. m
    BY <1>0
  <2>2. A[i] \in Searches(k) /\ B[i] \in Searches(k) /\ Together(A[i], B[i], k)
    BY <1>1, <1>2, <1>4, <2>1
  <2>3. A[i + 1] = Hop(adjacency, d, ef, A[i]) /\ B[i + 1] = Hop(adjacency, d, ef, B[i])
    BY <1>1, <1>2, <2>1
  <2>4. Together(A[i + 1], B[i + 1], k)
    BY <1>0, <2>1, <2>2, <2>3, HopAlike
  <2> QED
    BY <2>1, <2>4
<1> HIDE DEF T
<1>5. 0 .. m \subseteq T
  BY <1>0, <1>3, <1>4, Induct
<1>6. Together(A[m], B[m], k) /\ A[m] \in Searches(k) /\ B[m] \in Searches(k)
  BY <1>0, <1>1, <1>2, <1>5 DEF T
<1> QED
  BY <1>6 DEF A, B, m

LEMMA NearestNodes ==
    ASSUME NEW k \in Nat, NEW d \in Distances(k), NEW S \in SUBSET (0 .. k - 1), NEW limit \in Nat
    PROVE  Nearest(d, S, limit) \in Seq(0 .. k - 1)
<1>1. IsFiniteSet(S) /\ S \in SUBSET Int /\ S \subseteq 0 .. k - 1
  BY NodesFinite
<1>2. \A a \in S : d[a] \in Int
  BY DEF Distances
<1>3. Nearest(d, S, limit) \in Seq(S)
  BY <1>1, <1>2, NearestType
<1> DEFINE q == Nearest(d, S, limit)
           T == 0 .. k - 1
<1>4. S \subseteq T /\ q \in Seq(S)
  BY <1>1, <1>3
<1> HIDE DEF q, T
<1>5. q \in Seq(T)
  BY <1>4, SeqWidens
<1> QED
  BY <1>5 DEF q, T

LEMMA FoundType ==
    ASSUME NEW k \in Nat, NEW sc \in Scratches(k), NEW q \in Seq(0 .. k - 1)
    PROVE  [sc EXCEPT !.found = q] \in Scratches(k) /\ [sc EXCEPT !.found = q].found = q
<1> DEFINE x == [sc EXCEPT !.found = q]
<1>1. sc \in ScratchType(k) /\ MarksPast(sc, k)
  BY DEF Scratches
<1>2. /\ x \in ScratchType(k) /\ x.found = q /\ x.mark = sc.mark /\ x.marks = sc.marks
  BY <1>1 DEF ScratchType
<1> HIDE DEF x
<1>3. MarksPast(x, k)
  BY <1>1, <1>2 DEF MarksPast
<1> QED
  BY <1>2, <1>3 DEF Scratches, x

(* A search of a layer finds the same whatever its scratch was used for.    *)
LEMMA SearchLayerAlike ==
    ASSUME NEW k \in Nat, NEW d \in Distances(k), NEW ef \in Nat, NEW adjacency \in Lists(k),
           NEW entries \in Seq(0 .. k - 1), NEW a, IsScratch(a, k), NEW b, IsScratch(b, k)
    PROVE  /\ SearchLayer(adjacency, d, entries, ef, a) \in Scratches(k)
           /\ SearchLayer(adjacency, d, entries, ef, a).found
                 = SearchLayer(adjacency, d, entries, ef, b).found
<1> DEFINE Blank(sc) == [sc |-> Reset(sc), cand |-> {}, res |-> {}]
           begin(sc) == VisitAll(d, ef, Blank(sc), entries)
           end(sc) == Searching(adjacency, d, ef, begin(sc))[Count(d)]
<1>1. /\ Reset(a) \in Scratches(k) /\ Reset(b) \in Scratches(k)
      /\ Alike(Reset(a), Reset(b), k)
  BY ResetIs, ResetsAlike
<1>2. Blank(a) \in Searches(k) /\ Blank(b) \in Searches(k) /\ Together(Blank(a), Blank(b), k)
  BY <1>1 DEF Searches, Together
<1> HIDE DEF Blank
<1>3. begin(a) \in Searches(k) /\ begin(b) \in Searches(k) /\ Together(begin(a), begin(b), k)
  BY <1>2, VisitingAlike
<1> HIDE DEF begin
<1>4. end(a) \in Searches(k) /\ Together(end(a), end(b), k)
  BY <1>3, SearchingAlike
<1>5. Together(end(b), end(a), k)
  BY <1>4 DEF Together, Alike
<1>6. end(b) \in Searches(k)
  <2>1. Together(begin(b), begin(a), k)
    BY <1>3 DEF Together, Alike
  <2> QED
    BY <1>3, <2>1, SearchingAlike
<1>7. \A sc : SearchLayer(adjacency, d, entries, ef, sc)
                 = [end(sc).sc EXCEPT !.found = Nearest(d, end(sc).res, ef)]
  BY Zenon DEF SearchLayer, begin, Blank
<1> HIDE DEF end
<1>8. /\ end(a).sc \in Scratches(k) /\ end(b).sc \in Scratches(k)
      /\ end(a).res \in SUBSET (0 .. k - 1) /\ end(a).res = end(b).res
  BY <1>4, <1>6 DEF Searches, Together
<1>9. Nearest(d, end(a).res, ef) \in Seq(0 .. k - 1)
  BY <1>8, NearestNodes
<1>10. \A q \in Seq(0 .. k - 1) :
          /\ [end(a).sc EXCEPT !.found = q] \in Scratches(k)
          /\ [end(a).sc EXCEPT !.found = q].found = q
          /\ [end(b).sc EXCEPT !.found = q].found = q
  BY <1>8, FoundType
<1>11. SearchLayer(adjacency, d, entries, ef, a)
          = [end(a).sc EXCEPT !.found = Nearest(d, end(a).res, ef)]
  BY <1>7
<1>12. SearchLayer(adjacency, d, entries, ef, b)
          = [end(b).sc EXCEPT !.found = Nearest(d, end(a).res, ef)]
  BY <1>7, <1>8
<1> QED
  BY <1>9, <1>10, <1>11, <1>12

----------------------------------------------------------------------------
(* Pruning, and the lists made of results.                                  *)

LEMMA ToSetType ==
    ASSUME NEW S, NEW q \in Seq(S)
    PROVE  ToSet(q) \in SUBSET S
BY DEF ToSet

LEMMA RowType ==
    ASSUME NEW k \in Nat, NEW dist \in Tables(k), NEW s \in 0 .. k - 1
    PROVE  dist[s] \in Distances(k)
BY DEF Tables, Distances

LEMMA KeepType ==
    ASSUME NEW mode, NEW dist, NEW s, NEW maxDegree, NEW S, NEW kept \in Seq(S), NEW next \in S
    PROVE  Keep(mode, dist, s, kept, next, maxDegree) \in Seq(S)
<1>1. Append(kept, next) \in Seq(S)
  OBVIOUS
<1>2. Keep(mode, dist, s, kept, next, maxDegree) \in {kept, Append(kept, next)}
  BY DEF Keep
<1> QED
  BY <1>1, <1>2

(* What is kept after each candidate.                                       *)
LEMMA PruningIs ==
    ASSUME NEW mode, NEW dist, NEW s, NEW maxDegree, NEW S, NEW sorted \in Seq(S)
    PROVE  /\ Run(Pruning(mode, dist, s, sorted, maxDegree), Len(sorted), Seq(S), <<>>)
           /\ \A i \in 1 .. Len(sorted) :
                 Pruning(mode, dist, s, sorted, maxDegree)[i]
                    = Keep(mode, dist, s, Pruning(mode, dist, s, sorted, maxDegree)[i - 1], sorted[i], maxDegree)
<1> DEFINE m == Len(sorted)
           F == [i \in 1 .. m |-> [x \in Seq(S) |-> Keep(mode, dist, s, x, sorted[i], maxDegree)]]
           M == Pruning(mode, dist, s, sorted, maxDegree)
<1>0. m \in Nat /\ \A i \in 1 .. m : sorted[i] \in S
  OBVIOUS
<1>1. F \in [1 .. m -> [Seq(S) -> Seq(S)]]
  BY <1>0, KeepType
<1>2. \A i \in 1 .. m : \A x \in Seq(S) : F[i][x] = Keep(mode, dist, s, x, sorted[i], maxDegree)
  OBVIOUS
<1>10. <<>> \in Seq(S)
  OBVIOUS
<1> HIDE DEF F, m
<1>3. PICK f : Solution(m, Seq(S), <<>>, F, f)
  BY <1>0, <1>1, <1>10, Recursion
<1>4. f = [i \in 0 .. m |-> IF i = 0 THEN <<>> ELSE Keep(mode, dist, s, f[i - 1], sorted[i], maxDegree)]
  <2>1. f \in [0 .. m -> Seq(S)] /\ f[0] = <<>> /\ \A i \in 1 .. m : f[i] = F[i][f[i - 1]]
    BY <1>3 DEF Solution
  <2>2. ASSUME NEW i \in 0 .. m
        PROVE  f[i] = IF i = 0 THEN <<>> ELSE Keep(mode, dist, s, f[i - 1], sorted[i], maxDegree)
    <3>1. CASE i = 0
      BY <2>1, <3>1
    <3>2. CASE i # 0
      <4>1. i \in 1 .. m /\ f[i - 1] \in Seq(S)
        BY <1>0, <2>1, <3>2
      <4> QED
        BY <1>2, <2>1, <3>2, <4>1
    <3> QED
      BY <3>1, <3>2
  <2> QED
    BY <2>1, <2>2
<1>5. M = [i \in 0 .. m |-> IF i = 0 THEN <<>> ELSE Keep(mode, dist, s, M[i - 1], sorted[i], maxDegree)]
  BY <1>4, Zenon DEF Pruning, m
<1> HIDE DEF M
<1>6. \A i \in 0 .. m : M[i] = IF i = 0 THEN <<>> ELSE Keep(mode, dist, s, M[i - 1], sorted[i], maxDegree)
  BY <1>5
<1>7. \A i \in 1 .. m : M[i] = Keep(mode, dist, s, M[i - 1], sorted[i], maxDegree)
  BY <1>0, <1>6
<1>8. M[0] = <<>> /\ DOMAIN M = 0 .. m /\ M = [i \in 0 .. m |-> M[i]]
  BY <1>0, <1>5, <1>6
<1>9. 0 .. m \subseteq {i \in 0 .. m : M[i] \in Seq(S)}
  <2> DEFINE T == {i \in 0 .. m : M[i] \in Seq(S)}
  <2>1. 0 \in T
    <3>1. M[0] \in Seq(S)
      BY <1>8, <1>10
    <3> QED
      BY <1>0, <3>1
  <2>2. ASSUME NEW i \in 0 .. m - 1, i \in T PROVE i + 1 \in T
    <3>1. i + 1 \in 1 .. m /\ (i + 1) - 1 = i
      BY <1>0
    <3>2. M[i + 1] = Keep(mode, dist, s, M[i], sorted[i + 1], maxDegree)
      BY <1>7, <3>1
    <3>3. M[i + 1] \in Seq(S)
      BY <1>0, <2>2, <3>1, <3>2, KeepType
    <3> QED
      BY <3>1, <3>3
  <2> HIDE DEF T
  <2> QED
    BY <1>0, <2>1, <2>2, Induct DEF T
<1> QED
  BY <1>7, <1>8, <1>9 DEF M, m, Run

LEMMA PruneType ==
    ASSUME NEW mode, NEW k \in Nat, NEW dist \in Tables(k), NEW s \in 0 .. k - 1,
           NEW candidates \in Seq(0 .. k - 1), NEW maxDegree
    PROVE  Prune(mode, dist, s, candidates, maxDegree) \in Seq(0 .. k - 1)
<1> DEFINE sorted == Normalized(dist, s, candidates)
           S == 0 .. k - 1
<1>1. ToSet(candidates) \ {s} \in SUBSET (0 .. k - 1) /\ Len(candidates) \in Nat
  BY ToSetType
<1>2. dist[s] \in Distances(k)
  BY RowType
<1>3. sorted \in Seq(S)
  BY <1>1, <1>2, NearestNodes DEF Normalized
<1> HIDE DEF sorted, S
<1>4. Run(Pruning(mode, dist, s, sorted, maxDegree), Len(sorted), Seq(S), <<>>)
  BY <1>3, PruningIs
<1>5. Len(sorted) \in 0 .. Len(sorted)
  BY <1>3
<1>6. Pruning(mode, dist, s, sorted, maxDegree)[Len(sorted)] \in Seq(S)
  BY <1>4, <1>5 DEF Run
<1> QED
  BY <1>6 DEF Prune, sorted, S

LEMMA TakeResultType ==
    ASSUME NEW s, NEW limit, NEW S, NEW taken \in Seq(S), NEW id \in S
    PROVE  TakeResult(s, taken, id, limit) \in Seq(S)
<1>1. Append(taken, id) \in Seq(S)
  OBVIOUS
<1>2. TakeResult(s, taken, id, limit) \in {taken, Append(taken, id)}
  BY DEF TakeResult
<1> QED
  BY <1>1, <1>2

(* The list after each result.                                              *)
LEMMA TakingResultsIs ==
    ASSUME NEW s, NEW limit, NEW S, NEW results \in Seq(S)
    PROVE  /\ Run(TakingResults(s, results, limit), Len(results), Seq(S), <<>>)
           /\ \A i \in 1 .. Len(results) :
                 TakingResults(s, results, limit)[i]
                    = TakeResult(s, TakingResults(s, results, limit)[i - 1], results[i], limit)
<1> DEFINE m == Len(results)
           F == [i \in 1 .. m |-> [x \in Seq(S) |-> TakeResult(s, x, results[i], limit)]]
           M == TakingResults(s, results, limit)
<1>0. m \in Nat /\ \A i \in 1 .. m : results[i] \in S
  OBVIOUS
<1>1. F \in [1 .. m -> [Seq(S) -> Seq(S)]]
  BY <1>0, TakeResultType
<1>2. \A i \in 1 .. m : \A x \in Seq(S) : F[i][x] = TakeResult(s, x, results[i], limit)
  OBVIOUS
<1>10. <<>> \in Seq(S)
  OBVIOUS
<1> HIDE DEF F, m
<1>3. PICK f : Solution(m, Seq(S), <<>>, F, f)
  BY <1>0, <1>1, <1>10, Recursion
<1>4. f = [i \in 0 .. m |-> IF i = 0 THEN <<>> ELSE TakeResult(s, f[i - 1], results[i], limit)]
  <2>1. f \in [0 .. m -> Seq(S)] /\ f[0] = <<>> /\ \A i \in 1 .. m : f[i] = F[i][f[i - 1]]
    BY <1>3 DEF Solution
  <2>2. ASSUME NEW i \in 0 .. m
        PROVE  f[i] = IF i = 0 THEN <<>> ELSE TakeResult(s, f[i - 1], results[i], limit)
    <3>1. CASE i = 0
      BY <2>1, <3>1
    <3>2. CASE i # 0
      <4>1. i \in 1 .. m /\ f[i - 1] \in Seq(S)
        BY <1>0, <2>1, <3>2
      <4> QED
        BY <1>2, <2>1, <3>2, <4>1
    <3> QED
      BY <3>1, <3>2
  <2> QED
    BY <2>1, <2>2
<1>5. M = [i \in 0 .. m |-> IF i = 0 THEN <<>> ELSE TakeResult(s, M[i - 1], results[i], limit)]
  BY <1>4, Zenon DEF TakingResults, m
<1> HIDE DEF M
<1>6. \A i \in 0 .. m : M[i] = IF i = 0 THEN <<>> ELSE TakeResult(s, M[i - 1], results[i], limit)
  BY <1>5
<1>7. \A i \in 1 .. m : M[i] = TakeResult(s, M[i - 1], results[i], limit)
  BY <1>0, <1>6
<1>8. M[0] = <<>> /\ DOMAIN M = 0 .. m /\ M = [i \in 0 .. m |-> M[i]]
  BY <1>0, <1>5, <1>6
<1>9. 0 .. m \subseteq {i \in 0 .. m : M[i] \in Seq(S)}
  <2> DEFINE T == {i \in 0 .. m : M[i] \in Seq(S)}
  <2>1. 0 \in T
    <3>1. M[0] \in Seq(S)
      BY <1>8, <1>10
    <3> QED
      BY <1>0, <3>1
  <2>2. ASSUME NEW i \in 0 .. m - 1, i \in T PROVE i + 1 \in T
    <3>1. i + 1 \in 1 .. m /\ (i + 1) - 1 = i
      BY <1>0
    <3>2. M[i + 1] = TakeResult(s, M[i], results[i + 1], limit)
      BY <1>7, <3>1
    <3>3. M[i + 1] \in Seq(S)
      BY <1>0, <2>2, <3>1, <3>2, TakeResultType
    <3> QED
      BY <3>1, <3>3
  <2> HIDE DEF T
  <2> QED
    BY <1>0, <2>1, <2>2, Induct DEF T
<1> QED
  BY <1>7, <1>8, <1>9 DEF M, m, Run

LEMMA FromResultsType ==
    ASSUME NEW s, NEW limit, NEW S, NEW results \in Seq(S)
    PROVE  FromResults(s, results, limit) \in Seq(S)
<1>1. Run(TakingResults(s, results, limit), Len(results), Seq(S), <<>>)
  BY TakingResultsIs
<1>2. Len(results) \in 0 .. Len(results)
  OBVIOUS
<1> QED
  BY <1>1, <1>2 DEF FromResults, Run

LEMMA InOrderNodes ==
    ASSUME NEW k \in Nat, NEW S \in SUBSET (0 .. k - 1)
    PROVE  InOrder(S) \in Seq(0 .. k - 1)
<1>1. IsFiniteSet(S) /\ S \in SUBSET Int /\ S \subseteq 0 .. k - 1
  BY NodesFinite
<1>2. InOrder(S) \in Seq(S)
  BY <1>1, InOrderType
<1> DEFINE q == InOrder(S)
           T == 0 .. k - 1
<1>4. S \subseteq T /\ q \in Seq(S)
  BY <1>1, <1>2
<1> HIDE DEF q, T
<1>5. q \in Seq(T)
  BY <1>4, SeqWidens
<1> QED
  BY <1>5 DEF q, T

LEMMA MergeReverseType ==
    ASSUME NEW k \in Nat, NEW forward \in Lists(k)
    PROVE  MergeReverse(forward, k) \in Lists(k)
<1> DEFINE Back(u, sources) == InOrder({s \in sources : u \in ToSet(forward[s])})
           Merged(u) == Back(u, 0 .. u - 1) \o forward[u] \o Back(u, u .. k - 1)
<1>1. ASSUME NEW u \in 0 .. k - 1, NEW sources \in SUBSET (0 .. k - 1)
      PROVE  Back(u, sources) \in Seq(0 .. k - 1)
  <2>1. {s \in sources : u \in ToSet(forward[s])} \in SUBSET (0 .. k - 1)
    OBVIOUS
  <2> QED
    BY <2>1, InOrderNodes
<1> HIDE DEF Back
<1>2. ASSUME NEW u \in 0 .. k - 1 PROVE Merged(u) \in Seq(0 .. k - 1)
  <2>1. 0 .. u - 1 \in SUBSET (0 .. k - 1) /\ u .. k - 1 \in SUBSET (0 .. k - 1)
    OBVIOUS
  <2>2. Back(u, 0 .. u - 1) \in Seq(0 .. k - 1) /\ Back(u, u .. k - 1) \in Seq(0 .. k - 1)
    BY <1>1, <2>1
  <2>3. forward[u] \in Seq(0 .. k - 1)
    BY DEF Lists
  <2> QED
    BY <2>2, <2>3
<1>3. MergeReverse(forward, k) = [u \in 0 .. k - 1 |-> Merged(u)]
  BY Zenon DEF MergeReverse, Back
<1> HIDE DEF Merged
<1> QED
  BY <1>2, <1>3 DEF Lists

----------------------------------------------------------------------------
(* What a stage computes for a node.                                        *)

Forked ==
    {"exact", "init", "exchange", "acquire", "refresh", "estimate",
     "alpha forward", "alpha back", "rng forward", "rng back"}

Size(j) == Count(j.local)

\* What a stage can be given: a layer of some nodes, and lists of them unless
\* it is the first.
IsJob(j) ==
    /\ j.stage \in Forked
    /\ Size(j) \in Nat \ {0} /\ j.local \in Tables(Size(j))
    /\ j.cfg \in ConfigType /\ j.layer \in Int
    /\ j.stage \in Forked \ {"exact", "init"} => j.input \in Lists(Size(j))

\* What the stage is to write for a node.
Expected(j, s) == Written(j, s, Computed(j, s, NewScratch(Size(j))).found)

LEMMA BoundsType ==
    ASSUME NEW c \in ConfigType, NEW k \in Nat \ {0}
    PROVE  InitialK(c, k) \in Nat /\ CandidateK(c, k) \in Nat /\ SearchEf(c, k) \in Nat
<1>1. c.K0 \in Nat /\ c.CandidateK \in Nat /\ c.ConstructionL \in Nat /\ k - 1 \in Nat
  BY DEF ConfigType, Positive
<1> QED
  BY <1>1 DEF InitialK, CandidateK, SearchEf, AtMost

\* The scratch of a function that does not use it.
LEMMA FoundOnly ==
    ASSUME NEW k \in Nat, NEW sc, IsScratch(sc, k), NEW x
    PROVE  IsScratch([sc EXCEPT !.found = x], k) /\ [sc EXCEPT !.found = x].found = x
<1> DEFINE y == [marks |-> sc.marks, mark |-> sc.mark, found |-> x]
<1>1. [sc EXCEPT !.found = x] = y
  BY DEF IsScratch
<1>2. y.marks = sc.marks /\ y.mark = sc.mark /\ y.found = x
  OBVIOUS
<1>3. y = [marks |-> y.marks, mark |-> y.mark, found |-> y.found]
  OBVIOUS
<1> HIDE DEF y
<1>4. MarksPast(y, k)
  BY <1>2 DEF IsScratch, MarksPast
<1>5. IsScratch(y, k)
  BY <1>2, <1>3, <1>4 DEF IsScratch
<1> QED
  BY <1>1, <1>2, <1>5

\* What the functions that do not use their scratch find.
Alone(j, s) ==
    IF j.stage = "exact" THEN ExactCandidatesForNode(j.local, s, InitialK(j.cfg, Size(j)))
    ELSE IF j.stage = "estimate"
    THEN ExactCandidatesForNode(j.local, Control(j, s), CandidateK(j.cfg, Size(j)))
    ELSE IF j.stage \in {"alpha forward", "alpha back"}
    THEN Prune("alpha", j.local, s, j.input[s], LayerMaxDegree(j.cfg.M, j.layer))
    ELSE Prune("rng", j.local, s, j.input[s], LayerMaxDegree(j.cfg.M, j.layer))

LEMMA ComputedIs ==
    ASSUME NEW j, j.stage \in Forked, NEW s, NEW sc
    PROVE  /\ j.stage = "init" =>
                 Computed(j, s, sc) = InitialIds(sc, Size(j), s, InitialK(j.cfg, Size(j)),
                                                 <<j.cfg.Seed, j.layer, Size(j)>>)
           /\ j.stage = "exchange" => Computed(j, s, sc) = Exchange(sc, j.input, s, Size(j))
           /\ j.stage \in {"acquire", "refresh"} =>
                 Computed(j, s, sc) = SearchLayer(j.input, j.local[s], <<s>>,
                                                  SearchEf(j.cfg, Size(j)), sc)
           /\ j.stage \notin {"init", "exchange", "acquire", "refresh"} =>
                 Computed(j, s, sc) = [sc EXCEPT !.found = Alone(j, s)]
<1>1. CASE j.stage = "exact"
  BY <1>1 DEF Computed, Alone, Size
<1>2. CASE j.stage = "init"
  BY <1>2 DEF Computed, Alone, Size
<1>3. CASE j.stage = "exchange"
  BY <1>3 DEF Computed, Alone, Size
<1>4. CASE j.stage \in {"acquire", "refresh"}
  BY <1>4 DEF Computed, Alone, Size
<1>5. CASE j.stage = "estimate"
  BY <1>5 DEF Computed, Alone, Size
<1>6. CASE j.stage \in {"alpha forward", "alpha back"}
  BY <1>6 DEF Computed, Alone, Size
<1>7. CASE j.stage \in {"rng forward", "rng back"}
  BY <1>7 DEF Computed, Alone, Size
<1> QED
  BY <1>1, <1>2, <1>3, <1>4, <1>5, <1>6, <1>7 DEF Forked

(* A stage finds the same with the scratch of a worker as with a new one,    *)
(* and leaves it usable.                                                    *)
LEMMA ComputedAlike ==
    ASSUME DrawsAreNumbers, NEW j, IsJob(j), NEW s \in 0 .. Size(j) - 1,
           NEW sc, IsScratch(sc, Size(j))
    PROVE  /\ IsScratch(Computed(j, s, sc), Size(j))
           /\ Computed(j, s, sc).found = Computed(j, s, NewScratch(Size(j))).found
<1> DEFINE k == Size(j)
           new == NewScratch(k)
           stream == <<j.cfg.Seed, j.layer, k>>
           ef == SearchEf(j.cfg, k)
<1>1. /\ k \in Nat \ {0} /\ k \in Nat /\ s \in 0 .. k - 1 /\ j.stage \in Forked
      /\ IsScratch(sc, k) /\ IsScratch(new, k)
      /\ j.local \in Tables(k) /\ j.cfg \in ConfigType
  BY NewIsScratch DEF IsJob
<1>2. stream \in Seq(Int)
  BY <1>1 DEF IsJob, ConfigType, Positive
<1>3. ef \in Nat
  BY <1>1, BoundsType
<1>4. j.local[s] \in Distances(k)
  BY <1>1, RowType
<1>5. <<s>> \in Seq(0 .. k - 1)
  BY <1>1
<1>6. ASSUME NEW x \in Scratches(k), NEW y, Alike(x, y, k), Computed(j, s, sc) = x,
             Computed(j, s, new) = y
      PROVE  /\ IsScratch(Computed(j, s, sc), k)
             /\ Computed(j, s, sc).found = Computed(j, s, new).found
  BY <1>1, <1>6, ScratchIs DEF Alike
<1> HIDE DEF k, new, stream, ef
<1>7. CASE j.stage = "init"
  <2> DEFINE limit == InitialK(j.cfg, k)
             X(y) == InitialIds(y, k, s, limit, stream)
  <2>1. X(sc) \in Scratches(k) /\ Alike(X(sc), X(new), k)
    BY <1>1, <1>2, InitialIdsAlike
  <2>2. \A y : Computed(j, s, y) = X(y)
    BY <1>1, <1>7, ComputedIs DEF k, stream
  <2> HIDE DEF X
  <2> QED
    BY <1>6, <2>1, <2>2 DEF k, new
<1>8. CASE j.stage = "exchange"
  <2> DEFINE X(y) == Exchange(y, j.input, s, k)
  <2>1. j.input \in Lists(k)
    BY <1>8 DEF IsJob, Forked, k
  <2>2. X(sc) \in Scratches(k) /\ Alike(X(sc), X(new), k)
    BY <1>1, <2>1, ExchangeAlike
  <2>3. \A y : Computed(j, s, y) = X(y)
    BY <1>1, <1>8, ComputedIs DEF k
  <2> HIDE DEF X
  <2> QED
    BY <1>6, <2>2, <2>3 DEF k, new
<1>9. CASE j.stage \in {"acquire", "refresh"}
  <2> DEFINE X(y) == SearchLayer(j.input, j.local[s], <<s>>, ef, y)
  <2>1. j.input \in Lists(k)
    BY <1>9 DEF IsJob, Forked, k
  <2>2. X(sc) \in Scratches(k) /\ X(sc).found = X(new).found
    <3> DEFINE d == j.local[s]
               q == <<s>>
    <3>1. d \in Distances(k) /\ q \in Seq(0 .. k - 1)
      BY <1>4, <1>5
    <3> HIDE DEF d, q
    <3>2. SearchLayer(j.input, d, q, ef, sc) \in Scratches(k)
      BY <1>1, <1>3, <2>1, <3>1, SearchLayerAlike
    <3>3. SearchLayer(j.input, d, q, ef, sc).found = SearchLayer(j.input, d, q, ef, new).found
      BY <1>1, <1>3, <2>1, <3>1, SearchLayerAlike
    <3> QED
      BY <3>2, <3>3 DEF d, q
  <2>3. \A y : Computed(j, s, y) = X(y)
    BY <1>1, <1>9, ComputedIs DEF k, ef
  <2> DEFINE x == X(sc)
  <2>4. x \in Scratches(k)
    BY <2>2
  <2> HIDE DEF x
  <2>5. IsScratch(x, k)
    BY <1>1, <2>4, ScratchIs
  <2> USE DEF x
  <2> HIDE DEF X
  <2> QED
    BY <2>2, <2>3, <2>5 DEF k, new
<1>10. CASE j.stage \notin {"init", "exchange", "acquire", "refresh"}
  <2>1. \A y : Computed(j, s, y) = [y EXCEPT !.found = Alone(j, s)]
    BY <1>1, <1>10, ComputedIs
  <2>2. /\ IsScratch([sc EXCEPT !.found = Alone(j, s)], k)
        /\ [sc EXCEPT !.found = Alone(j, s)].found = Alone(j, s)
        /\ [new EXCEPT !.found = Alone(j, s)].found = Alone(j, s)
    BY <1>1, FoundOnly
  <2> QED
    BY <2>1, <2>2 DEF k, new
<1> QED
  BY <1>7, <1>8, <1>9, <1>10

(* Except for an estimate, what is found is a list of nodes.                *)
LEMMA FoundNodes ==
    ASSUME DrawsAreNumbers, NEW j, IsJob(j), j.stage # "estimate", NEW s \in 0 .. Size(j) - 1
    PROVE  Computed(j, s, NewScratch(Size(j))).found \in Seq(0 .. Size(j) - 1)
<1> DEFINE k == Size(j)
           new == NewScratch(k)
           stream == <<j.cfg.Seed, j.layer, k>>
           ef == SearchEf(j.cfg, k)
<1>1. /\ k \in Nat \ {0} /\ k \in Nat /\ s \in 0 .. k - 1 /\ j.stage \in Forked
      /\ IsScratch(new, k)
      /\ j.local \in Tables(k) /\ j.cfg \in ConfigType
  BY NewIsScratch DEF IsJob
<1>2. stream \in Seq(Int)
  BY <1>1 DEF IsJob, ConfigType, Positive
<1>3. ef \in Nat /\ InitialK(j.cfg, k) \in Nat
  BY <1>1, BoundsType
<1>4. j.local[s] \in Distances(k)
  BY <1>1, RowType
<1>5. <<s>> \in Seq(0 .. k - 1)
  BY <1>1
<1>6. \A x \in Scratches(k) : x.found \in Seq(0 .. k - 1)
  BY DEF Scratches, ScratchType
<1> HIDE DEF k, new, stream, ef
<1>7. CASE j.stage = "init"
  <2> DEFINE limit == InitialK(j.cfg, k)
             x == InitialIds(new, k, s, limit, stream)
  <2>1. x \in Scratches(k)
    BY <1>1, <1>2, InitialIdsAlike
  <2>2. Computed(j, s, new) = x
    BY <1>1, <1>7, ComputedIs DEF k, stream
  <2> QED
    BY <1>6, <2>1, <2>2 DEF k, new
<1>8. CASE j.stage = "exchange"
  <2> DEFINE x == Exchange(new, j.input, s, k)
  <2>1. j.input \in Lists(k)
    BY <1>8 DEF IsJob, Forked, k
  <2>2. x \in Scratches(k)
    BY <1>1, <2>1, ExchangeAlike
  <2>3. Computed(j, s, new) = x
    BY <1>1, <1>8, ComputedIs DEF k
  <2> QED
    BY <1>6, <2>2, <2>3 DEF k, new
<1>9. CASE j.stage \in {"acquire", "refresh"}
  <2> DEFINE x == SearchLayer(j.input, j.local[s], <<s>>, ef, new)
  <2>1. j.input \in Lists(k)
    BY <1>9 DEF IsJob, Forked, k
  <2>2. x \in Scratches(k)
    BY <1>1, <1>3, <1>4, <1>5, <2>1, SearchLayerAlike
  <2>3. Computed(j, s, new) = x
    BY <1>1, <1>9, ComputedIs DEF k, ef
  <2> QED
    BY <1>6, <2>2, <2>3 DEF k, new
<1>10. CASE j.stage \notin {"init", "exchange", "acquire", "refresh"}
  <2>1. Computed(j, s, new) = [new EXCEPT !.found = Alone(j, s)]
    BY <1>1, <1>10, ComputedIs
  <2>2. [new EXCEPT !.found = Alone(j, s)].found = Alone(j, s)
    BY <1>1, FoundOnly
  <2>3. Alone(j, s) \in Seq(0 .. k - 1)
    <3>1. CASE j.stage = "exact"
      <4>1. Alone(j, s) = Nearest(j.local[s], DOMAIN j.local \ {s}, InitialK(j.cfg, k))
        BY <3>1 DEF Alone, ExactCandidatesForNode, k
      <4>2. DOMAIN j.local \ {s} \in SUBSET (0 .. k - 1)
        BY <1>1 DEF Tables
      <4> QED
        BY <1>1, <1>3, <1>4, <4>1, <4>2, NearestNodes
    <3>2. CASE j.stage # "exact"
      <4>1. j.input \in Lists(k)
        BY <1>10, <3>2 DEF IsJob, Forked, k
      <4>2. j.input[s] \in Seq(0 .. k - 1)
        BY <1>1, <4>1 DEF Lists
      <4>3. \A mode, m : Prune(mode, j.local, s, j.input[s], m) \in Seq(0 .. k - 1)
        BY <1>1, <4>2, PruneType
      <4> QED
        BY <3>2, <4>3 DEF Alone
    <3> QED
      BY <3>1, <3>2
  <2> QED
    BY <2>1, <2>2, <2>3 DEF k, new
<1> QED
  BY <1>7, <1>8, <1>9, <1>10

LEMMA ExpectedType ==
    ASSUME DrawsAreNumbers, NEW j, IsJob(j), j.stage # "estimate", NEW s \in 0 .. Size(j) - 1
    PROVE  Expected(j, s) \in Seq(0 .. Size(j) - 1)
<1> DEFINE k == Size(j)
           found == Computed(j, s, NewScratch(k)).found
<1>1. /\ k \in Nat \ {0} /\ k \in Nat /\ s \in 0 .. k - 1 /\ j.stage \in Forked
      /\ j.local \in Tables(k) /\ j.cfg \in ConfigType
  BY DEF IsJob
<1>2. found \in Seq(0 .. k - 1)
  BY FoundNodes
<1>3. Expected(j, s) = Written(j, s, found)
  BY DEF Expected
<1> HIDE DEF k, found
<1>4. CASE j.stage \in {"init", "exchange"}
  <2>1. Written(j, s, found) = Nearest(j.local[s], ToSet(found), InitialK(j.cfg, k))
    BY <1>4 DEF Written, Size, k
  <2>2. InitialK(j.cfg, k) \in Nat /\ j.local[s] \in Distances(k)
    BY <1>1, BoundsType, RowType
  <2>3. ToSet(found) \in SUBSET (0 .. k - 1)
    BY <1>2, ToSetType
  <2>4. Written(j, s, found) \in Seq(0 .. k - 1)
    BY <1>1, <2>1, <2>2, <2>3, NearestNodes
  <2> QED
    BY <1>3, <2>4 DEF k
<1>5. CASE j.stage \in {"acquire", "refresh"}
  <2>1. Written(j, s, found) = FromResults(s, found, CandidateK(j.cfg, k))
    BY <1>5 DEF Written, Size, k
  <2>2. Written(j, s, found) \in Seq(0 .. k - 1)
    BY <1>2, <2>1, FromResultsType
  <2> QED
    BY <1>3, <2>2 DEF k
<1>6. CASE j.stage \notin {"init", "exchange", "acquire", "refresh"}
  <2>1. Written(j, s, found) = found
    BY <1>6 DEF Written
  <2> QED
    BY <1>2, <1>3, <2>1 DEF k
<1> QED
  BY <1>4, <1>5, <1>6

----------------------------------------------------------------------------
(* The shares of parallelForNodes (module Workers) are a partition of the    *)
(* nodes, for every number of nodes and every number of workers.            *)

\* A quotient is below c just when its dividend is below c times the divisor.
LEMMA QuotientBelow ==
    ASSUME NEW a \in Nat, NEW b \in Nat \ {0}, NEW c \in Nat
    PROVE  /\ a \div b \in Nat
           /\ a \div b < c <=> a < c * b
  <1> DEFINE q == a \div b
             r == a % b
  <1>1. q \in Nat /\ r \in 0 .. b - 1 /\ a = b * q + r
    BY SMT
  <1>2. CASE q < c
    <2>1. (q + 1) * b <= c * b
      BY <1>1, <1>2, SMT
    <2>. QED  BY <1>1, <1>2, <2>1, SMT
  <1>3. CASE ~ (q < c)
    <2>1. c * b <= q * b
      BY <1>1, <1>3, SMT
    <2>. QED  BY <1>1, <1>3, <2>1, SMT
  <1>. QED  BY <1>1, <1>2, <1>3

\* effectiveWorkerCount: there is a worker, and no more of them than nodes
\* unless there are no nodes.
LEMMA EffectiveWorkers ==
    ASSUME NEW workers \in Int, NEW nodes \in Nat
    PROVE  /\ EffectiveWorkerCount(workers, nodes) \in Nat \ {0}
           /\ nodes > 0 => EffectiveWorkerCount(workers, nodes) <= nodes
  BY DEF EffectiveWorkerCount

\* Every node belongs to a worker: integer division drops no remainder.
THEOREM EveryNodeHasAWorker ==
    ASSUME NEW nodes \in Nat \ {0}, NEW workers \in Nat \ {0}, NEW node \in 0 .. nodes - 1
    PROVE  \E w \in 0 .. workers - 1 : node \in NodesOf(w, nodes, workers)
  <1> DEFINE w == ((node + 1) * workers - 1) \div nodes
             x == (node + 1) * workers - 1
  <1>1. x \in Nat
    <2>1. (node + 1) * workers >= workers  BY SMT
    <2>. QED  BY <2>1, SMT
  <1>2. w \in Nat /\ w * nodes <= x /\ x < (w + 1) * nodes
    <2>1. w \in Nat  BY <1>1, QuotientBelow
    <2>2. w < w + 1 <=> x < (w + 1) * nodes  BY <1>1, <2>1, QuotientBelow
    <2>3. w < w <=> x < w * nodes  BY <1>1, <2>1, QuotientBelow
    <2>. QED  BY <1>1, <2>1, <2>2, <2>3, SMT
  <1>3. w < workers
    <2>1. (node + 1) * workers <= nodes * workers  BY SMT
    <2>2. x < workers * nodes  BY <2>1, SMT
    <2>3. w < workers <=> x < workers * nodes  BY <1>1, QuotientBelow
    <2>. QED  BY <2>2, <2>3
  <1>4. (w * nodes) \div workers \in Nat /\ (w * nodes) \div workers < node + 1
    <2>1. w * nodes \in Nat  BY <1>2, SMT
    <2>2. w * nodes < (node + 1) * workers  BY <1>1, <1>2, <2>1, SMT
    <2>. QED  BY <2>1, <2>2, QuotientBelow
  <1>5. ((w + 1) * nodes) \div workers \in Nat /\ ~ (((w + 1) * nodes) \div workers < node + 1)
    <2>1. (w + 1) * nodes \in Nat  BY <1>2, SMT
    <2>2. ~ ((w + 1) * nodes < (node + 1) * workers)  BY <1>1, <1>2, <2>1, SMT
    <2>. QED  BY <2>1, <2>2, QuotientBelow
  <1>6. node \in NodesOf(w, nodes, workers)
    BY <1>4, <1>5, SMT DEF NodesOf
  <1>. QED  BY <1>2, <1>3, <1>6

\* No node belongs to two: the intervals meet but do not overlap, so what two
\* workers write is never the same list.
THEOREM NoNodeHasTwoWorkers ==
    ASSUME NEW nodes \in Nat, NEW workers \in Nat \ {0},
           NEW u \in 0 .. workers - 1, NEW w \in 0 .. workers - 1, u < w
    PROVE  NodesOf(u, nodes, workers) \cap NodesOf(w, nodes, workers) = {}
  <1>1. u * nodes \in Nat /\ (u + 1) * nodes \in Nat /\ w * nodes \in Nat /\ (w + 1) * nodes \in Nat
    BY SMT
  <1>2. (u + 1) * nodes <= w * nodes
    BY SMT
  <1> DEFINE last == ((u + 1) * nodes) \div workers
             first == (w * nodes) \div workers
  <1>3. last \in Nat /\ first \in Nat
    BY <1>1, QuotientBelow
  <1>4. first < last => w * nodes < last * workers
    BY <1>1, <1>3, QuotientBelow
  <1>5. ~ ((u + 1) * nodes < last * workers)
    BY <1>1, <1>3, QuotientBelow, SMT
  <1>6. last <= first
    <2>1. last * workers \in Nat  BY <1>3, SMT
    <2>. QED  BY <1>1, <1>2, <1>3, <1>4, <1>5, <2>1, SMT
  <1>. QED  BY <1>3, <1>6, SMT DEF NodesOf

\* Every node of a share is a node: the last interval ends with the last node.
THEOREM SharesAreNodes ==
    ASSUME NEW nodes \in Nat, NEW workers \in Nat \ {0}, NEW w \in 0 .. workers - 1
    PROVE  NodesOf(w, nodes, workers) \subseteq 0 .. nodes - 1
  <1>1. w * nodes \in Nat /\ (w + 1) * nodes \in Nat
    BY SMT
  <1>2. (w + 1) * nodes <= workers * nodes
    BY SMT
  <1>3. ((w + 1) * nodes) \div workers < nodes + 1
    <2>1. (w + 1) * nodes < (nodes + 1) * workers  BY <1>1, <1>2, SMT
    <2>. QED  BY <1>1, <2>1, QuotientBelow
  <1>4. (w * nodes) \div workers \in Nat /\ ((w + 1) * nodes) \div workers \in Nat
    BY <1>1, QuotientBelow
  <1>. QED  BY <1>3, <1>4, SMT DEF NodesOf

----------------------------------------------------------------------------
(* The nodes of a layer.                                                    *)

\* By level from the top, and by id within a level.
ByLevel(levels, S) ==
    {p \in S \X S : levels[p[1]] > levels[p[2]] \/ (levels[p[1]] = levels[p[2]] /\ p[1] < p[2])}

LayerIds(levels, l) == {id \in DOMAIN levels : levels[id] >= l}

LEMMA LevelOrders ==
    ASSUME NEW S \in SUBSET Int, NEW levels, \A a \in S : levels[a] \in Int
    PROVE  Orders(ByLevel(levels, S), S)
<1> DEFINE Before(a, b) == levels[a] > levels[b] \/ (levels[a] = levels[b] /\ a < b)
<1>1. \A a, b \in S : <<a, b>> \in ByLevel(levels, S) <=> Before(a, b)
  BY DEF ByLevel
<1>2. \A a, b \in S : a \in Int /\ b \in Int /\ levels[a] \in Int /\ levels[b] \in Int
  OBVIOUS
<1>3. \A a \in S : ~ Before(a, a)
  BY <1>2
<1>4. \A a, b, c \in S : Before(a, b) /\ Before(b, c) => Before(a, c)
  BY <1>2
<1>5. \A a, b \in S : a = b \/ Before(a, b) \/ Before(b, a)
  BY <1>2
<1> HIDE DEF Before
<1> QED
  BY <1>1, <1>3, <1>4, <1>5 DEF Orders

LEMMA LayoutType ==
    ASSUME NEW k \in Nat, NEW levels \in [0 .. k - 1 -> Nat], NEW l
    PROVE  /\ LayerIds(levels, l) \in SUBSET (0 .. k - 1)
           /\ Cardinality(LayerIds(levels, l)) \in Nat
           /\ Layout(levels, l) \in [0 .. Cardinality(LayerIds(levels, l)) - 1 -> LayerIds(levels, l)]
<1> DEFINE S == LayerIds(levels, l)
           m == Cardinality(S)
           Before(a, b) == levels[a] > levels[b] \/ (levels[a] = levels[b] /\ a < b)
           Pick(i) == CHOOSE id \in S : Cardinality({b \in S : Before(b, id)}) = i
<1>1. S \in SUBSET (0 .. k - 1)
  BY DEF LayerIds
<1>2. Layout(levels, l) = [i \in 0 .. m - 1 |-> Pick(i)]
  BY Zenon DEF Layout, LayerIds
<1> HIDE DEF S
<1>3. IsFiniteSet(S) /\ m \in Nat /\ S \in SUBSET Int
  BY <1>1, NodesFinite
<1>4. \A a \in S : levels[a] \in Int
  BY <1>1
<1>5. ASSUME NEW i \in 0 .. m - 1 PROVE Pick(i) \in S
  <2>1. PICK a \in S : Cardinality(Under(ByLevel(levels, S), S, a)) = i
    <3>1. Orders(ByLevel(levels, S), S)
      BY <1>3, <1>4, LevelOrders
    <3>2. HasRank(ByLevel(levels, S), S, i)
      BY <1>3, <3>1, Ranks
    <3> QED
      BY <3>2 DEF HasRank
  <2>2. Under(ByLevel(levels, S), S, a) = {b \in S : Before(b, a)}
    BY DEF Under, ByLevel
  <2>3. \E x \in S : Cardinality({b \in S : Before(b, x)}) = i
    BY <2>1, <2>2, Zenon
  <2> QED
    BY <2>3, Zenon
<1> HIDE DEF Pick
<1>6. [i \in 0 .. m - 1 |-> Pick(i)] \in [0 .. m - 1 -> S]
  BY <1>5
<1> QED
  BY <1>1, <1>2, <1>3, <1>6 DEF S

(* The top layer is above no level, and is the level of some node.           *)
LEMMA MaxLayerType ==
    ASSUME NEW k \in Nat \ {0}, NEW levels \in [0 .. k - 1 -> Nat]
    PROVE  /\ MaxAssignedLayer(levels) \in Nat
           /\ \A id \in 0 .. k - 1 : levels[id] <= MaxAssignedLayer(levels)
           /\ \E id \in 0 .. k - 1 : levels[id] = MaxAssignedLayer(levels)
<1> DEFINE S == 0 .. k - 1
<1>1. S \in SUBSET Int /\ IsFiniteSet(S) /\ Cardinality(S) = k /\ \A a \in S : levels[a] \in Int
  BY FS_Interval
<1>2. PICK a \in S : Cardinality(Under(ByLevel(levels, S), S, a)) = 0
  <2>1. 0 \in 0 .. Cardinality(S) - 1
    BY <1>1
  <2> HIDE DEF S
  <2>2. Orders(ByLevel(levels, S), S)
    BY <1>1, LevelOrders
  <2>3. HasRank(ByLevel(levels, S), S, 0)
    BY <1>1, <2>1, <2>2, Ranks
  <2> QED
    BY <2>3 DEF HasRank
<1>3. Under(ByLevel(levels, S), S, a) = {}
  <2>1. Under(ByLevel(levels, S), S, a) \in SUBSET S
    BY DEF Under
  <2>2. IsFiniteSet(Under(ByLevel(levels, S), S, a))
    BY <1>1, <2>1, FS_Subset
  <2> QED
    BY <1>2, <2>2, FS_EmptySet
<1>4. \A b \in S : levels[b] <= levels[a]
  <2> TAKE b \in S
  <2>1. ~ (<<b, a>> \in ByLevel(levels, S))
    BY <1>3 DEF Under
  <2>2. levels[a] \in Nat /\ levels[b] \in Nat
    OBVIOUS
  <2> QED
    BY <2>1, <2>2 DEF ByLevel
<1>5. Range(levels) = {levels[x] : x \in S}
  BY DEF Range
<1>6. \E l \in Range(levels) : \A x \in Range(levels) : x <= l
  BY <1>4, <1>5
<1> DEFINE top == MaxAssignedLayer(levels)
<1>7. top \in Range(levels) /\ \A x \in Range(levels) : x <= top
  BY <1>6 DEF MaxAssignedLayer
<1> HIDE DEF top
<1>8. top \in Nat /\ (\A id \in S : levels[id] <= top) /\ \E id \in S : levels[id] = top
  BY <1>5, <1>7
<1> QED
  BY <1>8 DEF top

----------------------------------------------------------------------------
(* The invariant.                                                           *)

Stages == Forked \cup {"idle", "layer", "standard"}

\* An index of the given data sets and configurations.
IsIndex(ix) ==
    /\ ix = [cfg |-> ix.cfg, dist |-> ix.dist, levels |-> ix.levels, layers |-> ix.layers,
             entryPoint |-> ix.entryPoint, maxLayer |-> ix.maxLayer,
             graphReady |-> ix.graphReady, builder |-> ix.builder]
    /\ ix.cfg \in ConfigType /\ \E c \in Configs : c.Seed = ix.cfg.Seed
    /\ Count(ix.dist) \in Nat /\ ix.dist \in Tables(Count(ix.dist))
    /\ Levels(ix.cfg, ix.dist) \in [0 .. Count(ix.dist) - 1 -> Nat]

\* How many nodes the stage has, and the workers for some nodes.
Todo == IF stage = "estimate" THEN AtMost(cfg.Controls, n) ELSE n
Crew(nodes) == EffectiveWorkerCount(cfg.Workers, nodes)

\* Every worker of a layer has a scratch of its own that can be used.
ScratchInv ==
    /\ DOMAIN scratch = 0 .. Crew(n) - 1
    /\ \A w \in 0 .. Crew(n) - 1 : IsScratch(scratch[w], n)

ShareInv ==
    /\ left \in [0 .. Crew(Todo) - 1 -> SUBSET (0 .. Todo - 1)]
    /\ busy \in [0 .. Crew(Todo) - 1 -> BOOLEAN]

\* Every node has its list, or is still to be done.
OutputInv ==
    /\ output = [s \in 0 .. Todo - 1 |-> output[s]]
    /\ \A s \in 0 .. Todo - 1 :
          output[s] = Expected(job, s) \/ (output[s] = <<>> /\ \E w \in DOMAIN left : s \in left[w])

\* A worker that is about to write holds what a worker alone would.
BusyInv ==
    \A w \in DOMAIN left :
       busy[w] => left[w] # {} /\ scratch[w].found = Computed(job, Least(left[w]), NewScratch(n)).found

ForkInv == IsJob(job) /\ ScratchInv /\ ShareInv /\ OutputInv /\ BusyInv

StageInv ==
    /\ IsIndex(idx)
    /\ file.kind = "whole" => IsIndex(file.ix)
    /\ stage \in Stages
    /\ stage # "idle" => Count(idx.dist) > 0 /\ cfg.Dim > 0
    /\ stage = "layer" => layer \in Int
    /\ stage \in Forked => ForkInv
    /\ stage \notin Forked => output = << >> /\ left = << >>
    /\ stage = "idle" =>
          layer = -1 /\ round = 0 /\ layers = << >> /\ local = << >> /\ input = << >>

LEMMA LeastType ==
    ASSUME NEW S \in SUBSET Nat, S # {}
    PROVE  Least(S) \in S
BY LeastNumber DEF Least

LEMMA CrewFacts ==
    ASSUME cfg \in ConfigType, NEW nodes \in Nat \ {0}
    PROVE  Crew(nodes) \in Nat \ {0} /\ \A m \in 1 .. nodes : Crew(m) <= Crew(nodes)
<1>1. cfg.Workers \in Nat \ {0}
  BY DEF ConfigType, Positive
<1> QED
  BY <1>1 DEF Crew, EffectiveWorkerCount

LEMMA TodoFacts ==
    ASSUME IsJob(job)
    PROVE  /\ n \in Nat \ {0} /\ Todo \in 1 .. n /\ cfg \in ConfigType
           /\ Crew(n) \in Nat \ {0} /\ Crew(Todo) \in Nat \ {0} /\ Crew(Todo) <= Crew(n)
           /\ Size(job) = n /\ job.stage = stage
<1>1. Size(job) = n /\ job.stage = stage /\ job.cfg = cfg
  BY DEF job, Size, n
<1>2. n \in Nat \ {0} /\ cfg \in ConfigType
  BY <1>1 DEF IsJob
<1>3. cfg.Controls \in Nat \ {0}
  BY <1>2 DEF ConfigType, Positive
<1>4. Todo \in 1 .. n
  BY <1>2, <1>3 DEF Todo, AtMost
<1> QED
  BY <1>1, <1>2, <1>4, CrewFacts

(* The steps of a worker.                                                   *)
LEMMA ScanStep ==
    ASSUME DrawsAreNumbers, stage \in Forked, ForkInv, NEW w, Scan(w)
    PROVE  ForkInv'
<1> DEFINE s == Least(left[w])
           new == Computed(job, s, scratch[w])
<1>1. /\ w \in DOMAIN left /\ left[w] # {}
      /\ scratch' = [scratch EXCEPT ![w] = new]
      /\ busy' = [busy EXCEPT ![w] = TRUE]
      /\ UNCHANGED <<idx, file, stage, layer, layers, local, round, input, output, left>>
  BY DEF Scan, ScratchOf
<1>2. job' = job /\ n' = n /\ Todo' = Todo /\ cfg' = cfg
  BY <1>1 DEF job, n, Todo, cfg
<1>2a. \A m : Crew(m)' = Crew(m)
  BY <1>2 DEF Crew
<1>3. /\ n \in Nat \ {0} /\ Todo \in 1 .. n /\ Crew(n) \in Nat /\ Crew(Todo) \in Nat
      /\ Crew(Todo) <= Crew(n) /\ Size(job) = n
  BY TodoFacts DEF ForkInv
<1>4. w \in 0 .. Crew(Todo) - 1 /\ w \in 0 .. Crew(n) - 1 /\ DOMAIN left = 0 .. Crew(Todo) - 1
  BY <1>1, <1>3 DEF ForkInv, ShareInv
<1>5. s \in left[w] /\ s \in 0 .. n - 1 /\ s \in 0 .. Size(job) - 1
  <2>1. left[w] \in SUBSET (0 .. Todo - 1)
    BY <1>4 DEF ForkInv, ShareInv
  <2>2. left[w] \in SUBSET Nat
    BY <1>3, <2>1
  <2>3. s \in left[w]
    BY <1>1, <2>2, LeastType
  <2> QED
    BY <1>3, <2>1, <2>3
<1> HIDE DEF s
<1>6. IsScratch(new, n) /\ new.found = Computed(job, s, NewScratch(n)).found
  <2>1. IsScratch(scratch[w], Size(job))
    BY <1>3, <1>4 DEF ForkInv, ScratchInv
  <2> QED
    BY <1>3, <1>5, <2>1, ComputedAlike DEF ForkInv
<1> HIDE DEF new
<1>7. ScratchInv'
  BY <1>1, <1>2, <1>2a, <1>4, <1>6 DEF ForkInv, ScratchInv
<1>8. ShareInv'
  BY <1>1, <1>2, <1>2a, <1>4 DEF ForkInv, ShareInv
<1>9. OutputInv'
  BY <1>1, <1>2 DEF ForkInv, OutputInv
<1>10. BusyInv'
  <2> SUFFICES ASSUME NEW u \in DOMAIN left, busy'[u]
               PROVE  /\ left[u] # {}
                      /\ scratch'[u].found = Computed(job, Least(left[u]), NewScratch(n)).found
    BY <1>1, <1>2 DEF BusyInv
  <2>1. u \in 0 .. Crew(Todo) - 1 /\ u \in DOMAIN scratch /\ u \in DOMAIN busy
    BY <1>3, <1>4 DEF ForkInv, ScratchInv, ShareInv
  <2>2. CASE u = w
    BY <1>1, <1>6, <2>1, <2>2 DEF s
  <2>3. CASE u # w
    <3>1. busy[u] /\ scratch'[u] = scratch[u]
      BY <1>1, <2>1, <2>3
    <3> QED
      BY <3>1 DEF ForkInv, BusyInv
  <2> QED
    BY <2>2, <2>3
<1> QED
  BY <1>2, <1>7, <1>8, <1>9, <1>10 DEF ForkInv

LEMMA WriteStep ==
    ASSUME stage \in Forked, ForkInv, NEW w, Write(w)
    PROVE  ForkInv'
<1> DEFINE s == Least(left[w])
           list == Written(job, s, scratch[w].found)
<1>1. /\ w \in DOMAIN left /\ left[w] # {} /\ busy[w]
      /\ output' = [output EXCEPT ![s] = list]
      /\ left' = [left EXCEPT ![w] = left[w] \ {s}]
      /\ busy' = [busy EXCEPT ![w] = FALSE]
      /\ UNCHANGED <<idx, file, stage, layer, layers, local, round, input, scratch>>
  BY DEF Write, ScratchOf
<1>2. job' = job /\ n' = n /\ Todo' = Todo /\ cfg' = cfg
  BY <1>1 DEF job, n, Todo, cfg
<1>2a. \A m : Crew(m)' = Crew(m)
  BY <1>2 DEF Crew
<1>3. /\ n \in Nat \ {0} /\ Todo \in 1 .. n /\ Crew(n) \in Nat /\ Crew(Todo) \in Nat
      /\ Crew(Todo) <= Crew(n) /\ Size(job) = n
  BY TodoFacts DEF ForkInv
<1>4. w \in 0 .. Crew(Todo) - 1 /\ DOMAIN left = 0 .. Crew(Todo) - 1 /\ DOMAIN left' = DOMAIN left
  BY <1>1, <1>3 DEF ForkInv, ShareInv
<1>5. s \in left[w] /\ s \in 0 .. Todo - 1
  <2>1. left[w] \in SUBSET (0 .. Todo - 1)
    BY <1>4 DEF ForkInv, ShareInv
  <2>2. left[w] \in SUBSET Nat
    BY <1>3, <2>1
  <2>3. s \in left[w]
    BY <1>1, <2>2, LeastType
  <2> QED
    BY <2>1, <2>3
<1>6. list = Expected(job, s)
  <2>1. scratch[w].found = Computed(job, s, NewScratch(n)).found
    BY <1>1 DEF ForkInv, BusyInv
  <2> QED
    BY <1>3, <2>1 DEF Expected
<1> HIDE DEF s, list
<1>7. ScratchInv'
  BY <1>1, <1>2, <1>2a DEF ForkInv, ScratchInv
<1>8. ShareInv'
  BY <1>1, <1>2, <1>2a, <1>4 DEF ForkInv, ShareInv
<1>9. OutputInv'
  <2>0. output = [t \in 0 .. Todo - 1 |-> output[t]]
    BY DEF ForkInv, OutputInv
  <2>1. output' = [t \in 0 .. Todo - 1 |-> IF t = s THEN list ELSE output[t]]
    BY <1>1, <2>0
  <2>2. output' = [t \in 0 .. Todo - 1 |-> output'[t]]
    BY <2>1
  <2>3. ASSUME NEW t \in 0 .. Todo - 1
        PROVE  \/ output'[t] = Expected(job, t)
               \/ output'[t] = <<>> /\ \E u \in DOMAIN left : t \in left'[u]
    <3>1. CASE t = s
      BY <1>6, <2>1, <3>1
    <3>2. CASE t # s
      <4>1. output'[t] = output[t]
        BY <2>1, <3>2
      <4>2. CASE output[t] = Expected(job, t)
        BY <4>1, <4>2
      <4>3. CASE output[t] # Expected(job, t)
        <5>1. output[t] = <<>> /\ \E u \in DOMAIN left : t \in left[u]
          BY <4>3 DEF ForkInv, OutputInv
        <5>2. PICK u \in DOMAIN left : t \in left[u]
          BY <5>1
        <5>3. t \in left'[u]
          BY <1>1, <3>2, <5>2
        <5> QED
          BY <4>1, <5>1, <5>3
      <4> QED
        BY <4>2, <4>3
    <3> QED
      BY <3>1, <3>2
  <2> QED
    BY <1>2, <1>4, <2>2, <2>3 DEF OutputInv
<1>10. BusyInv'
  <2> SUFFICES ASSUME NEW u \in DOMAIN left, busy'[u]
               PROVE  /\ left'[u] # {}
                      /\ scratch[u].found = Computed(job, Least(left'[u]), NewScratch(n)).found
    BY <1>1, <1>2, <1>4 DEF BusyInv
  <2>1. u \in DOMAIN busy
    BY <1>4 DEF ForkInv, ShareInv
  <2>2. u # w
    BY <1>1, <2>1
  <2>3. busy[u] /\ left'[u] = left[u]
    BY <1>1, <2>1, <2>2
  <2> QED
    BY <2>3 DEF ForkInv, BusyInv
<1> QED
  BY <1>2, <1>7, <1>8, <1>9, <1>10 DEF ForkInv

(* wg.Wait returns once every node has its list.                            *)
LEMMA JoinedOutput ==
    ASSUME ForkInv, \A w \in DOMAIN left : left[w] = {}
    PROVE  output = [s \in 0 .. Todo - 1 |-> Expected(job, s)]
<1>1. output = [s \in 0 .. Todo - 1 |-> output[s]]
  BY DEF ForkInv, OutputInv
<1>2. \A s \in 0 .. Todo - 1 : output[s] = Expected(job, s)
  BY DEF ForkInv, OutputInv
<1> QED
  BY <1>1, <1>2

LEMMA JoinedLists ==
    ASSUME DrawsAreNumbers, ForkInv, stage # "estimate", \A w \in DOMAIN left : left[w] = {}
    PROVE  output \in Lists(n)
<1>1. Todo = n /\ Size(job) = n /\ job.stage = stage /\ IsJob(job)
  BY TodoFacts DEF ForkInv, Todo
<1>2. \A s \in 0 .. n - 1 : Expected(job, s) \in Seq(0 .. n - 1)
  BY <1>1, ExpectedType
<1>3. output = [s \in 0 .. n - 1 |-> Expected(job, s)]
  BY <1>1, JoinedOutput
<1> QED
  BY <1>2, <1>3 DEF Lists

\* Scratch for the workers of a layer.
Ready(sc, nodes) ==
    /\ DOMAIN sc = 0 .. Crew(nodes) - 1
    /\ \A w \in 0 .. Crew(nodes) - 1 : IsScratch(sc[w], nodes)

LEMMA FreshReady ==
    ASSUME NEW v, Count(v) \in Nat
    PROVE  Ready(Fresh(v), Count(v))
<1>1. Fresh(v) = [w \in 0 .. Crew(Count(v)) - 1 |-> NewScratch(Count(v))]
  BY DEF Fresh, Crew
<1>2. IsScratch(NewScratch(Count(v)), Count(v))
  BY NewIsScratch
<1> QED
  BY <1>1, <1>2 DEF Ready

LEMMA ForkStep ==
    ASSUME NEW name \in Forked, NEW v, NEW lists, NEW sc, Fork(name, v, lists, sc),
           cfg' = cfg, local' = v, layer' \in Int, cfg \in ConfigType,
           Count(v) \in Nat \ {0}, v \in Tables(Count(v)),
           name \in Forked \ {"exact", "init"} => lists \in Lists(Count(v)),
           Ready(sc, Count(v))
    PROVE  stage' = name /\ input' = lists /\ ForkInv'
<1> DEFINE count == IF name = "estimate" THEN AtMost(cfg.Controls, Count(v)) ELSE Count(v)
<1>1. /\ stage' = name /\ input' = lists
      /\ output' = [i \in 0 .. count - 1 |-> <<>>]
      /\ left' = [w \in 0 .. Crew(count) - 1 |-> NodesOf(w, count, Crew(count))]
      /\ busy' = [w \in 0 .. Crew(count) - 1 |-> FALSE]
      /\ scratch' = sc
  BY DEF Fork, Crew
<1>2. n' = Count(v) /\ Todo' = count
  BY <1>1 DEF n, Todo
<1>3. /\ job'.stage = name /\ job'.local = v /\ job'.cfg = cfg /\ job'.layer = layer'
      /\ job'.input = lists /\ Size(job)' = Count(v)
  BY <1>1 DEF job, Size
<1>4. IsJob(job)'
  <2>1. job'.stage \in Forked
    BY <1>3
  <2>2. Size(job)' \in Nat \ {0} /\ job'.local \in Tables(Size(job)')
    BY <1>3
  <2>3. job'.cfg \in ConfigType /\ job'.layer \in Int
    BY <1>3
  <2>4. job'.stage \in Forked \ {"exact", "init"} => job'.input \in Lists(Size(job)')
    BY <1>3
  <2> QED
    BY <2>1, <2>2, <2>3, <2>4 DEF IsJob, Size
<1>5. \A m : Crew(m)' = Crew(m)
  BY DEF Crew
<1>6. count \in Nat \ {0}
  <2>1. cfg.Controls \in Nat \ {0}
    BY DEF ConfigType, Positive
  <2> QED
    BY <2>1 DEF AtMost
<1>7. Crew(count) \in Nat \ {0}
  BY <1>6, CrewFacts
<1> HIDE DEF count
<1>8. ScratchInv'
  BY <1>1, <1>2, <1>5 DEF ScratchInv, Ready
<1>9. ShareInv'
  <2>1. \A w \in 0 .. Crew(count) - 1 : NodesOf(w, count, Crew(count)) \subseteq 0 .. count - 1
    BY <1>6, <1>7, SharesAreNodes
  <2>2. left' \in [0 .. Crew(count) - 1 -> SUBSET (0 .. count - 1)]
    BY <1>1, <2>1
  <2>3. busy' \in [0 .. Crew(count) - 1 -> BOOLEAN]
    BY <1>1
  <2> QED
    BY <1>2, <1>5, <2>2, <2>3 DEF ShareInv
<1>10. OutputInv'
  <2>1. output' = [s \in 0 .. count - 1 |-> output'[s]]
    BY <1>1
  <2>2. ASSUME NEW s \in 0 .. count - 1
        PROVE  output'[s] = <<>> /\ \E w \in DOMAIN left' : s \in left'[w]
    <3>1. \E w \in 0 .. Crew(count) - 1 : s \in NodesOf(w, count, Crew(count))
      BY <1>6, <1>7, EveryNodeHasAWorker
    <3> QED
      BY <1>1, <3>1
  <2> QED
    BY <1>2, <2>1, <2>2 DEF OutputInv
<1>11. BusyInv'
  BY <1>1 DEF BusyInv
<1> QED
  BY <1>1, <1>4, <1>8, <1>9, <1>10, <1>11 DEF ForkInv

----------------------------------------------------------------------------
(* Every step keeps the invariant.                                          *)

LEMMA NoVectors ==
    /\ Count(<< >>) = 0 /\ << >> \in Tables(0)
    /\ \A c : Levels(c, << >>) \in [0 .. -1 -> Nat]
<1>1. DOMAIN << >> = {} /\ 0 .. -1 = {}
  OBVIOUS
<1>2. Count(<< >>) = 0
  BY <1>1, FS_EmptySet DEF Count
<1>3. << >> = [i \in {} |-> << >>]
  BY <1>1
<1>4. << >> \in Tables(0)
  BY <1>1, <1>3 DEF Tables
<1>5. \A c : Levels(c, << >>) \in [0 .. -1 -> Nat]
  BY <1>1 DEF Levels
<1> QED
  BY <1>2, <1>4, <1>5

LEMMA NewIsIndex ==
    ASSUME NEW c \in Configs
    PROVE  IsIndex(NewIndex(c)) /\ NewIndex(c).cfg = c
<1> DEFINE ix == NewIndex(c)
<1>1. c \in ConfigType
  BY ConfigAssumption
<1>2. /\ ix.cfg = c /\ ix.dist = << >>
      /\ ix = [cfg |-> ix.cfg, dist |-> ix.dist, levels |-> ix.levels, layers |-> ix.layers,
               entryPoint |-> ix.entryPoint, maxLayer |-> ix.maxLayer,
               graphReady |-> ix.graphReady, builder |-> ix.builder]
  BY DEF NewIndex
<1>3. Count(ix.dist) = 0 /\ ix.dist \in Tables(0)
  BY <1>2, NoVectors
<1>4. Levels(ix.cfg, ix.dist) \in [0 .. 0 - 1 -> Nat]
  BY <1>2, NoVectors
<1> HIDE DEF ix
<1> QED
  BY <1>1, <1>2, <1>3, <1>4 DEF IsIndex, ix

LEMMA InitStage == Init => StageInv
<1> SUFFICES ASSUME Init PROVE StageInv
  OBVIOUS
<1>1. PICK c \in Configs : idx = NewIndex(c)
  BY DEF Init
<1>2. IsIndex(idx)
  BY <1>1, NewIsIndex
<1>3. /\ file.kind = "none" /\ stage = "idle" /\ output = << >> /\ left = << >>
      /\ layer = -1 /\ round = 0 /\ layers = << >> /\ local = << >> /\ input = << >>
  BY DEF Init, NoFile
<1> QED
  BY <1>2, <1>3 DEF StageInv, Stages, Forked

(* What an index becomes that takes vectors in.                             *)
Emptied(c, v) ==
    [cfg |-> [c EXCEPT !.Dim = Dimension(c, v)], dist |-> v.dist, levels |-> << >>,
     layers |-> << >>, entryPoint |-> -1, maxLayer |-> -1, graphReady |-> FALSE,
     builder |-> "none"]

LEMMA NewVectors ==
    ASSUME NEW ix, IsIndex(ix), NEW v \in DataSets, Accepted(ix.cfg, v), idx' = Taking(ix, v)
    PROVE  /\ IsIndex(idx)' /\ Count(v.dist) \in Nat \ {0} /\ cfg'.Dim > 0
           /\ idx' = Emptied(ix.cfg, v) /\ cfg' = [ix.cfg EXCEPT !.Dim = Dimension(ix.cfg, v)]
           /\ Levels(ix.cfg, v.dist) = Levels(cfg', v.dist)
           /\ Levels(ix.cfg, v.dist) \in [0 .. Count(v.dist) - 1 -> Nat]
<1> DEFINE b == ix.cfg
           dim == Dimension(b, v)
           c2 == [b EXCEPT !.Dim = dim]
<1>1. /\ ix = [cfg |-> ix.cfg, dist |-> ix.dist, levels |-> ix.levels, layers |-> ix.layers,
               entryPoint |-> ix.entryPoint, maxLayer |-> ix.maxLayer,
               graphReady |-> ix.graphReady, builder |-> ix.builder]
      /\ b \in ConfigType
  BY DEF IsIndex
<1>2. /\ IsFiniteSet(DOMAIN v.dist) /\ v.dist \in Tables(Count(v.dist)) /\ v.first \in Nat
      /\ v.dist # << >> /\ dim > 0
  BY DataAssumption DEF Accepted
<1>3. Count(v.dist) \in Nat
  BY <1>2, FS_CardinalityType DEF Count
<1>4. Count(v.dist) # 0
  <2> SUFFICES ASSUME Count(v.dist) = 0 PROVE FALSE
    OBVIOUS
  <2>1. v.dist \in [{} -> [{} -> Nat]]
    <3>1. 0 .. 0 - 1 = {}
      OBVIOUS
    <3> QED
      BY <1>2, <3>1 DEF Tables
  <2>2. v.dist = << >>
    BY <2>1
  <2> QED
    BY <1>2, <2>2
<1>5. idx' = Emptied(b, v)
  BY <1>1 DEF Taking, NoGraph, Emptied
<1>6. dim \in Nat
  BY <1>1, <1>2 DEF Dimension, ConfigType
<1> HIDE DEF dim, b
<1>7. c2 \in ConfigType /\ c2.Seed = b.Seed /\ c2.M = b.M /\ c2.Dim = dim
  BY <1>1, <1>6 DEF ConfigType
<1>8. idx' = [cfg |-> c2, dist |-> v.dist, levels |-> << >>, layers |-> << >>,
              entryPoint |-> -1, maxLayer |-> -1, graphReady |-> FALSE, builder |-> "none"]
  BY <1>5, Zenon DEF Emptied, dim
<1> HIDE DEF c2
<1>9. cfg' = c2 /\ idx'.dist = v.dist
  <2> DEFINE r == [cfg |-> c2, dist |-> v.dist, levels |-> << >>,
                   layers |-> << >>, entryPoint |-> -1, maxLayer |-> -1,
                   graphReady |-> FALSE, builder |-> "none"]
  <2>1. r.cfg = c2 /\ r.dist = v.dist
    OBVIOUS
  <2>2. idx' = r
    BY <1>8
  <2> HIDE DEF r
  <2> QED
    BY <2>1, <2>2, Zenon DEF cfg
<1>10. DOMAIN v.dist = 0 .. Count(v.dist) - 1
  BY <1>2 DEF Tables
<1>11. Levels(b, v.dist) = Levels(cfg', v.dist)
  BY <1>7, <1>9 DEF Levels
<1>12. PICK c \in Configs : c.Seed = b.Seed
  BY DEF IsIndex, b
<1>13. \A id \in DOMAIN v.dist : Level(b.Seed, id) \in Nat
  BY <1>12, DataAssumption
<1>14. Levels(b, v.dist) \in [0 .. Count(v.dist) - 1 -> Nat]
  BY <1>10, <1>13 DEF Levels
<1>15. IsIndex(idx)'
  <2>1. idx' = [cfg |-> idx'.cfg, dist |-> idx'.dist, levels |-> idx'.levels, layers |-> idx'.layers,
             entryPoint |-> idx'.entryPoint, maxLayer |-> idx'.maxLayer,
             graphReady |-> idx'.graphReady, builder |-> idx'.builder]
    BY <1>8
  <2>2. idx'.cfg = c2 /\ \E x \in Configs : x.Seed = c2.Seed
    BY <1>7, <1>9, <1>12, Zenon DEF cfg
  <2>3. Levels(c2, v.dist) \in [0 .. Count(v.dist) - 1 -> Nat]
    BY <1>9, <1>11, <1>14
  <2> QED
    BY <1>2, <1>3, <1>7, <1>9, <2>1, <2>2, <2>3 DEF IsIndex
<1>16. cfg'.Dim > 0
  BY <1>2, <1>7, <1>9
<1> QED
  BY <1>3, <1>4, <1>5, <1>9, <1>11, <1>14, <1>15, <1>16 DEF c2, b, dim

\* A build of vectors begins.
Begins(v) == Build(v) \/ \E c \in Configs : BuildStandard(c, v)

(* The index it begins with: the one there is, or a new one.                *)
LEMMA BuildBegins ==
    ASSUME StageInv, NEW v \in DataSets, Begins(v)
    PROVE  \E ix : /\ IsIndex(ix) /\ Accepted(ix.cfg, v) /\ idx' = Taking(ix, v)
                   /\ ix.cfg = cfg \/ ix.cfg \in Configs
                   /\ \/ Build(v) /\ ix.cfg = cfg
                      \/ BuildStandard(ix.cfg, v)
                   /\ stage = "idle" /\ stage' \in {"layer", "standard"}
                   /\ UNCHANGED <<file, output, left>>
<1>1. CASE Build(v)
  <2>1. /\ IsIndex(idx) /\ Accepted(idx.cfg, v) /\ idx' = Taking(idx, v) /\ idx.cfg = cfg
        /\ stage = "idle" /\ stage' = "layer" /\ UNCHANGED <<file, output, left>>
    BY <1>1 DEF Build, StageInv, cfg
  <2> QED
    BY <1>1, <2>1
<1>2. CASE \E c \in Configs : BuildStandard(c, v)
  <2>1. PICK c \in Configs : BuildStandard(c, v)
    BY <1>2
  <2> DEFINE ix == NewIndex(c)
  <2>2. IsIndex(ix) /\ ix.cfg = c
    BY NewIsIndex
  <2>3. /\ Accepted(c, v) /\ idx' = Taking(ix, v)
        /\ stage = "idle" /\ stage' = "standard" /\ UNCHANGED <<file, output, left>>
    BY <2>1 DEF BuildStandard
  <2> HIDE DEF ix
  <2> QED
    BY <2>1, <2>2, <2>3
<1> QED
  BY <1>1, <1>2 DEF Begins

LEMMA BuildStage ==
    ASSUME StageInv, NEW v \in DataSets, Begins(v)
    PROVE  StageInv'
<1>1. PICK ix : /\ IsIndex(ix) /\ Accepted(ix.cfg, v) /\ idx' = Taking(ix, v)
                /\ (Build(v) /\ ix.cfg = cfg) \/ BuildStandard(ix.cfg, v)
                /\ stage = "idle" /\ UNCHANGED <<file, output, left>>
  BY BuildBegins
<1>2. /\ IsIndex(idx)' /\ Count(v.dist) \in Nat \ {0} /\ cfg'.Dim > 0
      /\ Levels(ix.cfg, v.dist) \in [0 .. Count(v.dist) - 1 -> Nat] /\ idx' = Emptied(ix.cfg, v)
  BY <1>1, NewVectors
<1>3. idx'.dist = v.dist
  BY <1>2 DEF Emptied
<1>4. output' = << >> /\ left' = << >>
  BY <1>1 DEF StageInv, Forked
<1>5. CASE Build(v) /\ ix.cfg = cfg
  <2>1. stage' = "layer" /\ layer' = MaxAssignedLayer(Levels(ix.cfg, v.dist))
    BY <1>5 DEF Build
  <2>2. layer' \in Int
    BY <1>2, <2>1, MaxLayerType
  <2> QED
    BY <1>1, <1>2, <1>3, <1>4, <2>1, <2>2 DEF StageInv, Stages, Forked
<1>6. CASE BuildStandard(ix.cfg, v)
  <2>1. stage' = "standard"
    BY <1>6 DEF BuildStandard
  <2> QED
    BY <1>1, <1>2, <1>3, <1>4, <2>1 DEF StageInv, Stages, Forked
<1> QED
  BY <1>1, <1>5, <1>6

LEMMA LayerVectorsType ==
    ASSUME NEW k \in Nat, NEW dist \in Tables(k), NEW levels \in [0 .. k - 1 -> Nat], NEW l
    PROVE  LET v == LayerVectors(Layout(levels, l), dist)
           IN  Count(v) \in Nat /\ v \in Tables(Count(v))
<1> DEFINE labels == Layout(levels, l)
           v == LayerVectors(labels, dist)
           m == Cardinality(LayerIds(levels, l))
<1>1. m \in Nat /\ labels \in [0 .. m - 1 -> 0 .. k - 1]
  <2>1. LayerIds(levels, l) \in SUBSET (0 .. k - 1) /\ m \in Nat
    BY LayoutType
  <2>2. labels \in [0 .. m - 1 -> LayerIds(levels, l)]
    BY LayoutType
  <2> QED
    BY <2>1, <2>2
<1>2. v = [i \in DOMAIN labels |-> [j \in DOMAIN labels |-> dist[labels[i]][labels[j]]]]
  BY DEF LayerVectors
<1> HIDE DEF labels, m, v
<1>3. DOMAIN labels = 0 .. m - 1
  BY <1>1
<1>4. \A i, j \in 0 .. m - 1 : dist[labels[i]][labels[j]] \in Nat
  BY <1>1 DEF Tables
<1>5. v \in [0 .. m - 1 -> [0 .. m - 1 -> Nat]]
  BY <1>2, <1>3, <1>4
<1>6. Count(v) = m
  <2>1. DOMAIN v = 0 .. m - 1
    BY <1>5
  <2>2. Cardinality(0 .. m - 1) = m
    BY <1>1, FS_Interval
  <2> QED
    BY <2>1, <2>2 DEF Count
<1> QED
  BY <1>1, <1>5, <1>6 DEF Tables, v, labels

----------------------------------------------------------------------------
(* What the caller goes through does not depend on the workers.             *)

\* What the caller holds between two steps of its own.
view ==
    [stage |-> stage, layer |-> layer, layers |-> layers, local |-> local, round |-> round,
     input |-> input, own |-> IF stage = "standard" THEN scratch[0] ELSE << >>]

JobOf(c, x) ==
    [cfg |-> c, stage |-> x.stage, layer |-> x.layer, local |-> x.local, input |-> x.input]

\* What the workers of its stage hand back.
Handed(c, x) ==
    LET todo == IF x.stage = "estimate" THEN AtMost(c.Controls, Count(x.local))
                ELSE Count(x.local)
    IN  [s \in 0 .. todo - 1 |-> Expected(JobOf(c, x), s)]

Forking(x, name, lists, count) ==
    [stage |-> name, layer |-> x.layer, layers |-> x.layers, local |-> x.local, round |-> count,
     input |-> lists, own |-> << >>]

LayerStarted(c, d, x) ==
    LET labels == Layout(Levels(c, d), x.layer)
        v == LayerVectors(labels, d)
    IN  IF Count(v) - 1 <= LayerMaxDegree(c.M, x.layer)
        THEN [stage |-> "layer", layer |-> x.layer - 1,
              layers |-> WithLayer(x.layers, x.layer, CompleteLayer(labels, d)),
              local |-> x.local, round |-> x.round, input |-> x.input, own |-> << >>]
        ELSE [stage |-> IF c.K0 >= Count(v) - 1 THEN "exact" ELSE "init", layer |-> x.layer,
              layers |-> x.layers, local |-> v, round |-> 0, input |-> << >>, own |-> << >>]

Estimated(c, x) ==
    LET refine == x.round < c.Iterations
                  /\ Sum(Handed(c, x), 1) * c.RecallDen < c.RecallNum * Sum(Handed(c, x), 2)
    IN  Forking(x, IF refine THEN "alpha forward" ELSE "rng forward", x.input, x.round)

LayerEnded(c, d, x) ==
    [stage |-> "layer", layer |-> x.layer - 1,
     layers |-> WithLayer(x.layers, x.layer, ToGlobal(Handed(c, x), Layout(Levels(c, d), x.layer), d)),
     local |-> << >>, round |-> 0, input |-> << >>, own |-> << >>]

NodeInserted(c, d, x) ==
    LET after == Inserted(c, d, x.round, x.layers, x.own)
    IN  [stage |-> "standard", layer |-> x.layer, layers |-> after.layers, local |-> x.local,
         round |-> x.round + 1, input |-> x.input, own |-> after.sc]

\* The caller's next step, a function of the configuration, of the vectors and
\* of what it holds.
Follow(c, d, x) ==
    CASE x.stage = "layer" -> IF x.layer >= 0 THEN LayerStarted(c, d, x) ELSE x
      [] x.stage = "init" ->
            Forking(x, "exchange", Handed(c, x), x.round + 1)
      [] x.stage = "exchange" ->
            IF x.round < KnngRounds(c)
            THEN Forking(x, "exchange", Handed(c, x), x.round + 1)
            ELSE Forking(x, "acquire", Handed(c, x), 0)
      [] x.stage = "exact" -> Forking(x, "acquire", Handed(c, x), 0)
      [] x.stage = "acquire" -> Forking(x, "estimate", Handed(c, x), x.round)
      [] x.stage = "estimate" -> Estimated(c, x)
      [] x.stage = "alpha forward" ->
            Forking(x, "alpha back", MergeReverse(Handed(c, x), Count(x.local)), x.round)
      [] x.stage = "rng forward" ->
            Forking(x, "rng back", MergeReverse(Handed(c, x), Count(x.local)), x.round)
      [] x.stage = "alpha back" -> Forking(x, "refresh", Handed(c, x), x.round)
      [] x.stage = "refresh" ->
            Forking(x, "estimate", Handed(c, x), x.round + 1)
      [] x.stage = "rng back" -> LayerEnded(c, d, x)
      [] x.stage = "standard" -> IF x.round < Count(d) THEN NodeInserted(c, d, x) ELSE x

\* One step of the caller, and the invariant after it.
Followed == StageInv' /\ idx' = idx /\ file' = file /\ view' = Follow(cfg, idx.dist, view)

LEMMA ViewFacts ==
    /\ view.stage = stage /\ view.layer = layer /\ view.layers = layers /\ view.local = local
    /\ view.round = round /\ view.input = input
    /\ stage = "standard" => view.own = scratch[0]
    /\ job = JobOf(cfg, view)
BY DEF view, JobOf, job

LEMMA JoinedHanded ==
    ASSUME ForkInv, NEW name \in Forked, Joined(name)
    PROVE  output = Handed(cfg, view) /\ stage = name
<1>1. stage = name /\ \A w \in DOMAIN left : left[w] = {}
  BY DEF Joined
<1>2. output = [s \in 0 .. Todo - 1 |-> Expected(job, s)]
  BY <1>1, JoinedOutput
<1>3. Todo = IF view.stage = "estimate" THEN AtMost(cfg.Controls, Count(view.local))
             ELSE Count(view.local)
  BY ViewFacts DEF Todo, n
<1>4. job = JobOf(cfg, view)
  BY ViewFacts
<1> HIDE DEF Todo
<1> QED
  BY <1>1, <1>2, <1>3, <1>4, Zenon DEF Handed

(* From one fork-join of a layer to the next.                               *)
LEMMA ForkFollows ==
    ASSUME StageInv, stage \in Forked, NEW name \in Forked \ {"exact", "init"}, NEW lists, NEW sc,
           Fork(name, local, lists, sc), lists \in Lists(n), Ready(sc, n),
           UNCHANGED <<idx, file, layer, layers, local>>
    PROVE  /\ StageInv'
           /\ view' = Forking(view, name, lists, round')
<1>1. IsJob(job) /\ job.layer = layer /\ job.local = local /\ n = Count(local) /\ Size(job) = n
  BY TodoFacts DEF StageInv, ForkInv, job, n
<1>2. n \in Nat \ {0} /\ cfg \in ConfigType /\ layer \in Int /\ local \in Tables(n)
  BY <1>1, TodoFacts DEF IsJob
<1>3. cfg' = cfg
  BY DEF cfg
<1>4. stage' = name /\ input' = lists /\ ForkInv'
  BY <1>1, <1>2, <1>3, ForkStep
<1>5. StageInv'
  BY <1>4 DEF StageInv, cfg, Stages, IsIndex, Forked
<1>6. view' = [stage |-> name, layer |-> layer, layers |-> layers, local |-> local,
               round |-> round', input |-> lists, own |-> << >>]
  BY <1>4 DEF view, Forked
<1>7. Forking(view, name, lists, round')
         = [stage |-> name, layer |-> layer, layers |-> layers, local |-> local,
            round |-> round', input |-> lists, own |-> << >>]
  BY ViewFacts DEF Forking
<1> QED
  BY <1>5, <1>6, <1>7

LEMMA ReadyAgain ==
    ASSUME ForkInv
    PROVE  Ready(scratch, n) /\ Ready(Fresh(local), n) /\ n = Count(local)
<1>1. n \in Nat /\ n = Count(local)
  BY TodoFacts DEF ForkInv, n
<1> QED
  BY <1>1, FreshReady DEF ForkInv, ScratchInv, Ready

LEMMA JoinKnngFollows ==
    ASSUME DrawsAreNumbers, StageInv, JoinKnng
    PROVE  Followed
<1>1. UNCHANGED <<idx, file, layer, layers, local>>
  BY DEF JoinKnng
<1>2. ASSUME NEW name \in {"init", "exchange", "exact"}, Joined(name)
      PROVE  /\ stage = name /\ stage \in Forked /\ ForkInv /\ output = Handed(cfg, view)
             /\ output \in Lists(n) /\ Ready(scratch, n) /\ Ready(Fresh(local), n)
  <2>1. stage = name /\ stage \in Forked /\ name \in Forked /\ \A w \in DOMAIN left : left[w] = {}
    BY <1>2 DEF Joined, Forked
  <2>2. ForkInv
    BY <2>1 DEF StageInv
  <2>3. output \in Lists(n)
    BY <1>2, <2>1, <2>2, JoinedLists
  <2> QED
    BY <1>2, <2>1, <2>2, <2>3, JoinedHanded, ReadyAgain
<1>3. CASE /\ Joined("init") \/ (Joined("exchange") /\ round < KnngRounds(cfg))
           /\ Fork("exchange", local, output, scratch)
           /\ round' = round + 1
  <2>1. /\ stage = "init" \/ (stage = "exchange" /\ round < KnngRounds(cfg))
        /\ stage \in Forked /\ output = Handed(cfg, view) /\ output \in Lists(n) /\ Ready(scratch, n)
    BY <1>2, <1>3
  <2>2. "exchange" \in Forked \ {"exact", "init"}
    BY DEF Forked
  <2>3. StageInv' /\ view' = Forking(view, "exchange", output, round')
    BY <1>1, <1>3, <2>1, <2>2, ForkFollows
  <2>4. Follow(cfg, idx.dist, view)
           = Forking(view, "exchange", Handed(cfg, view), round + 1)
    <3>1. CASE stage = "init"
      BY <3>1, ViewFacts DEF Follow
    <3>2. CASE stage = "exchange" /\ round < KnngRounds(cfg)
      BY <3>2, ViewFacts DEF Follow
    <3> QED
      BY <2>1, <3>1, <3>2
  <2> QED
    BY <1>1, <1>3, <2>1, <2>3, <2>4 DEF Followed
<1>4. CASE /\ Joined("exact") \/ (Joined("exchange") /\ round = KnngRounds(cfg))
           /\ Fork("acquire", local, output, Fresh(local))
           /\ round' = 0
  <2>1. /\ stage = "exact" \/ (stage = "exchange" /\ round = KnngRounds(cfg))
        /\ stage \in Forked /\ output = Handed(cfg, view) /\ output \in Lists(n)
        /\ Ready(Fresh(local), n)
    BY <1>2, <1>4
  <2>2. "acquire" \in Forked \ {"exact", "init"}
    BY DEF Forked
  <2>3. StageInv' /\ view' = Forking(view, "acquire", output, round')
    BY <1>1, <1>4, <2>1, <2>2, ForkFollows
  <2>4. Follow(cfg, idx.dist, view)
           = Forking(view, "acquire", Handed(cfg, view), 0)
    <3>1. CASE stage = "exact"
      BY <3>1, ViewFacts DEF Follow
    <3>2. CASE stage = "exchange" /\ round = KnngRounds(cfg)
      <4>1. KnngRounds(cfg) \in Int
        BY DEF StageInv, IsIndex, cfg, ConfigType, Positive, KnngRounds
      <4>2. ~ (round < KnngRounds(cfg))
        BY <3>2, <4>1
      <4> QED
        BY <3>2, <4>2, ViewFacts DEF Follow
    <3> QED
      BY <2>1, <3>1, <3>2
  <2> QED
    BY <1>1, <1>4, <2>1, <2>3, <2>4 DEF Followed
<1> QED
  BY <1>3, <1>4 DEF JoinKnng

(* What a caller that has waited for a stage knows.                         *)
LEMMA Waited ==
    ASSUME DrawsAreNumbers, StageInv, NEW name \in Forked, Joined(name)
    PROVE  /\ stage = name /\ stage \in Forked /\ ForkInv /\ output = Handed(cfg, view)
           /\ stage # "estimate" => output \in Lists(n)
           /\ Ready(Fresh(local), n) /\ n = Count(local) /\ n \in Nat
<1>1. stage = name /\ stage \in Forked /\ \A w \in DOMAIN left : left[w] = {}
  BY DEF Joined
<1>2. ForkInv
  BY <1>1 DEF StageInv
<1>3. stage # "estimate" => output \in Lists(n)
  BY <1>1, <1>2, JoinedLists
<1>4. n \in Nat
  BY <1>2, TodoFacts DEF ForkInv
<1> QED
  BY <1>1, <1>2, <1>3, <1>4, JoinedHanded, ReadyAgain

LEMMA JoinAcquireFollows ==
    ASSUME DrawsAreNumbers, StageInv, JoinAcquire
    PROVE  Followed
<1>1. /\ Joined("acquire") /\ Fork("estimate", local, output, Fresh(local))
      /\ UNCHANGED <<idx, file, layer, layers, local>> /\ round' = round
  BY DEF JoinAcquire
<1>2. "acquire" \in Forked /\ "estimate" \in Forked \ {"exact", "init"}
  BY DEF Forked
<1>3. /\ stage = "acquire" /\ stage \in Forked /\ output = Handed(cfg, view)
      /\ output \in Lists(n) /\ Ready(Fresh(local), n)
  BY <1>1, <1>2, Waited
<1>4. StageInv' /\ view' = Forking(view, "estimate", output, round')
  BY <1>1, <1>2, <1>3, ForkFollows
<1>5. Follow(cfg, idx.dist, view) = Forking(view, "estimate", Handed(cfg, view), round)
  BY <1>3, ViewFacts DEF Follow
<1> QED
  BY <1>1, <1>3, <1>4, <1>5 DEF Followed

LEMMA JoinEstimateFollows ==
    ASSUME DrawsAreNumbers, StageInv, JoinEstimate
    PROVE  Followed
<1> DEFINE refine == round < cfg.Iterations
                     /\ Sum(output, 1) * cfg.RecallDen < cfg.RecallNum * Sum(output, 2)
           name == IF refine THEN "alpha forward" ELSE "rng forward"
<1>1. /\ Joined("estimate") /\ Fork(name, local, input, Fresh(local))
      /\ UNCHANGED <<idx, file, layer, layers, local>> /\ round' = round
  BY DEF JoinEstimate
<1>2. "estimate" \in Forked /\ name \in Forked \ {"exact", "init"}
  BY DEF Forked
<1>3. /\ stage = "estimate" /\ stage \in Forked /\ output = Handed(cfg, view)
      /\ Ready(Fresh(local), n) /\ ForkInv
  BY <1>1, <1>2, Waited
<1>4. input \in Lists(n)
  <2>1. job.stage = "estimate" /\ Size(job) = n /\ job.input = input /\ IsJob(job)
    BY <1>3, TodoFacts DEF ForkInv, job
  <2> QED
    BY <2>1 DEF IsJob, Forked
<1>5. Estimated(cfg, view) = Forking(view, name, view.input, view.round)
  BY <1>3, ViewFacts, Zenon DEF Estimated
<1> HIDE DEF name
<1>6. StageInv' /\ view' = Forking(view, name, input, round')
  BY <1>1, <1>2, <1>3, <1>4, ForkFollows
<1>7. Follow(cfg, idx.dist, view) = Estimated(cfg, view)
  BY <1>3, ViewFacts DEF Follow
<1> QED
  BY <1>1, <1>5, <1>6, <1>7, ViewFacts DEF Followed

LEMMA JoinForwardFollows ==
    ASSUME DrawsAreNumbers, StageInv, JoinForward
    PROVE  Followed
<1>1. UNCHANGED <<idx, file, layer, layers, local>> /\ round' = round
  BY DEF JoinForward
<1>2. {"alpha forward", "rng forward"} \subseteq Forked
      /\ {"alpha back", "rng back"} \subseteq Forked \ {"exact", "init"}
  BY DEF Forked
<1>3. ASSUME NEW from \in {"alpha forward", "rng forward"}, NEW to \in {"alpha back", "rng back"},
             Joined(from), Fork(to, local, MergeReverse(output, n), Fresh(local))
      PROVE  /\ stage = from /\ StageInv'
             /\ view' = Forking(view, to, MergeReverse(Handed(cfg, view), Count(view.local)), view.round)
  <2>1. /\ stage = from /\ stage \in Forked /\ output = Handed(cfg, view)
        /\ output \in Lists(n) /\ Ready(Fresh(local), n) /\ n = Count(local) /\ n \in Nat
    BY <1>2, <1>3, Waited
  <2>2. MergeReverse(output, n) \in Lists(n)
    BY <2>1, MergeReverseType
  <2>3. StageInv' /\ view' = Forking(view, to, MergeReverse(output, n), round')
    BY <1>1, <1>2, <1>3, <2>1, <2>2, ForkFollows
  <2> QED
    BY <1>1, <2>1, <2>3, ViewFacts
<1>4. CASE /\ Joined("alpha forward")
           /\ Fork("alpha back", local, MergeReverse(output, n), Fresh(local))
  <2>1. /\ stage = "alpha forward" /\ StageInv'
        /\ view' = Forking(view, "alpha back", MergeReverse(Handed(cfg, view), Count(view.local)),
                           view.round)
    BY <1>3, <1>4
  <2> QED
    BY <1>1, <2>1, ViewFacts DEF Follow, Followed
<1>5. CASE /\ Joined("rng forward")
           /\ Fork("rng back", local, MergeReverse(output, n), Fresh(local))
  <2>1. /\ stage = "rng forward" /\ StageInv'
        /\ view' = Forking(view, "rng back", MergeReverse(Handed(cfg, view), Count(view.local)),
                           view.round)
    BY <1>3, <1>5
  <2> QED
    BY <1>1, <2>1, ViewFacts DEF Follow, Followed
<1> QED
  BY <1>4, <1>5 DEF JoinForward

LEMMA JoinAlphaFollows ==
    ASSUME DrawsAreNumbers, StageInv, JoinAlpha
    PROVE  Followed
<1>1. /\ Joined("alpha back") /\ Fork("refresh", local, output, Fresh(local))
      /\ UNCHANGED <<idx, file, layer, layers, local>> /\ round' = round
  BY DEF JoinAlpha
<1>2. "alpha back" \in Forked /\ "refresh" \in Forked \ {"exact", "init"}
  BY DEF Forked
<1>3. /\ stage = "alpha back" /\ stage \in Forked /\ output = Handed(cfg, view)
      /\ output \in Lists(n) /\ Ready(Fresh(local), n)
  BY <1>1, <1>2, Waited
<1>4. StageInv' /\ view' = Forking(view, "refresh", output, round')
  BY <1>1, <1>2, <1>3, ForkFollows
<1>5. Follow(cfg, idx.dist, view) = Forking(view, "refresh", Handed(cfg, view), round)
  BY <1>3, ViewFacts DEF Follow
<1> QED
  BY <1>1, <1>3, <1>4, <1>5 DEF Followed

LEMMA JoinRefreshFollows ==
    ASSUME DrawsAreNumbers, StageInv, JoinRefresh
    PROVE  Followed
<1>1. /\ Joined("refresh") /\ Fork("estimate", local, output, Fresh(local))
      /\ UNCHANGED <<idx, file, layer, layers, local>> /\ round' = round + 1
  BY DEF JoinRefresh
<1>2. "refresh" \in Forked /\ "estimate" \in Forked \ {"exact", "init"}
  BY DEF Forked
<1>3. /\ stage = "refresh" /\ stage \in Forked /\ output = Handed(cfg, view)
      /\ output \in Lists(n) /\ Ready(Fresh(local), n)
  BY <1>1, <1>2, Waited
<1>4. StageInv' /\ view' = Forking(view, "estimate", output, round')
  BY <1>1, <1>2, <1>3, ForkFollows
<1>5. Follow(cfg, idx.dist, view) = Forking(view, "estimate", Handed(cfg, view), round + 1)
  BY <1>3, ViewFacts DEF Follow
<1> QED
  BY <1>1, <1>3, <1>4, <1>5 DEF Followed

(* A step of the caller that leaves no stage under way.                      *)
LEMMA NoStage ==
    ASSUME StageInv, idx' = idx, file' = file, stage # "idle", stage' \in {"layer", "standard"},
           stage' = "layer" => layer' \in Int, output' = << >>, left' = << >>
    PROVE  StageInv'
<1>1. IsIndex(idx)'
  BY DEF StageInv, IsIndex
<1>2. (file.kind = "whole" => IsIndex(file.ix))'
  BY DEF StageInv, IsIndex
<1>3. stage' \in Stages /\ stage' \notin Forked
  BY DEF Stages, Forked
<1>4. Count(idx'.dist) > 0
  BY DEF StageInv
<1> QED
  BY <1>1, <1>2, <1>3, <1>4 DEF StageInv, cfg

LEMMA JoinFinalFollows ==
    ASSUME DrawsAreNumbers, StageInv, JoinFinal
    PROVE  Followed
<1>1. /\ Joined("rng back") /\ stage' = "layer" /\ layer' = layer - 1
      /\ layers' = WithLayer(layers, layer, ToGlobal(output, Layout(Levels(cfg, idx.dist), layer), idx.dist))
      /\ local' = << >> /\ round' = 0 /\ input' = << >> /\ output' = << >> /\ left' = << >>
      /\ idx' = idx /\ file' = file
  BY DEF JoinFinal
<1>2. stage = "rng back" /\ output = Handed(cfg, view) /\ ForkInv
  BY <1>1, Waited DEF Forked
<1>3. layer \in Int
  BY <1>2 DEF ForkInv, IsJob, job
<1>4. StageInv'
  <2>1. layer' \in Int
    <3>1. layer' = layer - 1
      BY <1>1, Zenon
    <3> QED
      BY <1>3, <3>1
  <2>2. stage # "idle"
    BY <1>2
  <2>3. /\ stage' \in {"layer", "standard"} /\ output' = << >> /\ left' = << >>
        /\ idx' = idx /\ file' = file
    BY <1>1
  <2> QED
    BY <2>1, <2>2, <2>3, NoStage
<1>5. Follow(cfg, idx.dist, view) = LayerEnded(cfg, idx.dist, view)
  BY <1>2, ViewFacts DEF Follow
<1>6. view' = LayerEnded(cfg, idx.dist, view)
  <2>1. view' = [stage |-> "layer", layer |-> layer - 1,
                 layers |-> WithLayer(layers, layer, ToGlobal(output, Layout(Levels(cfg, idx.dist), layer), idx.dist)),
                 local |-> << >>, round |-> 0, input |-> << >>, own |-> << >>]
    BY <1>1 DEF view
  <2> QED
    BY <1>2, <2>1, ViewFacts, Zenon DEF LayerEnded
<1> QED
  BY <1>1, <1>4, <1>5, <1>6 DEF Followed

LEMMA StartLayerFollows ==
    ASSUME DrawsAreNumbers, StageInv, StartLayer
    PROVE  Followed
<1> DEFINE labels == Layout(Levels(cfg, idx.dist), layer)
           v == LayerVectors(labels, idx.dist)
           name == IF cfg.K0 >= Count(v) - 1 THEN "exact" ELSE "init"
<1>1. stage = "layer" /\ layer >= 0 /\ idx' = idx /\ file' = file
  BY DEF StartLayer
<1>2. layer \in Nat /\ cfg \in ConfigType
  BY <1>1 DEF StageInv, IsIndex, cfg
<1>3. Count(v) \in Nat /\ v \in Tables(Count(v))
  <2>1. /\ Count(idx.dist) \in Nat /\ idx.dist \in Tables(Count(idx.dist))
        /\ Levels(cfg, idx.dist) \in [0 .. Count(idx.dist) - 1 -> Nat]
    BY DEF StageInv, IsIndex, cfg
  <2> QED
    BY <2>1, LayerVectorsType
<1>4. Follow(cfg, idx.dist, view) = LayerStarted(cfg, idx.dist, view)
  BY <1>1, ViewFacts DEF Follow
<1>5. LayerStarted(cfg, idx.dist, view)
        = IF Count(v) - 1 <= LayerMaxDegree(cfg.M, layer)
          THEN [stage |-> "layer", layer |-> layer - 1,
                layers |-> WithLayer(layers, layer, CompleteLayer(labels, idx.dist)),
                local |-> local, round |-> round, input |-> input, own |-> << >>]
          ELSE [stage |-> name, layer |-> layer,
                layers |-> layers, local |-> v, round |-> 0, input |-> << >>, own |-> << >>]
  BY ViewFacts, Zenon DEF LayerStarted
<1>6. LayerMaxDegree(cfg.M, layer) \in Nat \ {0}
  BY <1>2 DEF LayerMaxDegree, ConfigType, Positive
<1>7. \/ /\ Count(v) - 1 <= LayerMaxDegree(cfg.M, layer)
         /\ layers' = WithLayer(layers, layer, CompleteLayer(labels, idx.dist))
         /\ layer' = layer - 1
         /\ UNCHANGED <<stage, local, round, input, output, left, busy, scratch>>
      \/ /\ Count(v) - 1 > LayerMaxDegree(cfg.M, layer)
         /\ local' = v
         /\ round' = 0
         /\ Fork(name, v, << >>, Fresh(v))
         /\ UNCHANGED <<layer, layers>>
  BY DEF StartLayer
<1> HIDE DEF labels, v, name
<1>8. CASE /\ Count(v) - 1 <= LayerMaxDegree(cfg.M, layer)
           /\ layers' = WithLayer(layers, layer, CompleteLayer(labels, idx.dist))
           /\ layer' = layer - 1
           /\ UNCHANGED <<stage, local, round, input, output, left, busy, scratch>>
  <2>1. output' = << >> /\ left' = << >> /\ stage' = "layer" /\ layer' \in Int
    BY <1>1, <1>2, <1>8 DEF StageInv, Forked
  <2>2. StageInv'
    BY <1>1, <2>1, NoStage
  <2>3. view' = [stage |-> "layer", layer |-> layer - 1,
                 layers |-> WithLayer(layers, layer, CompleteLayer(labels, idx.dist)),
                 local |-> local, round |-> round, input |-> input, own |-> << >>]
    BY <1>8, <2>1 DEF view
  <2> QED
    BY <1>1, <1>4, <1>5, <1>8, <2>2, <2>3 DEF Followed
<1>9. CASE /\ Count(v) - 1 > LayerMaxDegree(cfg.M, layer)
           /\ local' = v
           /\ round' = 0
           /\ Fork(name, v, << >>, Fresh(v))
           /\ UNCHANGED <<layer, layers>>
  <2>1. Count(v) \in Nat \ {0} /\ ~ (Count(v) - 1 <= LayerMaxDegree(cfg.M, layer))
    BY <1>3, <1>6, <1>9
  <2>2. name \in {"exact", "init"} /\ name \in Forked /\ name # "standard"
    BY DEF name, Forked
  <2>3. Ready(Fresh(v), Count(v))
    BY <1>3, FreshReady
  <2>4. stage' = name /\ input' = << >> /\ ForkInv'
    <3>1. cfg' = cfg
      BY <1>1 DEF cfg
    <3> QED
      BY <1>1, <1>2, <1>3, <1>9, <2>1, <2>2, <2>3, <3>1, ForkStep
  <2>5. StageInv'
    <3>1. IsIndex(idx)'
      BY <1>1 DEF StageInv, IsIndex
    <3>2. (file.kind = "whole" => IsIndex(file.ix))'
      BY <1>1 DEF StageInv, IsIndex
    <3>3. Count(idx'.dist) > 0 /\ cfg'.Dim > 0
      BY <1>1 DEF StageInv, cfg
    <3>4. stage' \in Stages /\ stage' \in Forked /\ stage' # "layer" /\ stage' # "idle"
      BY <2>2, <2>4 DEF Stages
    <3> QED
      BY <2>4, <3>1, <3>2, <3>3, <3>4 DEF StageInv
  <2>6. view' = [stage |-> name, layer |-> layer,
                layers |-> layers, local |-> v, round |-> 0, input |-> << >>, own |-> << >>]
    BY <1>9, <2>2, <2>4 DEF view
  <2> QED
    BY <1>1, <1>4, <1>5, <2>1, <2>5, <2>6 DEF Followed
<1> QED
  BY <1>7, <1>8, <1>9

LEMMA InsertStandardFollows ==
    ASSUME StageInv, InsertStandard
    PROVE  Followed
<1> DEFINE after == Inserted(cfg, idx.dist, round, layers, scratch[0])
<1>1. /\ stage = "standard" /\ round < Count(idx.dist)
      /\ layers' = after.layers /\ scratch' = OneScratch(after.sc) /\ round' = round + 1
      /\ UNCHANGED <<idx, file, stage, layer, local, input, output, left, busy>>
  BY DEF InsertStandard
<1>2. Follow(cfg, idx.dist, view) = NodeInserted(cfg, idx.dist, view)
  BY <1>1, ViewFacts DEF Follow
<1>3. NodeInserted(cfg, idx.dist, view)
        = [stage |-> "standard", layer |-> layer, layers |-> after.layers, local |-> local,
           round |-> round + 1, input |-> input, own |-> after.sc]
  BY <1>1, ViewFacts, Zenon DEF NodeInserted
<1> HIDE DEF after
<1>4. scratch'[0] = after.sc
  BY <1>1 DEF OneScratch
<1>5. view' = [stage |-> "standard", layer |-> layer, layers |-> after.layers, local |-> local,
               round |-> round + 1, input |-> input, own |-> after.sc]
  BY <1>1, <1>4 DEF view
<1>6. StageInv'
  <2>1. output' = << >> /\ left' = << >>
    BY <1>1 DEF StageInv, Forked
  <2> QED
    BY <1>1, <2>1, NoStage
<1> QED
  BY <1>1, <1>2, <1>3, <1>5, <1>6 DEF Followed

(* A worker changes nothing the caller holds.                               *)
LEMMA WorkerStage ==
    ASSUME DrawsAreNumbers, StageInv, NEW w \in DOMAIN left, Worker(w)
    PROVE  StageInv' /\ idx' = idx /\ file' = file /\ stage' = stage /\ view' = view
<1>1. stage \in Forked
  BY DEF StageInv
<1>2. UNCHANGED <<idx, file, stage, layer, layers, local, round, input>>
  BY DEF Worker, Scan, Write
<1>3. ForkInv'
  <2>1. ForkInv
    BY <1>1 DEF StageInv
  <2> QED
    BY <1>1, <2>1, ScanStep, WriteStep DEF Worker
<1>4. stage \notin {"idle", "layer", "standard"}
  BY <1>1 DEF Forked
<1>5. StageInv'
  <2>1. IsIndex(idx)'
    BY <1>2 DEF StageInv, IsIndex
  <2>2. (file.kind = "whole" => IsIndex(file.ix))'
    BY <1>2 DEF StageInv, IsIndex
  <2>3. Count(idx'.dist) > 0 /\ stage' \in Stages
    BY <1>1, <1>2, <1>4 DEF StageInv
  <2> QED
    BY <1>1, <1>2, <1>3, <1>4, <2>1, <2>2, <2>3 DEF StageInv, cfg
<1>6. view' = view
  BY <1>2, <1>4 DEF view
<1> QED
  BY <1>2, <1>5, <1>6

\* What either builder publishes, when it holds x.
Final(b, c, d, x) ==
    LET levels == Levels(c, d)
    IN  [cfg |-> c, dist |-> d, levels |-> levels, layers |-> x.layers,
         entryPoint |-> IF b = "fast" THEN EntryPoint(levels, c.Seed) ELSE EntryOf(levels, Count(d)),
         maxLayer |-> IF b = "fast" THEN MaxAssignedLayer(levels) ELSE TopOf(levels, Count(d)),
         graphReady |-> TRUE, builder |-> b]

\* Whether a builder is done.
Ended(d, x) ==
    (x.stage = "layer" /\ x.layer = -1) \/ (x.stage = "standard" /\ x.round = Count(d))

Builder == IF stage = "standard" THEN "standard" ELSE "fast"

LEMMA PublishStage ==
    ASSUME StageInv, Publish \/ PublishStandard
    PROVE  /\ StageInv' /\ file' = file /\ stage' = "idle" /\ stage \in {"layer", "standard"}
           /\ Ended(idx.dist, view) /\ idx' = Final(Builder, cfg, idx.dist, view)
<1> DEFINE levels == Levels(cfg, idx.dist)
<1>1. Return /\ file' = file
  BY DEF Publish, PublishStandard
<1>2. Final(Builder, cfg, idx.dist, view)
        = [cfg |-> cfg, dist |-> idx.dist, levels |-> levels, layers |-> layers,
           entryPoint |-> IF Builder = "fast" THEN EntryPoint(levels, cfg.Seed)
                          ELSE EntryOf(levels, Count(idx.dist)),
           maxLayer |-> IF Builder = "fast" THEN MaxAssignedLayer(levels)
                        ELSE TopOf(levels, Count(idx.dist)),
           graphReady |-> TRUE, builder |-> Builder]
  BY ViewFacts, Zenon DEF Final
<1>3. /\ stage \in {"layer", "standard"} /\ Ended(idx.dist, view)
      /\ idx' = Final(Builder, cfg, idx.dist, view)
  <2>1. CASE Publish
    <3>1. /\ stage = "layer" /\ layer = -1
          /\ idx' = Published("fast", EntryPoint(levels, cfg.Seed), MaxAssignedLayer(levels))
      BY <2>1 DEF Publish
    <3>2. Builder = "fast"
      BY <3>1 DEF Builder
    <3>3. Ended(idx.dist, view)
      BY <3>1, ViewFacts DEF Ended
    <3> QED
      BY <1>2, <3>1, <3>2, <3>3 DEF Published
  <2>2. CASE PublishStandard
    <3>1. /\ stage = "standard" /\ round = Count(idx.dist)
          /\ idx' = Published("standard", EntryOf(levels, round), TopOf(levels, round))
      BY <2>2 DEF PublishStandard
    <3>2. Builder = "standard"
      BY <3>1 DEF Builder
    <3>3. Ended(idx.dist, view)
      BY <3>1, ViewFacts DEF Ended
    <3> QED
      BY <1>2, <3>1, <3>2, <3>3 DEF Published
  <2> QED
    BY <2>1, <2>2
<1>4. IsIndex(idx)'
  <2>1. idx' = [cfg |-> cfg, dist |-> idx.dist, levels |-> levels, layers |-> idx'.layers,
                entryPoint |-> idx'.entryPoint, maxLayer |-> idx'.maxLayer,
                graphReady |-> idx'.graphReady, builder |-> idx'.builder]
    BY <1>2, <1>3
  <2> HIDE DEF levels
  <2>2. idx'.cfg = idx.cfg /\ idx'.dist = idx.dist /\ idx'.levels = levels
    BY <2>1 DEF cfg
  <2>3. idx' = [cfg |-> idx'.cfg, dist |-> idx'.dist, levels |-> idx'.levels, layers |-> idx'.layers,
                entryPoint |-> idx'.entryPoint, maxLayer |-> idx'.maxLayer,
                graphReady |-> idx'.graphReady, builder |-> idx'.builder]
    BY <2>1, <2>2 DEF cfg
  <2> QED
    BY <2>2, <2>3 DEF StageInv, IsIndex
<1>5. (file.kind = "whole" => IsIndex(file.ix))'
  BY <1>1 DEF StageInv, IsIndex
<1>6. StageInv'
  BY <1>1, <1>4, <1>5 DEF StageInv, Return, Stages, Forked
<1> QED
  BY <1>1, <1>3, <1>6 DEF Return

LEMMA FileStage ==
    ASSUME StageInv, Save \/ Load
    PROVE  /\ StageInv' /\ stage = "idle" /\ stage' = "idle"
           /\ \/ idx' = idx /\ idx.graphReady
                 /\ (file' = [kind |-> "whole", ix |-> idx] \/ file' = [kind |-> "torn"])
              \/ idx' = file.ix /\ file' = file /\ file.kind = "whole"
<1>1. CASE Save
  <2>1. /\ stage = "idle" /\ idx.graphReady /\ UNCHANGED <<idx, stage, work>>
        /\ file' = [kind |-> "whole", ix |-> idx] \/ file' = [kind |-> "torn"]
    BY <1>1 DEF Save, SaveAccepts
  <2>2. file'.kind = "whole" => file'.ix = idx
    BY <2>1
  <2>3. IsIndex(idx)' /\ (file.kind = "whole" => IsIndex(file.ix))'
    BY <2>1, <2>2 DEF StageInv, IsIndex
  <2> QED
    BY <2>1, <2>3 DEF StageInv, work, Stages, Forked
<1>2. CASE Load
  <2>1. /\ stage = "idle" /\ file.kind = "whole" /\ idx' = file.ix /\ UNCHANGED <<file, stage, work>>
    BY <1>2 DEF Load
  <2>2. IsIndex(idx)' /\ (file.kind = "whole" => IsIndex(file.ix))'
    BY <2>1 DEF StageInv, IsIndex
  <2> QED
    BY <2>1, <2>2 DEF StageInv, work, Stages, Forked
<1> QED
  BY <1>1, <1>2

(* What the caller does between two stages, and what is left of it.          *)
LEMMA CallerFollows ==
    ASSUME DrawsAreNumbers, StageInv, Caller
    PROVE  \/ Followed /\ stage # "idle" /\ stage' # "idle"
              /\ (stage = "standard" <=> stage' = "standard")
           \/ Publish \/ PublishStandard
<1>1. CASE StartLayer
  <2>1. Followed
    BY <1>1, StartLayerFollows
  <2>2. stage = "layer" /\ (stage' = stage \/ stage' \in {"exact", "init"})
    BY <1>1 DEF StartLayer, Fork
  <2> QED
    BY <2>1, <2>2
<1>2. CASE JoinKnng
  <2>1. Followed
    BY <1>2, JoinKnngFollows
  <2>2. stage \in {"init", "exchange", "exact"} /\ stage' \in {"exchange", "acquire"}
    BY <1>2 DEF JoinKnng, Joined, Fork
  <2> QED
    BY <2>1, <2>2
<1>3. CASE JoinAcquire
  <2>1. Followed
    BY <1>3, JoinAcquireFollows
  <2>2. stage = "acquire" /\ stage' = "estimate"
    BY <1>3 DEF JoinAcquire, Joined, Fork
  <2> QED
    BY <2>1, <2>2
<1>4. CASE JoinEstimate
  <2>1. Followed
    BY <1>4, JoinEstimateFollows
  <2>2. stage = "estimate" /\ stage' \in {"alpha forward", "rng forward"}
    BY <1>4 DEF JoinEstimate, Joined, Fork
  <2> QED
    BY <2>1, <2>2
<1>5. CASE JoinForward
  <2>1. Followed
    BY <1>5, JoinForwardFollows
  <2>2. stage \in {"alpha forward", "rng forward"} /\ stage' \in {"alpha back", "rng back"}
    BY <1>5 DEF JoinForward, Joined, Fork
  <2> QED
    BY <2>1, <2>2
<1>6. CASE JoinAlpha
  <2>1. Followed
    BY <1>6, JoinAlphaFollows
  <2>2. stage = "alpha back" /\ stage' = "refresh"
    BY <1>6 DEF JoinAlpha, Joined, Fork
  <2> QED
    BY <2>1, <2>2
<1>7. CASE JoinRefresh
  <2>1. Followed
    BY <1>7, JoinRefreshFollows
  <2>2. stage = "refresh" /\ stage' = "estimate"
    BY <1>7 DEF JoinRefresh, Joined, Fork
  <2> QED
    BY <2>1, <2>2
<1>8. CASE JoinFinal
  <2>1. Followed
    BY <1>8, JoinFinalFollows
  <2>2. stage = "rng back" /\ stage' = "layer"
    BY <1>8 DEF JoinFinal, Joined
  <2> QED
    BY <2>1, <2>2
<1>9. CASE InsertStandard
  <2>1. Followed
    BY <1>9, InsertStandardFollows
  <2>2. stage = "standard" /\ stage' = "standard"
    BY <1>9 DEF InsertStandard
  <2> QED
    BY <2>1, <2>2
<1> QED
  BY <1>1, <1>2, <1>3, <1>4, <1>5, <1>6, <1>7, <1>8, <1>9 DEF Caller

LEMMA NextStage ==
    ASSUME DrawsAreNumbers, StageInv, [Next]_vars
    PROVE  StageInv'
<1>1. CASE \E v \in DataSets : Begins(v)
  BY <1>1, BuildStage
<1>2. CASE Caller
  BY <1>2, CallerFollows, PublishStage DEF Followed
<1>3. CASE \E w \in DOMAIN left : Worker(w)
  BY <1>3, WorkerStage
<1>4. CASE Save \/ Load
  BY <1>4, FileStage
<1>5. CASE UNCHANGED vars
  <2>1. UNCHANGED <<idx, file, stage, layer, layers, local, round, input, output, left, busy, scratch>>
    BY <1>5 DEF vars, work
  <2>2. cfg' = cfg /\ n' = n /\ job' = job /\ Todo' = Todo
    BY <2>1 DEF cfg, n, job, Todo
  <2>3. Crew(n)' = Crew(n) /\ Crew(Todo)' = Crew(Todo)
    BY <2>2 DEF Crew
  <2>4. ForkInv => ForkInv'
    BY <2>1, <2>2, <2>3 DEF ForkInv, ScratchInv, ShareInv, OutputInv, BusyInv
  <2>5. IsIndex(idx)' /\ (file.kind = "whole" => IsIndex(file.ix))'
    BY <2>1 DEF StageInv, IsIndex
  <2> QED
    BY <2>1, <2>4, <2>5 DEF StageInv, cfg
<1> QED
  BY <1>1, <1>2, <1>3, <1>4, <1>5 DEF Next, Begins

LEMMA StageInvariant == DrawsAreNumbers /\ Spec => []StageInv
<1> SUFFICES ASSUME DrawsAreNumbers PROVE Spec => []StageInv
  OBVIOUS
<1>1. Init => StageInv
  BY InitStage
<1>2. StageInv /\ [Next]_vars => StageInv'
  BY NextStage
<1> QED
  BY <1>1, <1>2, PTL DEF Spec

LEMMA StageInvAgrees == StageInv => WorkersChangeNothing
<1> SUFFICES ASSUME StageInv, NEW s \in DOMAIN output, output[s] # <<>>
             PROVE  output[s] = Written(job, s, Computed(job, s, NewScratch(n)).found)
  BY DEF WorkersChangeNothing
<1>1. stage \in Forked
  BY DEF StageInv
<1>2. ForkInv
  BY <1>1 DEF StageInv
<1>3. s \in 0 .. Todo - 1
  BY <1>2 DEF ForkInv, OutputInv
<1>4. output[s] = Expected(job, s)
  BY <1>2, <1>3 DEF ForkInv, OutputInv
<1>5. Size(job) = n
  BY DEF Size, job, n
<1> QED
  BY <1>4, <1>5 DEF Expected

(***************************************************************************)
(* Whatever the number of vectors and of workers, and whatever the order    *)
(* they run in, a stage of parallelForNodes writes for a node what one      *)
(* worker alone would write with fresh scratch: collectors, marks and found  *)
(* lists that earlier nodes left in the scratch of a worker never show.     *)
(***************************************************************************)
THEOREM WorkersAgree == DrawsAreNumbers /\ Spec => []WorkersChangeNothing
BY StageInvariant, StageInvAgrees, PTL

----------------------------------------------------------------------------
(* A build is a function of the configuration and of the vectors: what the  *)
(* caller holds goes through the states of one sequence, and only its last   *)
(* one is published.                                                        *)

\* What a builder begins with.
Begin(b, c, d) ==
    IF b = "fast"
    THEN [stage |-> "layer", layer |-> MaxAssignedLayer(Levels(c, d)), layers |-> << >>,
          local |-> << >>, round |-> 0, input |-> << >>, own |-> << >>]
    ELSE [stage |-> "standard", layer |-> -1,
          layers |-> [l \in 0 .. MaxAssignedLayer(Levels(c, d)) |-> [id \in DOMAIN d |-> <<>>]],
          local |-> << >>, round |-> 1, input |-> << >>, own |-> NewScratch(Count(d))]

IsPath(b, c, d, k, f) ==
    f[0] = Begin(b, c, d) /\ \A i \in 0 .. k - 1 : f[i + 1] = Follow(c, d, f[i])

Reaches(b, c, d, x) == \E k \in Nat : \E f : IsPath(b, c, d, k, f) /\ f[k] = x

LEMMA ReachesBegin ==
    ASSUME NEW b, NEW c, NEW d
    PROVE  Reaches(b, c, d, Begin(b, c, d))
<1> DEFINE f == [i \in Nat |-> Begin(b, c, d)]
<1>1. IsPath(b, c, d, 0, f) /\ f[0] = Begin(b, c, d)
  BY DEF IsPath
<1> HIDE DEF f
<1> QED
  BY <1>1 DEF Reaches

LEMMA ReachesNext ==
    ASSUME NEW b, NEW c, NEW d, NEW x, Reaches(b, c, d, x)
    PROVE  Reaches(b, c, d, Follow(c, d, x))
<1>0. PICK k \in Nat : \E f : IsPath(b, c, d, k, f) /\ f[k] = x
  BY DEF Reaches
<1>1. PICK f : IsPath(b, c, d, k, f) /\ f[k] = x
  BY <1>0
<1> DEFINE y == Follow(c, d, x)
           g == [i \in 0 .. k + 1 |-> IF i = k + 1 THEN y ELSE f[i]]
<1>2. g[k + 1] = y /\ \A i \in 0 .. k : g[i] = f[i]
  OBVIOUS
<1> HIDE DEF g
<1>3. g[0] = Begin(b, c, d)
  BY <1>1, <1>2 DEF IsPath
<1>4. ASSUME NEW i \in 0 .. (k + 1) - 1
      PROVE  g[i + 1] = Follow(c, d, g[i])
  <2>1. CASE i = k
    BY <1>1, <1>2, <2>1
  <2>2. CASE i # k
    <3>1. i \in 0 .. k - 1 /\ i \in 0 .. k /\ i + 1 \in 0 .. k
      BY <2>2
    <3> QED
      BY <1>1, <1>2, <3>1 DEF IsPath
  <2> QED
    BY <2>1, <2>2
<1>5. IsPath(b, c, d, k + 1, g)
  BY <1>3, <1>4 DEF IsPath
<1>6. k + 1 \in Nat
  OBVIOUS
<1> QED
  BY <1>2, <1>5, <1>6 DEF Reaches

(* Two paths agree as far as both go, and one that has ended stays there.   *)
LEMMA PathsAgree ==
    ASSUME NEW b, NEW c, NEW d, NEW k \in Nat, NEW m \in Nat, k <= m, NEW f, NEW g,
           IsPath(b, c, d, k, f), IsPath(b, c, d, m, g), Follow(c, d, f[k]) = f[k]
    PROVE  g[m] = f[k]
<1> DEFINE T == {i \in 0 .. m : g[i] = IF i <= k THEN f[i] ELSE f[k]}
<1>1. 0 \in T
  BY DEF IsPath
<1>2. ASSUME NEW i \in 0 .. m - 1, i \in T
      PROVE  i + 1 \in T
  <2>1. g[i + 1] = Follow(c, d, g[i])
    BY DEF IsPath
  <2>2. CASE i < k
    <3>1. i \in 0 .. k - 1 /\ i + 1 <= k /\ i <= k
      BY <2>2
    <3>2. f[i + 1] = Follow(c, d, f[i])
      BY <3>1 DEF IsPath
    <3> QED
      BY <1>2, <2>1, <3>1, <3>2
  <2>3. CASE i >= k
    <3>1. g[i] = f[k]
      BY <1>2, <2>3
    <3>2. ~ (i + 1 <= k)
      BY <2>3
    <3> QED
      BY <2>1, <3>1, <3>2
  <2> QED
    BY <2>2, <2>3
<1>3. 0 .. m \subseteq T
  <2> HIDE DEF T
  <2> QED
    BY <1>1, <1>2, Induct
<1>4. m \in T
  BY <1>3
<1> QED
  BY <1>4

LEMMA OneEnd ==
    ASSUME NEW b, NEW c, NEW d, NEW x, NEW y, Reaches(b, c, d, x), Reaches(b, c, d, y),
           Follow(c, d, x) = x, Follow(c, d, y) = y
    PROVE  x = y
<1>0. PICK k \in Nat : \E f : IsPath(b, c, d, k, f) /\ f[k] = x
  BY DEF Reaches
<1>1. PICK f : IsPath(b, c, d, k, f) /\ f[k] = x
  BY <1>0
<1>2a. PICK m \in Nat : \E g : IsPath(b, c, d, m, g) /\ g[m] = y
  BY DEF Reaches
<1>2. PICK g : IsPath(b, c, d, m, g) /\ g[m] = y
  BY <1>2a
<1>3. CASE k <= m
  BY <1>1, <1>2, <1>3, PathsAgree
<1>4. CASE m <= k
  BY <1>1, <1>2, <1>4, PathsAgree
<1> QED
  BY <1>3, <1>4

(* A builder that is done stays as it is.                                   *)
LEMMA EndedStays ==
    ASSUME NEW c, NEW d, NEW x, Count(d) \in Nat, Ended(d, x)
    PROVE  Follow(c, d, x) = x
<1>1. CASE x.stage = "layer" /\ x.layer = -1
  BY <1>1 DEF Follow
<1>2. CASE x.stage = "standard" /\ x.round = Count(d)
  <2>1. ~ (x.round < Count(d))
    BY <1>2
  <2> QED
    BY <1>2, <2>1 DEF Follow
<1> QED
  BY <1>1, <1>2 DEF Ended

\* An index whose graph is ready is the end of a build.
IsBuilt(ix) ==
    ix.graphReady =>
       \E x : /\ Ended(ix.dist, x) /\ Reaches(ix.builder, ix.cfg, ix.dist, x)
              /\ ix = Final(ix.builder, ix.cfg, ix.dist, x)

PathInv ==
    /\ stage # "idle" => Reaches(Builder, cfg, idx.dist, view)
    /\ IsBuilt(idx)
    /\ file.kind = "whole" => file.ix.graphReady /\ IsBuilt(file.ix)

LEMMA InitPath == Init => PathInv
<1> SUFFICES ASSUME Init PROVE PathInv
  OBVIOUS
<1>1. stage = "idle" /\ file.kind = "none" /\ ~ idx.graphReady
  BY DEF Init, NoFile, NewIndex
<1> QED
  BY <1>1 DEF PathInv, IsBuilt

LEMMA BuildPath ==
    ASSUME StageInv, PathInv, NEW v \in DataSets, Begins(v)
    PROVE  PathInv'
<1>1. PICK ix : /\ IsIndex(ix) /\ Accepted(ix.cfg, v) /\ idx' = Taking(ix, v)
                /\ (Build(v) /\ ix.cfg = cfg) \/ BuildStandard(ix.cfg, v)
                /\ stage = "idle" /\ file' = file
  BY BuildBegins
<1>2. idx' = Emptied(ix.cfg, v) /\ Levels(ix.cfg, v.dist) = Levels(cfg', v.dist)
  BY <1>1, NewVectors
<1>3. idx'.dist = v.dist /\ idx'.graphReady = FALSE
  BY <1>2 DEF Emptied
<1>4. layer = -1 /\ round = 0 /\ layers = << >> /\ local = << >> /\ input = << >>
  BY <1>1 DEF StageInv
<1>5. view' = Begin(Builder', cfg', idx'.dist)
  <2>1. CASE Build(v) /\ ix.cfg = cfg
    <3>1. /\ stage' = "layer" /\ layer' = MaxAssignedLayer(Levels(cfg', v.dist))
          /\ layers' = << >> /\ local' = << >> /\ round' = 0 /\ input' = << >>
      BY <1>2, <1>4, <2>1 DEF Build
    <3>2. Builder' = "fast"
      BY <3>1 DEF Builder
    <3> QED
      BY <1>3, <3>1, <3>2 DEF Begin, view
  <2>2. CASE BuildStandard(ix.cfg, v)
    <3>1. /\ stage' = "standard" /\ layer' = -1 /\ local' = << >> /\ round' = 1 /\ input' = << >>
          /\ layers' = [l \in 0 .. MaxAssignedLayer(Levels(cfg', v.dist)) |->
                          [id \in DOMAIN v.dist |-> <<>>]]
          /\ scratch' = OneScratch(NewScratch(Count(v.dist)))
      BY <1>2, <1>4, <2>2 DEF BuildStandard
    <3>2. Builder' = "standard"
      BY <3>1 DEF Builder
    <3>3. scratch'[0] = NewScratch(Count(v.dist))
      BY <3>1 DEF OneScratch
    <3> QED
      BY <1>3, <3>1, <3>2, <3>3 DEF Begin, view
  <2> QED
    BY <1>1, <2>1, <2>2
<1>6. Reaches(Builder', cfg', idx'.dist, view')
  BY <1>5, ReachesBegin
<1>7. IsBuilt(idx')
  BY <1>3 DEF IsBuilt
<1> QED
  BY <1>1, <1>6, <1>7 DEF PathInv

LEMMA CallerPath ==
    ASSUME DrawsAreNumbers, StageInv, PathInv, Caller
    PROVE  PathInv'
<1>1. CASE /\ Followed /\ stage # "idle" /\ stage' # "idle"
           /\ (stage = "standard" <=> stage' = "standard")
  <2>1. idx' = idx /\ file' = file /\ view' = Follow(cfg, idx.dist, view) /\ Builder' = Builder
    BY <1>1 DEF Followed, Builder
  <2>2. cfg' = cfg
    BY <2>1 DEF cfg
  <2>3. Reaches(Builder, cfg, idx.dist, Follow(cfg, idx.dist, view))
    BY <1>1, ReachesNext DEF PathInv
  <2>4. Reaches(Builder', cfg', idx'.dist, view')
    BY <2>1, <2>2, <2>3
  <2> QED
    BY <2>1, <2>4 DEF PathInv
<1>2. CASE Publish \/ PublishStandard
  <2>1. /\ file' = file /\ stage' = "idle" /\ stage # "idle" /\ Ended(idx.dist, view)
        /\ idx' = Final(Builder, cfg, idx.dist, view)
    BY <1>2, PublishStage
  <2>2. idx'.cfg = cfg /\ idx'.dist = idx.dist /\ idx'.builder = Builder
    BY <2>1 DEF Final
  <2>3. Reaches(Builder, cfg, idx.dist, view)
    BY <2>1 DEF PathInv
  <2>4. IsBuilt(idx')
    BY <2>1, <2>2, <2>3 DEF IsBuilt
  <2> QED
    BY <2>1, <2>4 DEF PathInv
<1> QED
  BY <1>1, <1>2, CallerFollows

LEMMA NextPath ==
    ASSUME DrawsAreNumbers, StageInv, PathInv, [Next]_vars
    PROVE  PathInv'
<1>1. CASE \E v \in DataSets : Begins(v)
  BY <1>1, BuildPath
<1>2. CASE Caller
  BY <1>2, CallerPath
<1>3. ASSUME idx' = idx, file' = file, stage' = stage, view' = view
      PROVE  PathInv'
  <2>1. Builder' = Builder /\ cfg' = cfg
    BY <1>3 DEF Builder, cfg
  <2>2. stage' # "idle" => Reaches(Builder', cfg', idx'.dist, view')
    BY <1>3, <2>1 DEF PathInv
  <2> QED
    BY <1>3, <2>2 DEF PathInv
<1>4. CASE \E w \in DOMAIN left : Worker(w)
  BY <1>3, <1>4, WorkerStage
<1>5. CASE UNCHANGED vars
  <2>1. idx' = idx /\ file' = file /\ stage' = stage /\ view' = view
    BY <1>5 DEF vars, work, view
  <2> QED
    BY <1>3, <2>1
<1>6. CASE Save \/ Load
  <2>1. /\ stage' = "idle"
        /\ \/ idx' = idx /\ idx.graphReady
              /\ (file' = [kind |-> "whole", ix |-> idx] \/ file' = [kind |-> "torn"])
           \/ idx' = file.ix /\ file' = file /\ file.kind = "whole"
    BY <1>6, FileStage
  <2>2. CASE /\ idx' = idx /\ idx.graphReady
             /\ file' = [kind |-> "whole", ix |-> idx] \/ file' = [kind |-> "torn"]
    <3>1. file'.kind = "whole" => file'.ix = idx
      BY <2>2
    <3> QED
      BY <2>1, <2>2, <3>1 DEF PathInv
  <2>3. CASE idx' = file.ix /\ file' = file /\ file.kind = "whole"
    BY <2>1, <2>3 DEF PathInv
  <2> QED
    BY <2>1, <2>2, <2>3
<1> QED
  BY <1>1, <1>2, <1>4, <1>5, <1>6 DEF Next, Begins

LEMMA PathGivesRebuild == StageInv /\ PathInv => RebuildGivesTheSameGraph
<1> SUFFICES ASSUME StageInv, PathInv, idx.graphReady, file.kind = "whole",
                    <<idx.cfg, idx.dist, idx.builder>>
                       = <<file.ix.cfg, file.ix.dist, file.ix.builder>>
             PROVE  idx = file.ix
  BY DEF RebuildGivesTheSameGraph
<1>1. idx.cfg = file.ix.cfg /\ idx.dist = file.ix.dist /\ idx.builder = file.ix.builder
  OBVIOUS
<1>2. Count(idx.dist) \in Nat
  BY DEF StageInv, IsIndex
<1>3. PICK x : /\ Ended(idx.dist, x) /\ Reaches(idx.builder, idx.cfg, idx.dist, x)
               /\ idx = Final(idx.builder, idx.cfg, idx.dist, x)
  BY DEF PathInv, IsBuilt
<1>4. PICK y : /\ Ended(idx.dist, y) /\ Reaches(idx.builder, idx.cfg, idx.dist, y)
               /\ file.ix = Final(idx.builder, idx.cfg, idx.dist, y)
  BY <1>1 DEF PathInv, IsBuilt
<1>5. Follow(idx.cfg, idx.dist, x) = x /\ Follow(idx.cfg, idx.dist, y) = y
  BY <1>2, <1>3, <1>4, EndedStays
<1>6. x = y
  BY <1>3, <1>4, <1>5, OneEnd
<1> QED
  BY <1>3, <1>4, <1>6

(***************************************************************************)
(* A graph that is built again from the same vectors and configuration, by  *)
(* the same builder, is the graph that was saved, for every number of       *)
(* vectors and every interleaving of the workers of either build: what the  *)
(* caller holds after each fork-join is a function of what it held before,   *)
(* so the two builds go through the same states to the same end.            *)
(***************************************************************************)
THEOREM RebuildIsTheSame == DrawsAreNumbers /\ Spec => []RebuildGivesTheSameGraph
<1> SUFFICES ASSUME DrawsAreNumbers PROVE Spec => []RebuildGivesTheSameGraph
  OBVIOUS
<1>1. Init => StageInv /\ PathInv
  BY InitStage, InitPath
<1>2. StageInv /\ PathInv /\ [Next]_vars => StageInv' /\ PathInv'
  BY NextStage, NextPath
<1>3. StageInv /\ PathInv => RebuildGivesTheSameGraph
  BY PathGivesRebuild
<1> QED
  BY <1>1, <1>2, <1>3, PTL DEF Spec

----------------------------------------------------------------------------
(* What either builder publishes can be saved and loaded.  A list of a node  *)
(* in a layer is one the format takes: no longer than the bound, without     *)
(* doubles, and with other nodes of the layer only.                         *)

(* In what a bounded heap keeps, a place is a rank.                          *)
LEMMA NearestRanks ==
    ASSUME NEW S \in SUBSET Int, IsFiniteSet(S), NEW d, \A a \in S : d[a] \in Int,
           NEW limit \in Nat
    PROVE  LET q == Nearest(d, S, limit)
           IN  /\ q \in Seq(S) /\ Len(q) = AtMost(limit, Cardinality(S))
               /\ \A i \in 1 .. Len(q) : Cardinality({b \in S : Better(d, b, q[i])}) = i - 1
<1> DEFINE m == AtMost(limit, Cardinality(S))
           Rank(a) == Cardinality({b \in S : Better(d, b, a)})
           q == Nearest(d, S, limit)
<1>1. Cardinality(S) \in Nat
  BY FS_CardinalityType
<1>2. m \in Nat /\ m <= Cardinality(S)
  BY <1>1 DEF AtMost
<1>3. q = [i \in 1 .. m |-> CHOOSE a \in S : Rank(a) = i - 1]
  BY DEF Nearest
<1> HIDE DEF m, q
<1>4. ASSUME NEW i \in 1 .. m PROVE Rank(q[i]) = i - 1
  <2>1. i - 1 \in 0 .. Cardinality(S) - 1
    BY <1>1, <1>2
  <2>2. PICK a \in S : Cardinality(Under(ByDistance(d, S), S, a)) = i - 1
    <3>1. HasRank(ByDistance(d, S), S, i - 1)
      BY <2>1, DistanceOrders, Ranks
    <3> QED
      BY <3>1 DEF HasRank
  <2>3. Under(ByDistance(d, S), S, a) = {b \in S : Better(d, b, a)}
    BY DEF Under, ByDistance
  <2>4. \E x \in S : Rank(x) = i - 1
    BY <2>2, <2>3
  <2> HIDE DEF Rank
  <2>5. q[i] = CHOOSE x \in S : Rank(x) = i - 1
    BY <1>3
  <2> QED
    BY <2>4, <2>5
<1>5. q \in Seq(S)
  BY NearestType DEF q
<1>6. Len(q) = m
  <2>1. DOMAIN q = 1 .. m
    BY <1>3
  <2> QED
    BY <1>2, <1>5, <2>1
<1> QED
  BY <1>4, <1>5, <1>6 DEF q, m

(* So it is sorted.                                                          *)
LEMMA NearestSorted ==
    ASSUME NEW S \in SUBSET Int, IsFiniteSet(S), NEW d, \A a \in S : d[a] \in Int,
           NEW limit \in Nat
    PROVE  LET q == Nearest(d, S, limit)
           IN  \A i, j \in 1 .. Len(q) : i < j => Better(d, q[i], q[j])
<1> DEFINE q == Nearest(d, S, limit)
           U(a) == {b \in S : Better(d, b, a)}
<1>1. q \in Seq(S) /\ \A i \in 1 .. Len(q) : Cardinality(U(q[i])) = i - 1
  BY NearestRanks
<1> HIDE DEF q
<1> SUFFICES ASSUME NEW i \in 1 .. Len(q), NEW j \in 1 .. Len(q), i < j
             PROVE  Better(d, q[i], q[j])
  BY DEF q
<1>2. q[i] \in S /\ q[j] \in S /\ i \in Int /\ j \in Int
  BY <1>1
<1>3. Cardinality(U(q[i])) = i - 1 /\ Cardinality(U(q[j])) = j - 1
  BY <1>1
<1> HIDE DEF U
<1>4. \A a \in S : a \in Int /\ d[a] \in Int
  OBVIOUS
<1>4a. \A a, b, c \in S : Better(d, a, b) /\ Better(d, b, c) => Better(d, a, c)
  BY <1>4 DEF Better
<1>4b. \A a, b \in S : a = b \/ Better(d, a, b) \/ Better(d, b, a)
  BY <1>4 DEF Better
<1>5. q[i] # q[j]
  BY <1>2, <1>3
<1>6. ~ Better(d, q[j], q[i])
  <2> SUFFICES ASSUME Better(d, q[j], q[i]) PROVE FALSE
    OBVIOUS
  <2>1. \A b \in S : Better(d, b, q[j]) => Better(d, b, q[i])
    BY <1>2, <1>4a
  <2>2. U(q[j]) \subseteq U(q[i]) /\ U(q[i]) \subseteq S
    BY <2>1 DEF U
  <2>3. IsFiniteSet(U(q[i])) /\ Cardinality(U(q[j])) <= Cardinality(U(q[i]))
    BY <2>2, FS_Subset
  <2> QED
    BY <1>2, <1>3, <2>3
<1> QED
  BY <1>2, <1>4b, <1>5, <1>6

(* And it has no doubles.                                                    *)
LEMMA NearestDistinct ==
    ASSUME NEW S \in SUBSET Int, IsFiniteSet(S), NEW d, \A a \in S : d[a] \in Int,
           NEW limit \in Nat
    PROVE  /\ IsInjective(Nearest(d, S, limit))
           /\ Len(Nearest(d, S, limit)) = AtMost(limit, Cardinality(S))
<1> DEFINE q == Nearest(d, S, limit)
           Rank(a) == Cardinality({b \in S : Better(d, b, a)})
<1>1. /\ q \in Seq(S) /\ Len(q) = AtMost(limit, Cardinality(S))
      /\ \A i \in 1 .. Len(q) : Rank(q[i]) = i - 1
  BY NearestRanks
<1> HIDE DEF q, Rank
<1>2. ASSUME NEW i \in 1 .. Len(q), NEW j \in 1 .. Len(q), q[i] = q[j] PROVE i = j
  <2>1. i - 1 = j - 1
    BY <1>1, <1>2
  <2> QED
    BY <1>1, <2>1
<1>3. DOMAIN q = 1 .. Len(q)
  BY <1>1
<1>4. IsInjective(q)
  BY <1>2, <1>3 DEF IsInjective
<1> QED
  BY <1>1, <1>4 DEF q

(* A list without doubles, and one more member.                              *)
LEMMA OneMore ==
    ASSUME NEW S, NEW q \in Seq(S), NEW e \in S, IsInjective(q), \A x \in 1 .. Len(q) : q[x] # e
    PROVE  /\ Append(q, e) \in Seq(S) /\ IsInjective(Append(q, e))
           /\ Len(Append(q, e)) = Len(q) + 1 /\ DOMAIN Append(q, e) = 1 .. Len(q) + 1
           /\ Append(q, e)[Len(q) + 1] = e /\ \A x \in 1 .. Len(q) : Append(q, e)[x] = q[x]
<1> DEFINE r == Append(q, e)
<1>1. /\ r \in Seq(S) /\ Len(r) = Len(q) + 1 /\ DOMAIN r = 1 .. Len(q) + 1 /\ Len(q) \in Nat
      /\ DOMAIN q = 1 .. Len(q)
      /\ r[Len(q) + 1] = e /\ \A x \in 1 .. Len(q) : r[x] = q[x]
  OBVIOUS
<1> HIDE DEF r
<1>2. \A x, y \in 1 .. Len(q) : q[x] = q[y] => x = y
  BY <1>1 DEF IsInjective
<1>3. ASSUME NEW x \in 1 .. Len(q) + 1, NEW y \in 1 .. Len(q) + 1, r[x] = r[y] PROVE x = y
  <2>1. CASE x \in 1 .. Len(q) /\ y \in 1 .. Len(q)
    BY <1>1, <1>2, <1>3, <2>1
  <2>2. CASE x = Len(q) + 1 /\ y \in 1 .. Len(q)
    BY <1>1, <1>3, <2>2
  <2>3. CASE y = Len(q) + 1 /\ x \in 1 .. Len(q)
    BY <1>1, <1>3, <2>3
  <2> QED
    BY <1>1, <2>1, <2>2, <2>3
<1>4. IsInjective(r)
  BY <1>1, <1>3 DEF IsInjective
<1> QED
  BY <1>1, <1>4 DEF r

(* A list that grows by the members of one without doubles, up to a bound.    *)
LEMMA GrownList ==
    ASSUME NEW S, NEW sorted \in Seq(S), IsInjective(sorted), NEW bound \in Nat, NEW M,
           Run(M, Len(sorted), Seq(S), <<>>),
           \A i \in 1 .. Len(sorted) :
              \/ M[i] = M[i - 1]
              \/ Len(M[i - 1]) < bound /\ M[i] = Append(M[i - 1], sorted[i])
    PROVE  LET q == M[Len(sorted)]
           IN  q \in Seq(S) /\ IsInjective(q) /\ Len(q) <= bound
<1> DEFINE m == Len(sorted)
           Good(i) == /\ IsInjective(M[i]) /\ Len(M[i]) <= bound
                      /\ \A x \in DOMAIN M[i] : \E j \in 1 .. i : M[i][x] = sorted[j]
           T == {i \in 0 .. m : Good(i)}
<1>1. m \in Nat /\ M \in [0 .. m -> Seq(S)] /\ M[0] = <<>>
  BY DEF Run
<1>2. 0 \in T
  <2>1. Len(<<>>) = 0 /\ DOMAIN <<>> = {}
    OBVIOUS
  <2>2. IsInjective(<<>>)
    BY <2>1 DEF IsInjective
  <2>3. Good(0)
    BY <1>1, <2>1, <2>2
  <2> HIDE DEF Good
  <2> QED
    BY <1>1, <2>3
<1>3. ASSUME NEW i \in 0 .. m - 1, i \in T PROVE i + 1 \in T
  <2>1. Good(i) /\ i + 1 \in 1 .. m /\ i + 1 \in 0 .. m /\ (i + 1) - 1 = i
    BY <1>1, <1>3
  <2>2. CASE M[i + 1] = M[i]
    <3>1. Good(i + 1)
      BY <1>1, <2>1, <2>2
    <3> HIDE DEF Good
    <3> QED
      BY <2>1, <3>1
  <2>3. CASE Len(M[i]) < bound /\ M[i + 1] = Append(M[i], sorted[i + 1])
    <3> DEFINE q == M[i]
               e == sorted[i + 1]
               r == Append(q, e)
    <3>1. q \in Seq(S) /\ e \in S /\ IsInjective(q)
      <4>1. q \in Seq(S)
        BY <1>1, <2>1
      <4>2. i + 1 \in 1 .. Len(sorted)
        BY <2>1
      <4>3. e \in S
        BY <4>2
      <4> QED
        BY <2>1, <4>1, <4>3
    <3>1a. \A x \in DOMAIN q : \E j \in 1 .. i : q[x] = sorted[j]
      BY <2>1
    <3>1b. DOMAIN q = 1 .. Len(q) /\ Len(q) \in Nat /\ DOMAIN sorted = 1 .. m
      BY <3>1
    <3>2. ASSUME NEW x \in 1 .. Len(q) PROVE q[x] # e
      <4>1. PICK j \in 1 .. i : q[x] = sorted[j]
        BY <3>1a, <3>1b
      <4>2. j \in DOMAIN sorted /\ i + 1 \in DOMAIN sorted /\ j # i + 1
        BY <1>1, <2>1, <3>1b
      <4> QED
        BY <4>1, <4>2 DEF IsInjective
    <3> HIDE DEF q, e
    <3>3. /\ r \in Seq(S) /\ IsInjective(r) /\ Len(r) = Len(q) + 1 /\ DOMAIN r = 1 .. Len(q) + 1
          /\ r[Len(q) + 1] = e /\ \A x \in 1 .. Len(q) : r[x] = q[x]
      BY <3>1, <3>2, OneMore
    <3> HIDE DEF r
    <3>5. Len(r) <= bound
      BY <1>1, <2>3, <3>1b, <3>3 DEF q
    <3>6. ASSUME NEW x \in DOMAIN r PROVE \E j \in 1 .. i + 1 : r[x] = sorted[j]
      <4>1. CASE x = Len(q) + 1
        BY <2>1, <3>3, <4>1 DEF e
      <4>2. CASE x \in 1 .. Len(q)
        <5>1. PICK j \in 1 .. i : q[x] = sorted[j]
          BY <3>1a, <3>1b, <4>2
        <5>2. j \in 1 .. i + 1 /\ r[x] = sorted[j]
          BY <3>3, <4>2, <5>1
        <5> QED
          BY <5>2
      <4> QED
        BY <3>1b, <3>3, <4>1, <4>2
    <3>7. M[i + 1] = r
      BY <2>3 DEF r, q, e
    <3>8. Good(i + 1)
      BY <3>3, <3>5, <3>6, <3>7
    <3> HIDE DEF Good
    <3> QED
      BY <2>1, <3>8
  <2> QED
    BY <2>1, <2>2, <2>3
<1>4. m \in T
  <2> HIDE DEF T
  <2>1. 0 .. m \subseteq T
    BY <1>1, <1>2, <1>3, Induct
  <2> QED
    BY <1>1, <2>1
<1>5. Good(m)
  BY <1>4
<1> QED
  BY <1>1, <1>5

LEMMA NormalizedList ==
    ASSUME NEW k \in Nat, NEW dist \in Tables(k), NEW s \in 0 .. k - 1,
           NEW C \in SUBSET (0 .. k - 1), NEW candidates \in Seq(C)
    PROVE  Normalized(dist, s, candidates) \in Seq(C \ {s}) /\ IsInjective(Normalized(dist, s, candidates))
<1> DEFINE S == ToSet(candidates) \ {s}
           q == Normalized(dist, s, candidates)
           U == C \ {s}
<1>1. S \in SUBSET U /\ S \in SUBSET (0 .. k - 1) /\ Len(candidates) \in Nat
  <2>1. ToSet(candidates) \in SUBSET C
    BY ToSetType
  <2>2. S \in SUBSET U
    BY <2>1
  <2>3. S \in SUBSET (0 .. k - 1)
    BY <2>1
  <2>4. Len(candidates) \in Nat
    OBVIOUS
  <2> QED
    BY <2>2, <2>3, <2>4
<1>2. IsFiniteSet(S) /\ S \in SUBSET Int
  BY <1>1, NodesFinite
<1>3. \A a \in S : dist[s][a] \in Int
  BY <1>1 DEF Tables
<1>4. q = Nearest(dist[s], S, Len(candidates))
  BY DEF Normalized
<1> HIDE DEF S, q, U
<1>5. q \in Seq(S) /\ IsInjective(q)
  BY <1>1, <1>2, <1>3, <1>4, NearestType, NearestDistinct
<1>6. q \in Seq(U)
  BY <1>1, <1>5, SeqWidens
<1> QED
  BY <1>5, <1>6 DEF q, U

\* A list the format takes for node s, of nodes of C.
IsList(q, C, s, bound) == q \in Seq(C \ {s}) /\ IsInjective(q) /\ Len(q) <= bound

LEMMA PruneList ==
    ASSUME NEW mode, NEW k \in Nat, NEW dist \in Tables(k), NEW s \in 0 .. k - 1,
           NEW C \in SUBSET (0 .. k - 1), NEW candidates \in Seq(C), NEW bound \in Nat
    PROVE  IsList(Prune(mode, dist, s, candidates, bound), C, s, bound)
<1> DEFINE sorted == Normalized(dist, s, candidates)
           U == C \ {s}
           M == Pruning(mode, dist, s, sorted, bound)
<1>1. sorted \in Seq(U) /\ IsInjective(sorted)
  BY NormalizedList
<1>2. Prune(mode, dist, s, candidates, bound) = M[Len(sorted)]
  BY DEF Prune
<1> HIDE DEF sorted, U
<1>3. /\ Run(M, Len(sorted), Seq(U), <<>>)
      /\ \A i \in 1 .. Len(sorted) : M[i] = Keep(mode, dist, s, M[i - 1], sorted[i], bound)
  BY <1>1, PruningIs
<1> HIDE DEF M
<1>4. ASSUME NEW i \in 1 .. Len(sorted)
      PROVE  \/ M[i] = M[i - 1]
             \/ Len(M[i - 1]) < bound /\ M[i] = Append(M[i - 1], sorted[i])
  <2>1. M[i] = Keep(mode, dist, s, M[i - 1], sorted[i], bound)
    BY <1>3
  <2>2. Len(M[i - 1]) \in Nat
    <3>1. i - 1 \in 0 .. Len(sorted)
      BY <1>1
    <3> QED
      BY <1>3, <3>1 DEF Run
  <2>3. CASE Len(M[i - 1]) >= bound
    BY <2>1, <2>3 DEF Keep
  <2>4. CASE Len(M[i - 1]) < bound
    BY <2>1, <2>4 DEF Keep
  <2> QED
    BY <2>2, <2>3, <2>4
<1>5. M[Len(sorted)] \in Seq(U) /\ IsInjective(M[Len(sorted)]) /\ Len(M[Len(sorted)]) <= bound
  BY <1>1, <1>3, <1>4, GrownList
<1> QED
  BY <1>2, <1>5 DEF IsList, U

(* The labels of a layer are distinct: a place is a rank.                     *)
LEMMA LayoutDistinct ==
    ASSUME NEW k \in Nat, NEW levels \in [0 .. k - 1 -> Nat], NEW l
    PROVE  IsInjective(Layout(levels, l))
<1> DEFINE S == LayerIds(levels, l)
           m == Cardinality(S)
           Before(a, b) == levels[a] > levels[b] \/ (levels[a] = levels[b] /\ a < b)
           Rank(id) == Cardinality({b \in S : Before(b, id)})
           q == Layout(levels, l)
<1>1. S \in SUBSET (0 .. k - 1)
  BY DEF LayerIds
<1>2. q = [i \in 0 .. m - 1 |-> CHOOSE id \in S : Rank(id) = i]
  BY Zenon DEF Layout, LayerIds
<1> HIDE DEF S, q
<1>3. IsFiniteSet(S) /\ m \in Nat /\ S \in SUBSET Int
  BY <1>1, NodesFinite
<1>4. \A a \in S : levels[a] \in Int
  BY <1>1
<1>5. ASSUME NEW i \in 0 .. m - 1 PROVE Rank(q[i]) = i
  <2>1. PICK a \in S : Cardinality(Under(ByLevel(levels, S), S, a)) = i
    <3>1. Orders(ByLevel(levels, S), S)
      BY <1>3, <1>4, LevelOrders
    <3>2. HasRank(ByLevel(levels, S), S, i)
      BY <1>3, <3>1, Ranks
    <3> QED
      BY <3>2 DEF HasRank
  <2>2. Under(ByLevel(levels, S), S, a) = {b \in S : Before(b, a)}
    BY DEF Under, ByLevel
  <2>3. \E x \in S : Rank(x) = i
    BY <2>1, <2>2, Zenon
  <2> HIDE DEF Rank, m
  <2>4. q[i] = CHOOSE id \in S : Rank(id) = i
    BY <1>2
  <2> QED
    BY <2>3, <2>4
<1> HIDE DEF Rank, m
<1>6. DOMAIN q = 0 .. m - 1
  BY <1>2
<1>7. \A i, j \in 0 .. m - 1 : q[i] = q[j] => i = j
  BY <1>5
<1>8. IsInjective(q)
  BY <1>6, <1>7 DEF IsInjective
<1> QED
  BY <1>8 DEF q

(* The entry point of the fast builder is a node of the top layer.           *)
LEMMA EntryPointIs ==
    ASSUME DrawsAreNumbers, NEW k \in Nat \ {0}, NEW levels \in [0 .. k - 1 -> Nat], NEW seed \in Nat
    PROVE  EntryPoint(levels, seed) \in 0 .. k - 1
              /\ levels[EntryPoint(levels, seed)] = MaxAssignedLayer(levels)
<1> DEFINE top == MaxAssignedLayer(levels)
           labels == Layout(levels, top)
           ids == LayerIds(levels, top)
           m == Cardinality(ids)
           draw == Draw(<<seed, top, m>>, 0)
<1>1. /\ top \in Nat /\ (\A id \in 0 .. k - 1 : levels[id] <= top)
      /\ \E id \in 0 .. k - 1 : levels[id] = top
  BY MaxLayerType
<1> HIDE DEF top
<1>2. ids \in SUBSET (0 .. k - 1) /\ m \in Nat /\ labels \in [0 .. m - 1 -> ids]
  BY LayoutType
<1>3. ids # {} /\ \A id \in ids : levels[id] = top
  BY <1>1 DEF LayerIds
<1>4. m # 0
  <2>1. IsFiniteSet(ids)
    BY <1>2, NodesFinite
  <2> QED
    BY <1>3, <2>1, FS_EmptySet
<1> HIDE DEF ids, labels, m
<1>5. Count(labels) = m
  <2>1. DOMAIN labels = 0 .. m - 1 /\ Cardinality(0 .. m - 1) = m
    BY <1>2, FS_Interval
  <2> QED
    BY <2>1 DEF Count
<1>6. EntryPoint(levels, seed) = labels[draw % m]
  <2>1. EntryPoint(levels, seed) = labels[Draw(<<seed, top, Count(labels)>>, 0) % Count(labels)]
    BY Zenon DEF EntryPoint, top, labels
  <2> QED
    BY <1>5, <2>1
<1>7. draw \in Int
  <2> DEFINE stream == <<seed, top, m>>
  <2>1. stream \in Seq(Int) /\ 0 \in Int
    BY <1>1, <1>2
  <2> HIDE DEF stream
  <2>2. Draw(stream, 0) \in Int
    BY <2>1 DEF DrawsAreNumbers
  <2> QED
    BY <2>2 DEF stream
<1> HIDE DEF draw
<1>8. draw % m \in 0 .. m - 1
  BY <1>2, <1>4, <1>7, Remainder
<1> QED
  BY <1>2, <1>3, <1>6, <1>8 DEF top

(* That of the incremental builder opened the top layer of the nodes so far. *)
LEMMA EntryOfIs ==
    ASSUME NEW k \in Nat, NEW levels \in [0 .. k - 1 -> Nat], NEW i \in 1 .. k
    PROVE  /\ TopOf(levels, i) \in 0 .. MaxAssignedLayer(levels)
           /\ EntryOf(levels, i) \in 0 .. i - 1 /\ levels[EntryOf(levels, i)] = TopOf(levels, i)
           /\ i = k => TopOf(levels, i) = MaxAssignedLayer(levels)
<1> DEFINE first == [id \in 0 .. i - 1 |-> levels[id]]
           top == TopOf(levels, i)
           opened == {id \in 0 .. i - 1 : levels[id] = top}
<1>1. first \in [0 .. i - 1 -> Nat] /\ i \in Nat \ {0} /\ k \in Nat \ {0}
  OBVIOUS
<1>2. top = MaxAssignedLayer(first)
  BY DEF TopOf
<1>3. \A id \in 0 .. i - 1 : first[id] = levels[id] /\ id \in 0 .. k - 1
  OBVIOUS
<1>4. i = k => first = levels
  OBVIOUS
<1> HIDE DEF top, first
<1>5. top \in Nat /\ \E id \in 0 .. i - 1 : first[id] = top
  BY <1>1, <1>2, MaxLayerType
<1>6. MaxAssignedLayer(levels) \in Nat /\ \A id \in 0 .. k - 1 : levels[id] <= MaxAssignedLayer(levels)
  BY <1>1, MaxLayerType
<1>7. top \in 0 .. MaxAssignedLayer(levels)
  BY <1>3, <1>5, <1>6
<1>8. opened \in SUBSET Nat /\ opened # {}
  BY <1>3, <1>5
<1>9. EntryOf(levels, i) = Least(opened)
  BY DEF EntryOf, top
<1>10. Least(opened) \in opened
  BY <1>8, LeastType
<1> QED
  BY <1>2, <1>4, <1>7, <1>9, <1>10 DEF top

\* A layer the format takes.
GoodLayer(c, d, l, adjacency) ==
    LET levels == Levels(c, d)
    IN  /\ adjacency = [s \in DOMAIN d |-> adjacency[s]]
        /\ \A s \in DOMAIN d :
              /\ IsList(adjacency[s], LayerIds(levels, l), s, LayerMaxDegree(c.M, l))
              /\ levels[s] < l => adjacency[s] = <<>>

LEMMA NoList ==
    ASSUME NEW C, NEW s, NEW bound \in Nat
    PROVE  IsList(<<>>, C, s, bound)
<1>1. <<>> \in Seq(C \ {s}) /\ Len(<<>>) = 0 /\ DOMAIN <<>> = {}
  OBVIOUS
<1>2. IsInjective(<<>>)
  BY <1>1 DEF IsInjective
<1> QED
  BY <1>1, <1>2 DEF IsList

LEMMA DegreeType ==
    ASSUME NEW c \in ConfigType, NEW l
    PROVE  LayerMaxDegree(c.M, l) \in Nat \ {0}
BY DEF LayerMaxDegree, ConfigType, Positive

(* A layer that is small enough to be complete.                              *)
LEMMA CompleteLayerGood ==
    ASSUME NEW c \in ConfigType, NEW k \in Nat, NEW d \in Tables(k), NEW l \in Nat,
           Levels(c, d) \in [0 .. k - 1 -> Nat],
           Count(LayerVectors(Layout(Levels(c, d), l), d)) - 1 <= LayerMaxDegree(c.M, l)
    PROVE  GoodLayer(c, d, l, CompleteLayer(Layout(Levels(c, d), l), d))
<1> DEFINE levels == Levels(c, d)
           labels == Layout(levels, l)
           ids == LayerIds(levels, l)
           m == Cardinality(ids)
           bound == LayerMaxDegree(c.M, l)
           nodes == Range(labels)
           made == CompleteLayer(labels, d)
<1>1. ids \in SUBSET (0 .. k - 1) /\ m \in Nat /\ labels \in [0 .. m - 1 -> ids] /\ IsFiniteSet(ids)
  BY LayoutType, NodesFinite
<1>2. bound \in Nat /\ DOMAIN d = 0 .. k - 1 /\ levels \in [0 .. k - 1 -> Nat]
  BY DegreeType DEF Tables
<1>3. made = [id \in DOMAIN d |->
                IF id \in nodes THEN Nearest(d[id], nodes \ {id}, Count(labels)) ELSE <<>>]
  BY DEF CompleteLayer
<1>4. \A id \in 0 .. k - 1 : id \in ids <=> levels[id] >= l
  BY <1>2 DEF LayerIds
<1>5. m - 1 <= bound
  <2>1. DOMAIN LayerVectors(labels, d) = DOMAIN labels /\ DOMAIN labels = 0 .. m - 1
    BY <1>1 DEF LayerVectors
  <2>2. Cardinality(0 .. m - 1) = m
    BY <1>1, FS_Interval
  <2>3. Count(LayerVectors(labels, d)) = m
    BY <2>1, <2>2 DEF Count
  <2> QED
    BY <2>3
<1> HIDE DEF levels, labels, ids, m, bound, made
<1>6. nodes \in SUBSET ids /\ Count(labels) = m
  <2>1. DOMAIN labels = 0 .. m - 1 /\ Cardinality(0 .. m - 1) = m
    BY <1>1, FS_Interval
  <2> QED
    BY <1>1, <2>1 DEF Count, Range
<1> HIDE DEF nodes
<1>7. ASSUME NEW s \in 0 .. k - 1
      PROVE  IsList(made[s], ids, s, bound) /\ (levels[s] < l => made[s] = <<>>)
  <2>1. CASE s \notin nodes
    BY <1>2, <1>3, <2>1, NoList
  <2>2. CASE s \in nodes
    <3> DEFINE S == nodes \ {s}
               U == ids \ {s}
               q == Nearest(d[s], S, m)
    <3>1. s \in ids /\ ~ (levels[s] < l)
      BY <1>2, <1>4, <1>6, <2>2
    <3>2. S \in SUBSET U /\ IsFiniteSet(U) /\ Cardinality(U) = m - 1
      BY <1>1, <1>6, <3>1, FS_RemoveElement DEF m
    <3>3. IsFiniteSet(S) /\ Cardinality(S) <= m - 1 /\ Cardinality(S) \in Nat
      <4> HIDE DEF S, U
      <4> QED
        BY <3>2, FS_Subset, FS_CardinalityType
    <3>4. S \in SUBSET Int /\ \A a \in S : d[s][a] \in Int
      BY <1>1, <1>6 DEF Tables
    <3> HIDE DEF S, U, q
    <3>5. q \in Seq(S) /\ IsInjective(q) /\ Len(q) = AtMost(m, Cardinality(S))
      BY <1>1, <3>3, <3>4, NearestType, NearestDistinct DEF q
    <3>6. q \in Seq(U)
      BY <3>2, <3>5, SeqWidens
    <3>7. Len(q) <= bound
      BY <1>1, <1>2, <1>5, <3>3, <3>5 DEF AtMost
    <3>8. made[s] = q
      BY <1>2, <1>3, <1>6, <2>2 DEF q, S
    <3> QED
      BY <3>1, <3>5, <3>6, <3>7, <3>8 DEF IsList, U
  <2> QED
    BY <2>1, <2>2
<1>8. made = [s \in DOMAIN d |-> made[s]]
  BY <1>3
<1> QED
  BY <1>2, <1>7, <1>8 DEF GoodLayer, levels, labels, ids, bound, made

(* The lists of a layer in ids of the index.                                 *)
LEMMA ToGlobalGood ==
    ASSUME NEW c \in ConfigType, NEW k \in Nat, NEW d \in Tables(k), NEW l \in Nat,
           Levels(c, d) \in [0 .. k - 1 -> Nat],
           NEW m, m = Cardinality(LayerIds(Levels(c, d), l)), NEW adjacency,
           \A i \in 0 .. m - 1 : IsList(adjacency[i], 0 .. m - 1, i, LayerMaxDegree(c.M, l))
    PROVE  GoodLayer(c, d, l, ToGlobal(adjacency, Layout(Levels(c, d), l), d))
<1> DEFINE levels == Levels(c, d)
           labels == Layout(levels, l)
           ids == LayerIds(levels, l)
           bound == LayerMaxDegree(c.M, l)
           Local(id) == CHOOSE i \in DOMAIN labels : labels[i] = id
           made == ToGlobal(adjacency, labels, d)
<1>1. ids \in SUBSET (0 .. k - 1) /\ m \in Nat /\ labels \in [0 .. m - 1 -> ids] /\ IsInjective(labels)
  BY LayoutType, LayoutDistinct
<1>2. bound \in Nat /\ DOMAIN d = 0 .. k - 1 /\ levels \in [0 .. k - 1 -> Nat]
  BY DegreeType DEF Tables
<1>3. made = [id \in DOMAIN d |->
                IF id \notin Range(labels) THEN <<>>
                ELSE [j \in DOMAIN adjacency[Local(id)] |-> labels[adjacency[Local(id)][j]]]]
  BY DEF ToGlobal
<1>4. \A id \in 0 .. k - 1 : id \in ids <=> levels[id] >= l
  BY <1>2 DEF LayerIds
<1>5. \A i \in 0 .. m - 1 : IsList(adjacency[i], 0 .. m - 1, i, bound)
  OBVIOUS
<1> HIDE DEF levels, labels, ids, bound, made
<1>6. ASSUME NEW s \in 0 .. k - 1
      PROVE  IsList(made[s], ids, s, bound) /\ (levels[s] < l => made[s] = <<>>)
  <2>1. CASE s \notin Range(labels)
    BY <1>2, <1>3, <2>1, NoList
  <2>2. CASE s \in Range(labels)
    <3> DEFINE i == Local(s)
               p == adjacency[i]
               q == [j \in DOMAIN p |-> labels[p[j]]]
    <3>1. i \in 0 .. m - 1 /\ labels[i] = s
      <4>1. \E x \in DOMAIN labels : labels[x] = s
        BY <2>2 DEF Range
      <4> QED
        BY <1>1, <4>1
    <3>2. made[s] = q
      BY <1>2, <1>3, <2>2
    <3> HIDE DEF i, q
    <3>3. s \in ids /\ ~ (levels[s] < l)
      <4>1. s \in ids
        BY <1>1, <3>1
      <4>2. levels[s] >= l /\ levels[s] \in Nat
        BY <1>2, <1>4, <4>1
      <4> QED
        BY <4>1, <4>2
    <3>4. p \in Seq((0 .. m - 1) \ {i}) /\ IsInjective(p) /\ Len(p) <= bound
      BY <1>5, <3>1 DEF IsList
    <3> HIDE DEF p
    <3>5. Len(p) \in Nat /\ DOMAIN p = 1 .. Len(p) /\ \A j \in 1 .. Len(p) : p[j] \in 0 .. m - 1 /\ p[j] # i
      BY <3>4
    <3>6. \A j \in 1 .. Len(p) : q[j] = labels[p[j]] /\ q[j] \in ids \ {s}
      <4> TAKE j \in 1 .. Len(p)
      <4>1. q[j] = labels[p[j]]
        BY <3>5 DEF q
      <4>2. p[j] \in DOMAIN labels /\ i \in DOMAIN labels /\ p[j] # i
        BY <1>1, <3>1, <3>5
      <4>3. labels[p[j]] # labels[i]
        BY <1>1, <4>2 DEF IsInjective
      <4> QED
        BY <1>1, <3>1, <4>1, <4>2, <4>3
    <3>7. q \in [1 .. Len(p) -> ids \ {s}]
      <4>1. q = [j \in 1 .. Len(p) |-> labels[p[j]]]
        BY <3>5 DEF q
      <4> QED
        BY <3>6, <4>1
    <3>8. q \in Seq(ids \ {s}) /\ Len(q) = Len(p) /\ DOMAIN q = 1 .. Len(p)
      BY <3>5, <3>7
    <3>9. ASSUME NEW x \in 1 .. Len(p), NEW y \in 1 .. Len(p), q[x] = q[y] PROVE x = y
      <4>1. labels[p[x]] = labels[p[y]] /\ p[x] \in DOMAIN labels /\ p[y] \in DOMAIN labels
        BY <1>1, <3>5, <3>6, <3>9
      <4>2. p[x] = p[y]
        BY <1>1, <4>1 DEF IsInjective
      <4> QED
        BY <3>4, <3>5, <4>2 DEF IsInjective
    <3>10. IsInjective(q)
      BY <3>8, <3>9 DEF IsInjective
    <3> QED
      BY <3>2, <3>3, <3>4, <3>8, <3>10 DEF IsList
  <2> QED
    BY <2>1, <2>2
<1>7. made = [s \in DOMAIN d |-> made[s]]
  BY <1>3
<1> QED
  BY <1>2, <1>6, <1>7 DEF GoodLayer, levels, labels, ids, bound, made

----------------------------------------------------------------------------
(* A search of a layer stays among its nodes: C holds the entries and the     *)
(* lists.                                                                   *)

Inside(st, C) == st.cand \subseteq C /\ st.res \subseteq C

LEMMA VisitInside ==
    ASSUME NEW k \in Nat, NEW d \in Distances(k), NEW ef, NEW C, NEW st \in Searches(k),
           Inside(st, C), NEW id \in C
    PROVE  Inside(Visit(d, ef, st, id), C)
<1>1. CASE id \notin 0 .. k - 1 \/ st.sc.marks[id] = st.sc.mark
  BY <1>1, VisitIs
<1>2. CASE ~ (id \notin 0 .. k - 1 \/ st.sc.marks[id] = st.sc.mark)
  <2> DEFINE r == [sc |-> Marked(st.sc, id), cand |-> Candidates(d, ef, st, id),
                   res |-> Results(d, ef, st, id)]
  <2>1. Visit(d, ef, st, id) = r
    BY <1>2, VisitIs
  <2>2. Candidates(d, ef, st, id) \subseteq C
    BY DEF Candidates, Inside
  <2>3. Results(d, ef, st, id) \subseteq C
    BY DEF Results, Inside
  <2>4. r.cand = Candidates(d, ef, st, id) /\ r.res = Results(d, ef, st, id)
    OBVIOUS
  <2> HIDE DEF r
  <2> QED
    BY <2>1, <2>2, <2>3, <2>4 DEF Inside
<1> QED
  BY <1>1, <1>2

LEMMA VisitAllInside ==
    ASSUME NEW k \in Nat, NEW d \in Distances(k), NEW ef, NEW C \in SUBSET (0 .. k - 1),
           NEW st \in Searches(k), Inside(st, C), NEW ids \in Seq(C)
    PROVE  Inside(VisitAll(d, ef, st, ids), C)
<1> DEFINE m == Len(ids)
           A == Visiting(d, ef, st, ids)
           T == {i \in 0 .. m : Inside(A[i], C)}
<1>0. m \in Nat /\ \A i \in 1 .. m : ids[i] \in C
  OBVIOUS
<1>1. /\ A \in [0 .. m -> Searches(k)] /\ A[0] = st
      /\ \A i \in 1 .. m : A[i] = Visit(d, ef, A[i - 1], ids[i])
  <2> DEFINE U == 0 .. k - 1
  <2>0. C \subseteq U
    OBVIOUS
  <2>00. ids \in Seq(U)
    <3> HIDE DEF U
    <3> QED
      BY <2>0, SeqWidens
  <2>1. Run(A, m, Searches(k), st)
    BY <2>00, VisitingIs
  <2>3. \A i \in 1 .. m : A[i] = Visit(d, ef, A[i - 1], ids[i])
    BY <2>00, VisitingIs
  <2> HIDE DEF A, m
  <2> QED
    BY <2>1, <2>3 DEF Run
<1> HIDE DEF A, m
<1>3. 0 \in T
  BY <1>0, <1>1
<1>4. ASSUME NEW i \in 0 .. m - 1, i \in T PROVE i + 1 \in T
  <2>1. i + 1 \in 1 .. m /\ (i + 1) - 1 = i /\ i \in 0 .. m
    BY <1>0
  <2>2. A[i] \in Searches(k) /\ Inside(A[i], C)
    BY <1>1, <1>4, <2>1
  <2>3. A[i + 1] = Visit(d, ef, A[i], ids[i + 1])
    BY <1>1, <2>1
  <2>4. Inside(A[i + 1], C)
    BY <1>0, <2>1, <2>2, <2>3, VisitInside
  <2> QED
    BY <2>1, <2>4
<1> HIDE DEF T
<1>5. 0 .. m \subseteq T
  BY <1>0, <1>3, <1>4, Induct
<1>6. Inside(A[m], C)
  BY <1>0, <1>5 DEF T
<1> QED
  BY <1>6 DEF A, m, VisitAll

\* Lists of the nodes of C, for each of k nodes.
ListsIn(k, C) == [0 .. k - 1 -> Seq(C)]

LEMMA ListsWiden ==
    ASSUME NEW k \in Nat, NEW C \in SUBSET (0 .. k - 1), NEW adjacency \in ListsIn(k, C)
    PROVE  adjacency \in Lists(k)
<1> DEFINE U == 0 .. k - 1
<1>1. \A q \in Seq(C) : q \in Seq(U)
  <2>1. C \subseteq U
    OBVIOUS
  <2> HIDE DEF U
  <2> QED
    BY <2>1, SeqWidens
<1> QED
  BY <1>1 DEF ListsIn, Lists

LEMMA HopInside ==
    ASSUME NEW k \in Nat, NEW d \in Distances(k), NEW ef, NEW C \in SUBSET (0 .. k - 1),
           NEW adjacency \in ListsIn(k, C), NEW st \in Searches(k), Inside(st, C)
    PROVE  Inside(Hop(adjacency, d, ef, st), C)
<1>1. CASE st.cand = {}
  BY <1>1, HopIs
<1>2. CASE st.cand # {} /\ Over(d, st)
  <2>1. Hop(adjacency, d, ef, st) = [st EXCEPT !.cand = {}]
    BY <1>2, HopIs
  <2>2. [st EXCEPT !.cand = {}].cand = {} /\ [st EXCEPT !.cand = {}].res = st.res
    BY DEF Searches
  <2> QED
    BY <2>1, <2>2 DEF Inside
<1>3. CASE st.cand # {} /\ ~ Over(d, st)
  <2>1. Hop(adjacency, d, ef, st) = VisitAll(d, ef, Taken(d, st), adjacency[Best(d, st.cand)])
    BY <1>3, HopIs
  <2>2. Taken(d, st) \in Searches(k) /\ Best(d, st.cand) \in 0 .. k - 1
    BY <1>3, ListsWiden, TakenType
  <2>3. Inside(Taken(d, st), C)
    BY DEF Taken, Inside, Searches
  <2>4. adjacency[Best(d, st.cand)] \in Seq(C)
    BY <2>2 DEF ListsIn
  <2> QED
    BY <2>1, <2>2, <2>3, <2>4, VisitAllInside
<1> QED
  BY <1>1, <1>2, <1>3

LEMMA SearchingInside ==
    ASSUME NEW k \in Nat, NEW d \in Distances(k), NEW ef, NEW C \in SUBSET (0 .. k - 1),
           NEW adjacency \in ListsIn(k, C), NEW begin \in Searches(k), Inside(begin, C)
    PROVE  /\ Searching(adjacency, d, ef, begin)[Count(d)] \in Searches(k)
           /\ Inside(Searching(adjacency, d, ef, begin)[Count(d)], C)
<1> DEFINE m == Count(d)
           A == Searching(adjacency, d, ef, begin)
           T == {i \in 0 .. m : Inside(A[i], C)}
<1>0. m \in Nat
  BY CountOf
<1>1. /\ A \in [0 .. m -> Searches(k)] /\ A[0] = begin
      /\ \A i \in 1 .. m : A[i] = Hop(adjacency, d, ef, A[i - 1])
  <2>1. Run(A, m, Searches(k), begin)
    BY ListsWiden, SearchingIs
  <2>3. \A i \in 1 .. m : A[i] = Hop(adjacency, d, ef, A[i - 1])
    BY ListsWiden, SearchingIs
  <2> HIDE DEF A, m
  <2> QED
    BY <2>1, <2>3 DEF Run
<1> HIDE DEF A, m
<1>3. 0 \in T
  BY <1>0, <1>1
<1>4. ASSUME NEW i \in 0 .. m - 1, i \in T PROVE i + 1 \in T
  <2>1. i + 1 \in 1 .. m /\ (i + 1) - 1 = i /\ i \in 0 .. m
    BY <1>0
  <2>2. A[i] \in Searches(k) /\ Inside(A[i], C)
    BY <1>1, <1>4, <2>1
  <2>3. A[i + 1] = Hop(adjacency, d, ef, A[i])
    BY <1>1, <2>1
  <2>4. Inside(A[i + 1], C)
    BY <2>2, <2>3, HopInside
  <2> QED
    BY <2>1, <2>4
<1> HIDE DEF T
<1>5. 0 .. m \subseteq T
  BY <1>0, <1>3, <1>4, Induct
<1>6. Inside(A[m], C) /\ A[m] \in Searches(k)
  BY <1>0, <1>1, <1>5 DEF T
<1> QED
  BY <1>6 DEF A, m

LEMMA SearchLayerInside ==
    ASSUME NEW k \in Nat, NEW d \in Distances(k), NEW ef \in Nat, NEW C \in SUBSET (0 .. k - 1),
           NEW adjacency \in ListsIn(k, C), NEW entries \in Seq(C), NEW sc, IsScratch(sc, k)
    PROVE  /\ IsScratch(SearchLayer(adjacency, d, entries, ef, sc), k)
           /\ SearchLayer(adjacency, d, entries, ef, sc).found \in Seq(C)
<1> DEFINE blank == [sc |-> Reset(sc), cand |-> {}, res |-> {}]
           begin == VisitAll(d, ef, blank, entries)
           end == Searching(adjacency, d, ef, begin)[Count(d)]
           q == Nearest(d, end.res, ef)
           U == 0 .. k - 1
<1>0. entries \in Seq(U)
  <2>1. C \subseteq U
    OBVIOUS
  <2> HIDE DEF U
  <2> QED
    BY <2>1, SeqWidens
<1>1. Reset(sc) \in Scratches(k)
  BY ResetIs
<1>2. blank \in Searches(k) /\ Inside(blank, C)
  BY <1>1 DEF Searches, Inside
<1> HIDE DEF blank
<1>3. begin \in Searches(k) /\ Inside(begin, C)
  BY <1>0, <1>2, VisitAllType, VisitAllInside
<1> HIDE DEF begin
<1>4. end \in Searches(k) /\ Inside(end, C)
  BY <1>3, SearchingInside
<1>5. SearchLayer(adjacency, d, entries, ef, sc) = [end.sc EXCEPT !.found = q]
  BY Zenon DEF SearchLayer, begin, blank
<1> HIDE DEF end
<1>6. end.sc \in Scratches(k) /\ end.res \in SUBSET C
  BY <1>4 DEF Searches, Inside
<1>7. q \in Seq(C)
  <2> DEFINE S == end.res
  <2>1. S \in SUBSET (0 .. k - 1) /\ S \subseteq C
    BY <1>6
  <2>2. IsFiniteSet(S) /\ S \in SUBSET Int /\ \A a \in S : d[a] \in Int
    <3> HIDE DEF S
    <3> QED
      BY <2>1, NodesFinite DEF Distances
  <2>3. q \in Seq(S)
    BY <2>2, NearestType
  <2> HIDE DEF S, q
  <2> QED
    BY <2>1, <2>3, SeqWidens
<1> HIDE DEF q
<1>8. IsScratch(end.sc, k)
  BY <1>6, ScratchIs
<1>9. /\ IsScratch([end.sc EXCEPT !.found = q], k)
      /\ [end.sc EXCEPT !.found = q].found = q
  BY <1>8, FoundOnly
<1> QED
  BY <1>5, <1>7, <1>9

----------------------------------------------------------------------------
(* The incremental builder keeps every layer good.                           *)

LEMMA KeepStandardType ==
    ASSUME NEW dist, NEW s, NEW maxDegree, NEW S, NEW kept \in Seq(S), NEW next \in S
    PROVE  KeepStandard(dist, s, kept, next, maxDegree) \in Seq(S)
<1>1. Append(kept, next) \in Seq(S)
  OBVIOUS
<1>2. KeepStandard(dist, s, kept, next, maxDegree) \in {kept, Append(kept, next)}
  BY DEF KeepStandard
<1> QED
  BY <1>1, <1>2

(* What is selected after each candidate.                                   *)
LEMMA SelectingIs ==
    ASSUME NEW dist, NEW s, NEW maxDegree, NEW S, NEW sorted \in Seq(S)
    PROVE  /\ Run(Selecting(dist, s, sorted, maxDegree), Len(sorted), Seq(S), <<>>)
           /\ \A i \in 1 .. Len(sorted) :
                 Selecting(dist, s, sorted, maxDegree)[i]
                    = KeepStandard(dist, s, Selecting(dist, s, sorted, maxDegree)[i - 1], sorted[i], maxDegree)
<1> DEFINE m == Len(sorted)
           F == [i \in 1 .. m |-> [x \in Seq(S) |-> KeepStandard(dist, s, x, sorted[i], maxDegree)]]
           M == Selecting(dist, s, sorted, maxDegree)
<1>0. m \in Nat /\ \A i \in 1 .. m : sorted[i] \in S
  OBVIOUS
<1>1. F \in [1 .. m -> [Seq(S) -> Seq(S)]]
  BY <1>0, KeepStandardType
<1>2. \A i \in 1 .. m : \A x \in Seq(S) : F[i][x] = KeepStandard(dist, s, x, sorted[i], maxDegree)
  OBVIOUS
<1>10. <<>> \in Seq(S)
  OBVIOUS
<1> HIDE DEF F, m
<1>3. PICK f : Solution(m, Seq(S), <<>>, F, f)
  BY <1>0, <1>1, <1>10, Recursion
<1>4. f = [i \in 0 .. m |-> IF i = 0 THEN <<>> ELSE KeepStandard(dist, s, f[i - 1], sorted[i], maxDegree)]
  <2>1. f \in [0 .. m -> Seq(S)] /\ f[0] = <<>> /\ \A i \in 1 .. m : f[i] = F[i][f[i - 1]]
    BY <1>3 DEF Solution
  <2>2. ASSUME NEW i \in 0 .. m
        PROVE  f[i] = IF i = 0 THEN <<>> ELSE KeepStandard(dist, s, f[i - 1], sorted[i], maxDegree)
    <3>1. CASE i = 0
      BY <2>1, <3>1
    <3>2. CASE i # 0
      <4>1. i \in 1 .. m /\ f[i - 1] \in Seq(S)
        BY <1>0, <2>1, <3>2
      <4> QED
        BY <1>2, <2>1, <3>2, <4>1
    <3> QED
      BY <3>1, <3>2
  <2> QED
    BY <2>1, <2>2
<1>5. M = [i \in 0 .. m |-> IF i = 0 THEN <<>> ELSE KeepStandard(dist, s, M[i - 1], sorted[i], maxDegree)]
  BY <1>4, Zenon DEF Selecting, m
<1> HIDE DEF M
<1>6. \A i \in 0 .. m : M[i] = IF i = 0 THEN <<>> ELSE KeepStandard(dist, s, M[i - 1], sorted[i], maxDegree)
  BY <1>5
<1>7. \A i \in 1 .. m : M[i] = KeepStandard(dist, s, M[i - 1], sorted[i], maxDegree)
  BY <1>0, <1>6
<1>8. M[0] = <<>> /\ DOMAIN M = 0 .. m /\ M = [i \in 0 .. m |-> M[i]]
  BY <1>0, <1>5, <1>6
<1>9. 0 .. m \subseteq {i \in 0 .. m : M[i] \in Seq(S)}
  <2> DEFINE T == {i \in 0 .. m : M[i] \in Seq(S)}
  <2>1. 0 \in T
    <3>1. M[0] \in Seq(S)
      BY <1>8, <1>10
    <3> QED
      BY <1>0, <3>1
  <2>2. ASSUME NEW i \in 0 .. m - 1, i \in T PROVE i + 1 \in T
    <3>1. i + 1 \in 1 .. m /\ (i + 1) - 1 = i
      BY <1>0
    <3>2. M[i + 1] = KeepStandard(dist, s, M[i], sorted[i + 1], maxDegree)
      BY <1>7, <3>1
    <3>3. M[i + 1] \in Seq(S)
      BY <1>0, <2>2, <3>1, <3>2, KeepStandardType
    <3> QED
      BY <3>1, <3>3
  <2> HIDE DEF T
  <2> QED
    BY <1>0, <2>1, <2>2, Induct DEF T
<1> QED
  BY <1>7, <1>8, <1>9 DEF M, m, Run

LEMMA SelectList ==
    ASSUME NEW k \in Nat, NEW dist \in Tables(k), NEW s \in 0 .. k - 1,
           NEW C \in SUBSET (0 .. k - 1), NEW candidates \in Seq(C), NEW bound \in Nat
    PROVE  IsList(SelectStandard(dist, s, candidates, bound), C, s, bound)
<1> DEFINE sorted == Normalized(dist, s, candidates)
           U == C \ {s}
           M == Selecting(dist, s, sorted, bound)
<1>1. sorted \in Seq(U) /\ IsInjective(sorted)
  BY NormalizedList
<1>2. SelectStandard(dist, s, candidates, bound) = M[Len(sorted)]
  BY DEF SelectStandard
<1> HIDE DEF sorted, U
<1>3. /\ Run(M, Len(sorted), Seq(U), <<>>)
      /\ \A i \in 1 .. Len(sorted) : M[i] = KeepStandard(dist, s, M[i - 1], sorted[i], bound)
  BY <1>1, SelectingIs
<1> HIDE DEF M
<1>4. ASSUME NEW i \in 1 .. Len(sorted)
      PROVE  \/ M[i] = M[i - 1]
             \/ Len(M[i - 1]) < bound /\ M[i] = Append(M[i - 1], sorted[i])
  <2>1. M[i] = KeepStandard(dist, s, M[i - 1], sorted[i], bound)
    BY <1>3
  <2>2. Len(M[i - 1]) \in Nat
    <3>1. i - 1 \in 0 .. Len(sorted)
      BY <1>1
    <3> QED
      BY <1>3, <3>1 DEF Run
  <2>3. CASE Len(M[i - 1]) >= bound
    BY <2>1, <2>3 DEF KeepStandard
  <2>4. CASE Len(M[i - 1]) < bound
    BY <2>1, <2>4 DEF KeepStandard
  <2> QED
    BY <2>2, <2>3, <2>4
<1>5. M[Len(sorted)] \in Seq(U) /\ IsInjective(M[Len(sorted)]) /\ Len(M[Len(sorted)]) <= bound
  BY <1>1, <1>3, <1>4, GrownList
<1> QED
  BY <1>2, <1>5 DEF IsList, U

(* The other side of an edge.                                               *)
LEMMA LinkedList ==
    ASSUME NEW k \in Nat, NEW dist \in Tables(k), NEW u \in 0 .. k - 1,
           NEW C \in SUBSET (0 .. k - 1), NEW s \in C, s # u, NEW bound \in Nat, NEW list,
           IsList(list, C, u, bound)
    PROVE  IsList(Linked(dist, list, u, s, bound), C, u, bound)
<1> DEFINE longer == IF s \in ToSet(list) THEN list ELSE Append(list, s)
           U == C \ {u}
<1>1. list \in Seq(U) /\ IsInjective(list) /\ s \in U
  BY DEF IsList
<1>2. longer \in Seq(U) /\ IsInjective(longer)
  <2>1. CASE s \in ToSet(list)
    BY <1>1, <2>1
  <2>2. CASE s \notin ToSet(list)
    <3>1. \A x \in 1 .. Len(list) : list[x] # s
      BY <1>1, <2>2 DEF ToSet
    <3> HIDE DEF U
    <3>2. Append(list, s) \in Seq(U) /\ IsInjective(Append(list, s))
      BY <1>1, <3>1, OneMore
    <3> QED
      BY <2>2, <3>2
  <2> QED
    BY <2>1, <2>2
<1>3. Linked(dist, list, u, s, bound)
         = IF Len(longer) > bound THEN SelectStandard(dist, u, longer, bound) ELSE longer
  BY DEF Linked
<1>4. U \subseteq C
  OBVIOUS
<1> HIDE DEF longer, U
<1>5. longer \in Seq(C) /\ Len(longer) \in Nat
  <2>1. longer \in Seq(C)
    BY <1>2, <1>4, SeqWidens
  <2> QED
    BY <2>1
<1>6. CASE Len(longer) > bound
  <2>1. IsList(SelectStandard(dist, u, longer, bound), C, u, bound)
    BY <1>5, SelectList
  <2> QED
    BY <1>3, <1>6, <2>1
<1>7. CASE ~ (Len(longer) > bound)
  <2>1. Len(longer) <= bound
    BY <1>5, <1>7
  <2> QED
    BY <1>2, <1>3, <1>7, <2>1 DEF IsList, U
<1> QED
  BY <1>6, <1>7

LEMMA LinkedType ==
    ASSUME NEW k \in Nat, NEW dist \in Tables(k), NEW u \in 0 .. k - 1, NEW s \in 0 .. k - 1,
           NEW bound \in Nat, NEW list \in Seq(0 .. k - 1)
    PROVE  Linked(dist, list, u, s, bound) \in Seq(0 .. k - 1)
<1> DEFINE longer == IF s \in ToSet(list) THEN list ELSE Append(list, s)
           C == 0 .. k - 1
           U == C \ {u}
           q == SelectStandard(dist, u, longer, bound)
<1>1. longer \in Seq(C)
  <2>1. Append(list, s) \in Seq(C) /\ list \in Seq(C)
    OBVIOUS
  <2> HIDE DEF C
  <2> QED
    BY <2>1
<1>2. Linked(dist, list, u, s, bound) \in {q, longer}
  BY DEF Linked
<1> HIDE DEF longer
<1>3. IsList(q, C, u, bound)
  BY <1>1, SelectList
<1>4. U \subseteq C
  OBVIOUS
<1>5. q \in Seq(U)
  BY <1>3 DEF IsList
<1> HIDE DEF C, U, q
<1>6. q \in Seq(C)
  BY <1>4, <1>5, SeqWidens
<1> QED
  BY <1>1, <1>2, <1>6 DEF C

LEMMA ConnectType ==
    ASSUME NEW k \in Nat, NEW dist \in Tables(k), NEW adjacency \in Lists(k), NEW s \in 0 .. k - 1,
           NEW selected \in Seq(0 .. k - 1), NEW bound \in Nat
    PROVE  ConnectStandard(dist, adjacency, s, selected, bound) \in Lists(k)
<1>1. DOMAIN adjacency = 0 .. k - 1 /\ \A u \in 0 .. k - 1 : adjacency[u] \in Seq(0 .. k - 1)
  BY DEF Lists
<1>2. \A u \in 0 .. k - 1 : Linked(dist, adjacency[u], u, s, bound) \in Seq(0 .. k - 1)
  BY <1>1, LinkedType
<1> QED
  BY <1>1, <1>2 DEF ConnectStandard, Lists

(* A node of the layer is given its neighbours, and they get it back.         *)
LEMMA ConnectGood ==
    ASSUME NEW c \in ConfigType, NEW k \in Nat, NEW d \in Tables(k), NEW l \in Nat,
           Levels(c, d) \in [0 .. k - 1 -> Nat], NEW adjacency \in Lists(k),
           GoodLayer(c, d, l, adjacency), NEW s \in LayerIds(Levels(c, d), l), NEW selected,
           IsList(selected, LayerIds(Levels(c, d), l), s, LayerMaxDegree(c.M, l))
    PROVE  GoodLayer(c, d, l, ConnectStandard(d, adjacency, s, selected, LayerMaxDegree(c.M, l)))
<1> DEFINE levels == Levels(c, d)
           ids == LayerIds(levels, l)
           bound == LayerMaxDegree(c.M, l)
           made == ConnectStandard(d, adjacency, s, selected, bound)
<1>1. ids \in SUBSET (0 .. k - 1) /\ bound \in Nat /\ DOMAIN d = 0 .. k - 1
      /\ levels \in [0 .. k - 1 -> Nat]
  BY LayoutType, DegreeType DEF Tables
<1>2. \A id \in 0 .. k - 1 : id \in ids <=> levels[id] >= l
  BY <1>1 DEF LayerIds
<1>3. \A u \in 0 .. k - 1 : /\ IsList(adjacency[u], ids, u, bound)
                            /\ levels[u] < l => adjacency[u] = <<>>
  BY <1>1 DEF GoodLayer
<1>4. s \in ids /\ IsList(selected, ids, s, bound) /\ DOMAIN adjacency = 0 .. k - 1
  BY DEF Lists
<1>5. made = [u \in DOMAIN adjacency |->
                IF u = s THEN selected
                ELSE IF u \in ToSet(selected) THEN Linked(d, adjacency[u], u, s, bound)
                ELSE adjacency[u]]
  BY DEF ConnectStandard
<1> HIDE DEF levels, ids, bound, made
<1>6. \A u \in ids : ~ (levels[u] < l) /\ u \in 0 .. k - 1
  BY <1>1, <1>2
<1>7. ASSUME NEW u \in 0 .. k - 1
      PROVE  IsList(made[u], ids, u, bound) /\ (levels[u] < l => made[u] = <<>>)
  <2>1. CASE u = s
    BY <1>4, <1>5, <1>6, <2>1
  <2>2. CASE u # s /\ u \in ToSet(selected)
    <3>1. u \in ids
      <4>1. selected \in Seq(ids \ {s})
        BY <1>4 DEF IsList
      <4>2. ToSet(selected) \in SUBSET (ids \ {s})
        BY <4>1, ToSetType
      <4> QED
        BY <2>2, <4>2
    <3>2. IsList(Linked(d, adjacency[u], u, s, bound), ids, u, bound)
      BY <1>1, <1>3, <1>4, <2>2, LinkedList
    <3>3. made[u] = Linked(d, adjacency[u], u, s, bound)
      BY <1>4, <1>5, <2>2
    <3> QED
      BY <1>6, <3>1, <3>2, <3>3
  <2>3. CASE u # s /\ u \notin ToSet(selected)
    <3>1. made[u] = adjacency[u]
      BY <1>4, <1>5, <2>3
    <3> QED
      BY <1>3, <3>1
  <2> QED
    BY <2>1, <2>2, <2>3
<1>8. made = [u \in DOMAIN d |-> made[u]]
  BY <1>1, <1>4, <1>5
<1> QED
  BY <1>1, <1>7, <1>8 DEF GoodLayer, levels, ids, bound, made

LEMMA GoodListsIn ==
    ASSUME NEW c, NEW k \in Nat, NEW d \in Tables(k), NEW l, NEW adjacency \in Lists(k),
           GoodLayer(c, d, l, adjacency)
    PROVE  adjacency \in ListsIn(k, LayerIds(Levels(c, d), l))
<1> DEFINE C == LayerIds(Levels(c, d), l)
<1>1. DOMAIN d = 0 .. k - 1
  BY DEF Tables
<1>2. ASSUME NEW s \in 0 .. k - 1 PROVE adjacency[s] \in Seq(C)
  <2> DEFINE U == C \ {s}
             q == adjacency[s]
  <2>1. q \in Seq(U)
    BY <1>1 DEF GoodLayer, IsList
  <2>2. U \subseteq C
    OBVIOUS
  <2> HIDE DEF U, q, C
  <2>3. q \in Seq(C)
    BY <2>1, <2>2, SeqWidens
  <2> QED
    BY <2>3 DEF q
<1> HIDE DEF C
<1>3. adjacency \in [0 .. k - 1 -> Seq(C)]
  BY <1>2 DEF Lists
<1> QED
  BY <1>3 DEF ListsIn, C

\* A node on its way down the layers 0 .. top.
Ways(k, top) ==
    [sc : Scratches(k), entries : Seq(0 .. k - 1), layers : [0 .. top -> Lists(k)]]

\* It is to go through layer l next.
GoodWay(c, d, l, top, at) ==
    /\ at.entries \in Seq(LayerIds(Levels(c, d), l))
    /\ \A i \in 0 .. top : GoodLayer(c, d, i, at.layers[i])

\* The width of the search that finds the neighbours.
Width(c) == IF c.ConstructionL < c.M THEN c.M ELSE c.ConstructionL

LEMMA PassedIs ==
    ASSUME NEW c, NEW d, NEW id, NEW at, NEW l
    PROVE  LET high == l > Levels(c, d)[id]
               sc == SearchLayer(at.layers[l], d[id], at.entries, IF high THEN 1 ELSE Width(c), at.sc)
               degree == LayerMaxDegree(c.M, l)
           IN  Passed(c, d, id, at, l)
                 = [sc |-> sc, entries |-> NextEntries(at, sc),
                    layers |-> IF high THEN at.layers
                               ELSE WithLayer(at.layers, l,
                                              ConnectStandard(d, at.layers[l], id,
                                                 SelectStandard(d, id, sc.found, degree), degree))]
<1>1. CASE l > Levels(c, d)[id]
  BY <1>1, Zenon DEF Passed, Descended
<1>2. CASE ~ (l > Levels(c, d)[id])
  BY <1>2, Zenon DEF Passed, Connected, Width
<1> QED
  BY <1>1, <1>2

LEMMA WithLayerType ==
    ASSUME NEW top, NEW S, NEW ls \in [0 .. top -> S], NEW l \in 0 .. top, NEW x \in S
    PROVE  WithLayer(ls, l, x) \in [0 .. top -> S]
<1>1. DOMAIN ls \cup {l} = 0 .. top
  OBVIOUS
<1> QED
  BY <1>1 DEF WithLayer

LEMMA PassedType ==
    ASSUME NEW c \in ConfigType, NEW k \in Nat, NEW d \in Tables(k), NEW id \in 0 .. k - 1,
           NEW top \in Nat, NEW at \in Ways(k, top), NEW l \in 0 .. top
    PROVE  Passed(c, d, id, at, l) \in Ways(k, top)
<1> DEFINE high == l > Levels(c, d)[id]
           ef == IF high THEN 1 ELSE Width(c)
           sc == SearchLayer(at.layers[l], d[id], at.entries, ef, at.sc)
           degree == LayerMaxDegree(c.M, l)
           selected == SelectStandard(d, id, sc.found, degree)
           linked == ConnectStandard(d, at.layers[l], id, selected, degree)
           new == [sc |-> sc, entries |-> NextEntries(at, sc),
                   layers |-> IF high THEN at.layers ELSE WithLayer(at.layers, l, linked)]
<1>1. Passed(c, d, id, at, l) = new
  BY PassedIs, Zenon
<1>2. /\ at.sc \in Scratches(k) /\ at.entries \in Seq(0 .. k - 1)
      /\ at.layers \in [0 .. top -> Lists(k)] /\ at.layers[l] \in Lists(k)
  BY DEF Ways
<1>3. ef \in Nat /\ degree \in Nat
  BY DegreeType DEF Width, ConfigType, Positive
<1>4. d[id] \in Distances(k) /\ IsScratch(at.sc, k)
  BY <1>2, RowType, ScratchIs
<1> HIDE DEF high, ef, degree
<1>5. sc \in Scratches(k)
  BY <1>2, <1>3, <1>4, SearchLayerAlike
<1> HIDE DEF sc
<1>6. sc.found \in Seq(0 .. k - 1)
  BY <1>5 DEF Scratches, ScratchType
<1>7. NextEntries(at, sc) \in Seq(0 .. k - 1)
  BY <1>2, <1>6 DEF NextEntries
<1>8. selected \in Seq(0 .. k - 1)
  <2> DEFINE C == 0 .. k - 1
             U == C \ {id}
  <2>1. IsList(selected, C, id, degree)
    BY <1>3, <1>6, SelectList
  <2>2. selected \in Seq(U) /\ U \subseteq C
    BY <2>1 DEF IsList
  <2> HIDE DEF selected, C, U
  <2>3. selected \in Seq(C)
    BY <2>2, SeqWidens
  <2> QED
    BY <2>3 DEF C
<1> HIDE DEF selected
<1>9. linked \in Lists(k)
  BY <1>2, <1>3, <1>8, ConnectType
<1> HIDE DEF linked
<1>10. WithLayer(at.layers, l, linked) \in [0 .. top -> Lists(k)]
  BY <1>2, <1>9, WithLayerType
<1>11. new \in Ways(k, top)
  BY <1>2, <1>5, <1>7, <1>10 DEF Ways
<1> QED
  BY <1>1, <1>11

LEMMA PassedGood ==
    ASSUME NEW c \in ConfigType, NEW k \in Nat, NEW d \in Tables(k), NEW id \in 0 .. k - 1,
           Levels(c, d) \in [0 .. k - 1 -> Nat],
           NEW top \in Nat, NEW at \in Ways(k, top), NEW l \in 0 .. top, GoodWay(c, d, l, top, at)
    PROVE  GoodWay(c, d, l - 1, top, Passed(c, d, id, at, l))
<1> DEFINE levels == Levels(c, d)
           C == LayerIds(levels, l)
           high == l > levels[id]
           ef == IF high THEN 1 ELSE Width(c)
           sc == SearchLayer(at.layers[l], d[id], at.entries, ef, at.sc)
           degree == LayerMaxDegree(c.M, l)
           selected == SelectStandard(d, id, sc.found, degree)
           linked == ConnectStandard(d, at.layers[l], id, selected, degree)
           wider == WithLayer(at.layers, l, linked)
           new == [sc |-> sc, entries |-> NextEntries(at, sc),
                   layers |-> IF high THEN at.layers ELSE wider]
<1>1. Passed(c, d, id, at, l) = new
  BY PassedIs, Zenon
<1>2. /\ at.sc \in Scratches(k) /\ at.layers \in [0 .. top -> Lists(k)] /\ at.layers[l] \in Lists(k)
      /\ at.entries \in Seq(C) /\ \A i \in 0 .. top : GoodLayer(c, d, i, at.layers[i])
  BY DEF Ways, GoodWay
<1>3. ef \in Nat /\ degree \in Nat /\ l \in Nat
  <2>1. Width(c) \in Nat
    BY DEF Width, ConfigType, Positive
  <2>2. ef \in Nat
    BY <2>1
  <2>3. degree \in Nat
    BY DegreeType
  <2> QED
    BY <2>2, <2>3
<1>4. d[id] \in Distances(k) /\ IsScratch(at.sc, k)
  BY <1>2, RowType, ScratchIs
<1>5. C \in SUBSET (0 .. k - 1) /\ levels \in [0 .. k - 1 -> Nat]
  BY LayoutType
<1>6. at.layers[l] \in ListsIn(k, C)
  BY <1>2, GoodListsIn
<1>7. ~ high => id \in C
  BY <1>5 DEF LayerIds
<1>8. C \subseteq LayerIds(levels, l - 1)
  BY <1>5 DEF LayerIds
<1> HIDE DEF C, high, ef
<1>9. sc.found \in Seq(C)
  BY <1>2, <1>3, <1>4, <1>5, <1>6, SearchLayerInside
<1> HIDE DEF sc
<1>10. NextEntries(at, sc) \in Seq(LayerIds(levels, l - 1))
  <2>1. NextEntries(at, sc) \in Seq(C)
    BY <1>2, <1>9 DEF NextEntries
  <2> DEFINE q == NextEntries(at, sc)
             U == LayerIds(levels, l - 1)
  <2>2. C \subseteq U
    BY <1>8
  <2> HIDE DEF q, U
  <2>3. q \in Seq(U)
    BY <2>1, <2>2, SeqWidens DEF q
  <2> QED
    BY <2>3 DEF q, U
<1>11. ASSUME ~ high, NEW i \in 0 .. top
       PROVE  GoodLayer(c, d, i, wider[i])
  <2>1. IsList(selected, C, id, degree)
    BY <1>3, <1>5, <1>9, SelectList
  <2>2. linked \in Lists(k)
    <3> DEFINE q == selected
               U == 0 .. k - 1
               V == C \ {id}
    <3>1. q \in Seq(V) /\ V \subseteq U
      BY <1>5, <2>1 DEF IsList
    <3> HIDE DEF q, U, V
    <3>2. q \in Seq(U)
      BY <3>1, SeqWidens
    <3> QED
      BY <1>2, <1>3, <3>2, ConnectType DEF q, U
  <2>3. GoodLayer(c, d, l, linked)
    <3>1. id \in C
      BY <1>7, <1>11
    <3> HIDE DEF selected
    <3> QED
      BY <1>2, <1>3, <1>5, <2>1, <3>1, ConnectGood DEF C
  <2> HIDE DEF linked
  <2>4. wider[l] = linked /\ (i # l => wider[i] = at.layers[i])
    <3> DEFINE S == Lists(k)
               ls == at.layers
    <3>1. ls \in [0 .. top -> S] /\ linked \in S
      BY <1>2, <2>2
    <3> HIDE DEF S, ls
    <3>2. /\ WithLayer(ls, l, linked)[l] = linked
          /\ \A x \in 0 .. top : x # l => WithLayer(ls, l, linked)[x] = ls[x]
      BY <3>1 DEF WithLayer
    <3> QED
      BY <3>2 DEF ls
  <2> HIDE DEF wider
  <2> QED
    BY <1>2, <2>3, <2>4
<1> HIDE DEF wider
<1>12. new.entries = NextEntries(at, sc) /\ new.layers = (IF high THEN at.layers ELSE wider)
  OBVIOUS
<1> HIDE DEF new
<1>13. \A i \in 0 .. top : GoodLayer(c, d, i, new.layers[i])
  BY <1>2, <1>11, <1>12
<1>14. GoodWay(c, d, l - 1, top, new)
  BY <1>10, <1>12, <1>13 DEF GoodWay
<1> QED
  BY <1>1, <1>14

(* The way of a node after each layer.                                       *)
LEMMA InsertingIs ==
    ASSUME NEW c \in ConfigType, NEW k \in Nat, NEW d \in Tables(k), NEW id \in 0 .. k - 1,
           NEW top \in Nat, NEW from \in 0 .. top, NEW begin \in Ways(k, top)
    PROVE  /\ Run(Inserting(c, d, id, from, begin), from + 1, Ways(k, top), begin)
           /\ \A i \in 1 .. from + 1 :
                 Inserting(c, d, id, from, begin)[i]
                    = Passed(c, d, id, Inserting(c, d, id, from, begin)[i - 1], from + 1 - i)
<1> DEFINE m == from + 1
           S == Ways(k, top)
           F == [i \in 1 .. m |-> [x \in S |-> Passed(c, d, id, x, from + 1 - i)]]
           M == Inserting(c, d, id, from, begin)
<1>0. m \in Nat /\ \A i \in 1 .. m : from + 1 - i \in 0 .. top
  OBVIOUS
<1>1. F \in [1 .. m -> [S -> S]]
  <2>1. \A i \in 1 .. m : \A x \in S : Passed(c, d, id, x, from + 1 - i) \in S
    BY <1>0, PassedType
  <2> HIDE DEF S
  <2> QED
    BY <2>1
<1>2. \A i \in 1 .. m : \A x \in S : F[i][x] = Passed(c, d, id, x, from + 1 - i)
  OBVIOUS
<1>10. begin \in S
  OBVIOUS
<1> HIDE DEF F, m, S
<1>3. PICK f : Solution(m, S, begin, F, f)
  BY <1>0, <1>1, <1>10, Recursion
<1>4. f = [i \in 0 .. m |-> IF i = 0 THEN begin ELSE Passed(c, d, id, f[i - 1], from + 1 - i)]
  <2>1. f \in [0 .. m -> S] /\ f[0] = begin /\ \A i \in 1 .. m : f[i] = F[i][f[i - 1]]
    BY <1>3 DEF Solution
  <2>2. ASSUME NEW i \in 0 .. m
        PROVE  f[i] = IF i = 0 THEN begin ELSE Passed(c, d, id, f[i - 1], from + 1 - i)
    <3>1. CASE i = 0
      BY <2>1, <3>1
    <3>2. CASE i # 0
      <4>1. i \in 1 .. m /\ f[i - 1] \in S
        BY <1>0, <2>1, <3>2
      <4> QED
        BY <1>2, <2>1, <3>2, <4>1
    <3> QED
      BY <3>1, <3>2
  <2> QED
    BY <2>1, <2>2
<1>5. M = [i \in 0 .. m |-> IF i = 0 THEN begin ELSE Passed(c, d, id, M[i - 1], from + 1 - i)]
  BY <1>4, Zenon DEF Inserting, m
<1> HIDE DEF M
<1>6. \A i \in 0 .. m : M[i] = IF i = 0 THEN begin ELSE Passed(c, d, id, M[i - 1], from + 1 - i)
  BY <1>5
<1>7. \A i \in 1 .. m : M[i] = Passed(c, d, id, M[i - 1], from + 1 - i)
  BY <1>0, <1>6
<1>8. M[0] = begin /\ DOMAIN M = 0 .. m /\ M = [i \in 0 .. m |-> M[i]]
  BY <1>0, <1>5, <1>6
<1>9. 0 .. m \subseteq {i \in 0 .. m : M[i] \in S}
  <2> DEFINE T == {i \in 0 .. m : M[i] \in S}
  <2>1. 0 \in T
    BY <1>0, <1>8, <1>10
  <2>2. ASSUME NEW i \in 0 .. m - 1, i \in T PROVE i + 1 \in T
    <3>1. i + 1 \in 1 .. m /\ (i + 1) - 1 = i
      BY <1>0
    <3>2. M[i + 1] = Passed(c, d, id, M[i], from + 1 - (i + 1))
      BY <1>7, <3>1
    <3>3. M[i + 1] \in S
      BY <1>0, <2>2, <3>1, <3>2, PassedType DEF S
    <3> QED
      BY <3>1, <3>3
  <2> HIDE DEF T
  <2> QED
    BY <1>0, <2>1, <2>2, Induct DEF T
<1> QED
  BY <1>7, <1>8, <1>9 DEF M, m, S, Run

(* Inserting a node keeps the layers good.                                   *)
LEMMA InsertedGood ==
    ASSUME NEW c \in ConfigType, NEW k \in Nat, NEW d \in Tables(k), NEW id \in 1 .. k - 1,
           Levels(c, d) \in [0 .. k - 1 -> Nat], NEW top, top = MaxAssignedLayer(Levels(c, d)),
           NEW sofar \in [0 .. top -> Lists(k)], \A i \in 0 .. top : GoodLayer(c, d, i, sofar[i]),
           NEW own \in Scratches(k)
    PROVE  LET after == Inserted(c, d, id, sofar, own)
           IN  /\ after.layers \in [0 .. top -> Lists(k)] /\ after.sc \in Scratches(k)
               /\ \A i \in 0 .. top : GoodLayer(c, d, i, after.layers[i])
<1> DEFINE levels == Levels(c, d)
           from == TopOf(levels, id)
           entry == EntryOf(levels, id)
           begin == [sc |-> own, entries |-> <<entry>>, layers |-> sofar]
           M == Inserting(c, d, id, from, begin)
           T == {i \in 0 .. from + 1 : GoodWay(c, d, from - i, top, M[i])}
<1>1. /\ top \in Nat /\ from \in 0 .. top /\ entry \in 0 .. k - 1 /\ levels[entry] = from
      /\ id \in 0 .. k - 1
  <2>1. id \in 1 .. k /\ k \in Nat \ {0}
    OBVIOUS
  <2>2. /\ from \in 0 .. top /\ entry \in 0 .. id - 1 /\ levels[entry] = from
    BY <2>1, EntryOfIs
  <2>3. top \in Nat
    BY <2>1, MaxLayerType
  <2> HIDE DEF from, entry, levels
  <2> QED
    BY <2>1, <2>2, <2>3
<1>2. Inserted(c, d, id, sofar, own) = M[from + 1]
  BY Zenon DEF Inserted
<1>3. levels \in [0 .. k - 1 -> Nat]
  OBVIOUS
<1> HIDE DEF from, entry, levels
<1>4. begin \in Ways(k, top)
  BY <1>1 DEF Ways
<1>5. GoodWay(c, d, from, top, begin)
  <2>1. entry \in LayerIds(levels, from)
    BY <1>1, <1>3 DEF LayerIds
  <2>2. <<entry>> \in Seq(LayerIds(levels, from))
    BY <2>1
  <2>3. begin.entries = <<entry>> /\ begin.layers = sofar
    OBVIOUS
  <2> HIDE DEF begin
  <2> QED
    BY <2>2, <2>3 DEF GoodWay, levels
<1> HIDE DEF begin
<1>6. /\ M \in [0 .. from + 1 -> Ways(k, top)] /\ M[0] = begin
      /\ \A i \in 1 .. from + 1 : M[i] = Passed(c, d, id, M[i - 1], from + 1 - i)
  <2>1. Run(M, from + 1, Ways(k, top), begin)
    BY <1>1, <1>4, InsertingIs
  <2>2. \A i \in 1 .. from + 1 : M[i] = Passed(c, d, id, M[i - 1], from + 1 - i)
    BY <1>1, <1>4, InsertingIs
  <2> HIDE DEF M
  <2> QED
    BY <2>1, <2>2 DEF Run
<1> HIDE DEF M
<1>7. 0 \in T
  BY <1>1, <1>5, <1>6
<1>8. ASSUME NEW i \in 0 .. (from + 1) - 1, i \in T PROVE i + 1 \in T
  <2>1. /\ i + 1 \in 1 .. from + 1 /\ (i + 1) - 1 = i /\ i \in 0 .. from + 1
        /\ from - i \in 0 .. top /\ from + 1 - (i + 1) = from - i
        /\ from - (i + 1) = (from - i) - 1
    BY <1>1
  <2>2. M[i] \in Ways(k, top) /\ GoodWay(c, d, from - i, top, M[i])
    BY <1>6, <1>8, <2>1
  <2>3. M[i + 1] = Passed(c, d, id, M[i], from - i)
    BY <1>6, <2>1
  <2>4. GoodWay(c, d, (from - i) - 1, top, M[i + 1])
    BY <1>1, <2>1, <2>2, <2>3, PassedGood
  <2> QED
    BY <2>1, <2>4
<1> HIDE DEF T
<1>9. 0 .. from + 1 \subseteq T /\ from + 1 \in 0 .. from + 1
  <2> DEFINE m == from + 1
  <2>1. m \in Nat
    BY <1>1
  <2>2. \A i \in 0 .. m - 1 : i \in T => i + 1 \in T
    BY <1>8
  <2> HIDE DEF m
  <2>3. 0 .. m \subseteq T
    BY <1>7, <2>1, <2>2, Induct
  <2>4. m \in 0 .. m
    BY <2>1
  <2> QED
    BY <2>3, <2>4 DEF m
<1>10. M[from + 1] \in Ways(k, top) /\ \A i \in 0 .. top : GoodLayer(c, d, i, M[from + 1].layers[i])
  BY <1>6, <1>9 DEF T, GoodWay
<1> QED
  BY <1>2, <1>10 DEF Ways

----------------------------------------------------------------------------
(* The layers that are complete are good, in either builder.                 *)

Top(c, d) == MaxAssignedLayer(Levels(c, d))

\* The layers from l to the top are there.
GoodFrom(c, d, ls, l) ==
    DOMAIN ls = l .. Top(c, d) /\ \A i \in l .. Top(c, d) : GoodLayer(c, d, i, ls[i])

\* An index whose layers are all good, entered by a node.
Whole(ix) ==
    /\ ix.entryPoint \in 0 .. Count(ix.dist) - 1 /\ ix.maxLayer = Top(ix.cfg, ix.dist)
    /\ GoodFrom(ix.cfg, ix.dist, ix.layers, 0)

Sound(ix) == Whole(ix) /\ SaveAccepts(ix) /\ LoadAccepts(ix)

LayersInv ==
    /\ stage = "layer" => layer \in -1 .. Top(cfg, idx.dist) /\ GoodFrom(cfg, idx.dist, layers, layer + 1)
    /\ stage \in Forked =>
          /\ layer \in 0 .. Top(cfg, idx.dist) /\ GoodFrom(cfg, idx.dist, layers, layer + 1)
          /\ local = LayerVectors(Layout(Levels(cfg, idx.dist), layer), idx.dist)
    /\ stage = "standard" =>
          /\ round \in 1 .. Count(idx.dist) /\ GoodFrom(cfg, idx.dist, layers, 0)
          /\ layers \in [0 .. Top(cfg, idx.dist) -> Lists(Count(idx.dist))]
          /\ scratch[0] \in Scratches(Count(idx.dist))
    /\ idx.graphReady => Sound(idx)
    /\ file.kind = "whole" => Sound(file.ix)

(* Good layers and an entry point of the top one are what Save and Load ask. *)
LEMMA GoodIsSound ==
    ASSUME NEW c \in ConfigType, NEW k \in Nat \ {0}, NEW d \in Tables(k),
           Levels(c, d) \in [0 .. k - 1 -> Nat], NEW ls, GoodFrom(c, d, ls, 0),
           NEW e \in 0 .. k - 1, Levels(c, d)[e] = Top(c, d), NEW ix, c.Dim > 0,
           ix.cfg = c, ix.dist = d, ix.levels = Levels(c, d), ix.layers = ls,
           ix.entryPoint = e, ix.maxLayer = Top(c, d), ix.graphReady
    PROVE  Sound(ix)
<1> DEFINE levels == Levels(c, d)
           top == Top(c, d)
<1>1. /\ top \in Nat /\ levels \in [0 .. k - 1 -> Nat] /\ DOMAIN d = 0 .. k - 1 /\ levels[e] = top
      /\ top = MaxAssignedLayer(levels)
  BY MaxLayerType DEF Tables, Top
<1>2. DOMAIN ls = 0 .. top /\ \A l \in 0 .. top : GoodLayer(c, d, l, ls[l])
  BY DEF GoodFrom
<1>3. ix.levels = levels /\ ix.maxLayer = top
  OBVIOUS
<1> HIDE DEF levels, top
<1>4. ASSUME NEW l \in 0 .. top, NEW s \in 0 .. k - 1
      PROVE  IF levels[s] < l THEN ls[l][s] = <<>>
             ELSE /\ Len(ls[l][s]) <= LayerMaxDegree(c.M, l)
                  /\ IsInjective(ls[l][s])
                  /\ \A u \in ToSet(ls[l][s]) : u \in 0 .. k - 1 /\ u # s /\ levels[u] >= l
  <2> DEFINE q == ls[l][s]
             C == LayerIds(levels, l)
  <2>1. IsList(q, C, s, LayerMaxDegree(c.M, l)) /\ (levels[s] < l => q = <<>>)
    BY <1>1, <1>2 DEF GoodLayer, levels
  <2>2. ToSet(q) \in SUBSET (C \ {s})
    <3>1. q \in Seq(C \ {s})
      BY <2>1 DEF IsList
    <3> QED
      BY <3>1, ToSetType
  <2>3. \A u \in C : u \in 0 .. k - 1 /\ levels[u] >= l
    BY <1>1 DEF LayerIds
  <2> HIDE DEF q, C
  <2>4. Len(q) <= LayerMaxDegree(c.M, l) /\ IsInjective(q)
    BY <2>1 DEF IsList
  <2>5. \A u \in ToSet(q) : u \in 0 .. k - 1 /\ u # s /\ levels[u] >= l
    BY <2>2, <2>3
  <2> QED
    BY <2>1, <2>4, <2>5 DEF q
<1>5. \A l \in 0 .. top : DOMAIN ls[l] = 0 .. k - 1
  BY <1>1, <1>2 DEF GoodLayer
<1>6. ValidAdjacency(ix)
  <2>1. DOMAIN ix.layers = 0 .. ix.maxLayer /\ ix.levels[ix.entryPoint] >= ix.maxLayer
    BY <1>1, <1>2, <1>3
  <2>2. \A l \in DOMAIN ix.layers :
          LET adjacency == ix.layers[l]
          IN  /\ DOMAIN adjacency = DOMAIN ix.dist
              /\ \A s \in DOMAIN adjacency :
                    IF ix.levels[s] < l THEN adjacency[s] = <<>>
                    ELSE /\ Len(adjacency[s]) <= LayerMaxDegree(ix.cfg.M, l)
                         /\ IsInjective(adjacency[s])
                         /\ \A u \in ToSet(adjacency[s]) :
                               u \in DOMAIN ix.dist /\ u # s /\ ix.levels[u] >= l
    BY <1>1, <1>2, <1>3, <1>4, <1>5
  <2> QED
    BY <2>1, <2>2 DEF ValidAdjacency
<1>7. ix.dist # << >> /\ DOMAIN ix.levels = DOMAIN ix.dist
  <2>1. 0 \in DOMAIN d
    BY <1>1
  <2> QED
    BY <1>1, <1>3, <2>1
<1>8. SaveAccepts(ix)
  BY <1>1, <1>3, <1>6, <1>7 DEF SaveAccepts
<1>9. LoadAccepts(ix)
  <2>1. ReadConfig(c)
    BY DEF ReadConfig, ConfigType, Positive
  <2> QED
    BY <1>1, <1>3, <1>6, <2>1 DEF LoadAccepts
<1>10. Whole(ix)
  <2>1. Cardinality(0 .. k - 1) = k
    <3>1. k \in Nat /\ 0 \in Int /\ k - 1 \in Int
      OBVIOUS
    <3>2. Cardinality(0 .. k - 1) = IF 0 > k - 1 THEN 0 ELSE (k - 1) - 0 + 1
      BY <3>1, FS_Interval
    <3> QED
      BY <3>1, <3>2
  <2>2. Count(ix.dist) = k
    BY <1>1, <2>1 DEF Count
  <2> QED
    BY <2>2 DEF Whole
<1> QED
  BY <1>8, <1>9, <1>10 DEF Sound

LEMMA LayerAdded ==
    ASSUME NEW c, NEW d, NEW ls, NEW l \in Int, l <= Top(c, d), Top(c, d) \in Int,
           GoodFrom(c, d, ls, l + 1), NEW adjacency, GoodLayer(c, d, l, adjacency)
    PROVE  GoodFrom(c, d, WithLayer(ls, l, adjacency), l)
<1> DEFINE new == WithLayer(ls, l, adjacency)
<1>1. (l + 1 .. Top(c, d)) \cup {l} = l .. Top(c, d)
  OBVIOUS
<1>2. DOMAIN new = l .. Top(c, d)
  BY <1>1 DEF GoodFrom, WithLayer
<1>3. ASSUME NEW i \in l .. Top(c, d) PROVE GoodLayer(c, d, i, new[i])
  <2>1. CASE i = l
    <3>1. new[i] = adjacency
      BY <2>1 DEF WithLayer
    <3> QED
      BY <2>1, <3>1
  <2>2. CASE i # l
    <3>1. i \in l + 1 .. Top(c, d)
      BY <2>2
    <3>2. new[i] = ls[i]
      BY <2>2, <3>1 DEF WithLayer, GoodFrom
    <3> QED
      BY <3>1, <3>2 DEF GoodFrom
  <2> QED
    BY <2>1, <2>2
<1> QED
  BY <1>2, <1>3 DEF GoodFrom

(* What the invariants say of the index under construction.                  *)
LEMMA Underway ==
    ASSUME StageInv, stage # "idle"
    PROVE  /\ cfg \in ConfigType /\ Count(idx.dist) \in Nat \ {0} /\ cfg.Dim > 0
           /\ idx.dist \in Tables(Count(idx.dist))
           /\ Levels(cfg, idx.dist) \in [0 .. Count(idx.dist) - 1 -> Nat]
           /\ Top(cfg, idx.dist) \in Nat
<1>1. /\ cfg \in ConfigType /\ Count(idx.dist) \in Nat \ {0} /\ cfg.Dim > 0
      /\ idx.dist \in Tables(Count(idx.dist))
      /\ Levels(cfg, idx.dist) \in [0 .. Count(idx.dist) - 1 -> Nat]
  BY DEF StageInv, IsIndex, cfg
<1> QED
  BY <1>1, MaxLayerType DEF Top

LEMMA InitLayers == Init => LayersInv
<1> SUFFICES ASSUME Init PROVE LayersInv
  OBVIOUS
<1>1. stage = "idle" /\ file.kind = "none" /\ ~ idx.graphReady
  BY DEF Init, NoFile, NewIndex
<1> QED
  BY <1>1 DEF LayersInv, Forked

LEMMA BuildLayers ==
    ASSUME StageInv, LayersInv, NEW v \in DataSets, Begins(v)
    PROVE  LayersInv'
<1> DEFINE k == Count(v.dist)
           d == v.dist
<1>1. PICK ix : /\ IsIndex(ix) /\ Accepted(ix.cfg, v) /\ idx' = Taking(ix, v)
                /\ (Build(v) /\ ix.cfg = cfg) \/ BuildStandard(ix.cfg, v)
                /\ stage = "idle" /\ file' = file
  BY BuildBegins
<1>2. /\ idx' = Emptied(ix.cfg, v)
      /\ Levels(ix.cfg, v.dist) = Levels(cfg', v.dist) /\ k \in Nat \ {0}
      /\ Levels(ix.cfg, v.dist) \in [0 .. k - 1 -> Nat] /\ IsIndex(idx)'
  BY <1>1, NewVectors
<1>3. idx'.dist = d /\ idx'.graphReady = FALSE
  BY <1>2 DEF Emptied
<1>4. Levels(cfg', d) \in [0 .. k - 1 -> Nat] /\ cfg' \in ConfigType /\ d \in Tables(k)
  BY <1>2, <1>3 DEF IsIndex, cfg
<1>5. Top(cfg', d) \in Nat /\ Top(cfg', d) = MaxAssignedLayer(Levels(ix.cfg, d))
  BY <1>2, <1>4, MaxLayerType DEF Top
<1>6. file'.kind = "whole" => Sound(file'.ix)
  BY <1>1 DEF LayersInv
<1> HIDE DEF k, d
<1>7. CASE Build(v) /\ ix.cfg = cfg
  <2>1. stage' = "layer" /\ layer' = Top(cfg', d) /\ layers' = << >>
    BY <1>1, <1>5, <1>7 DEF Build, StageInv, d
  <2>2. DOMAIN << >> = {} /\ Top(cfg', d) + 1 .. Top(cfg', d) = {}
    BY <1>5
  <2>3. GoodFrom(cfg', d, layers', layer' + 1)
    BY <2>1, <2>2 DEF GoodFrom
  <2>4. layer' \in -1 .. Top(cfg', d) /\ stage' \notin Forked /\ stage' # "standard"
    BY <1>5, <2>1 DEF Forked
  <2> QED
    BY <1>3, <1>6, <2>3, <2>4 DEF LayersInv
<1>8. CASE BuildStandard(ix.cfg, v)
  <2> DEFINE none == [id \in DOMAIN d |-> <<>>]
  <2>1. /\ stage' = "standard" /\ round' = 1
        /\ layers' = [l \in 0 .. Top(cfg', d) |-> none]
        /\ scratch' = OneScratch(NewScratch(k))
    BY <1>5, <1>8 DEF BuildStandard, d, k
  <2>2. none \in Lists(k)
    BY <1>4 DEF Tables, Lists
  <2>3. \A l : GoodLayer(cfg', d, l, none)
    <3> TAKE l
    <3>1. LayerMaxDegree(cfg'.M, l) \in Nat
      BY <1>4, DegreeType
    <3>2. none = [s \in DOMAIN d |-> none[s]] /\ \A s \in DOMAIN d : none[s] = <<>>
      OBVIOUS
    <3> HIDE DEF none
    <3> QED
      BY <3>1, <3>2, NoList DEF GoodLayer
  <2> HIDE DEF none
  <2>4. layers' \in [0 .. Top(cfg', d) -> Lists(k)] /\ GoodFrom(cfg', d, layers', 0)
    BY <2>1, <2>2, <2>3 DEF GoodFrom
  <2>5. scratch'[0] \in Scratches(k)
    <3>1. scratch'[0] = NewScratch(k)
      BY <2>1 DEF OneScratch
    <3>2. NewScratch(k) \in ScratchType(k)
      BY <1>2 DEF NewScratch, ScratchType
    <3>3. MarksPast(NewScratch(k), k)
      BY <1>2, NewIsScratch DEF IsScratch
    <3> QED
      BY <3>1, <3>2, <3>3 DEF Scratches
  <2>6. stage' \notin Forked /\ stage' # "layer" /\ round' \in 1 .. k
    BY <1>2, <2>1 DEF Forked
  <2> QED
    BY <1>3, <1>6, <2>4, <2>5, <2>6 DEF LayersInv, k, d
<1> QED
  BY <1>1, <1>7, <1>8

LEMMA StartLayerLayers ==
    ASSUME StageInv, LayersInv, StartLayer
    PROVE  LayersInv'
<1> DEFINE k == Count(idx.dist)
           d == idx.dist
           labels == Layout(Levels(cfg, d), layer)
           v == LayerVectors(labels, d)
           name == IF cfg.K0 >= Count(v) - 1 THEN "exact" ELSE "init"
<1>1. stage = "layer" /\ layer >= 0 /\ idx' = idx /\ file' = file /\ cfg' = cfg
  BY DEF StartLayer, cfg
<1>2. /\ cfg \in ConfigType /\ k \in Nat /\ d \in Tables(k) /\ Levels(cfg, d) \in [0 .. k - 1 -> Nat]
      /\ Top(cfg, d) \in Nat
  BY <1>1, Underway
<1>3. layer \in 0 .. Top(cfg, d) /\ layer \in Nat /\ GoodFrom(cfg, d, layers, layer + 1)
  BY <1>1, <1>2 DEF LayersInv
<1>4. \/ /\ Count(v) - 1 <= LayerMaxDegree(cfg.M, layer)
         /\ layers' = WithLayer(layers, layer, CompleteLayer(labels, d))
         /\ layer' = layer - 1
         /\ stage' = stage
      \/ /\ local' = v
         /\ stage' = name
         /\ UNCHANGED <<layer, layers>>
  BY DEF StartLayer, Fork
<1>5. (idx'.graphReady => Sound(idx')) /\ (file'.kind = "whole" => Sound(file'.ix))
  BY <1>1 DEF LayersInv
<1> HIDE DEF k, name
<1>6. CASE /\ Count(v) - 1 <= LayerMaxDegree(cfg.M, layer)
           /\ layers' = WithLayer(layers, layer, CompleteLayer(labels, d))
           /\ layer' = layer - 1
           /\ stage' = stage
  <2>1. GoodLayer(cfg, d, layer, CompleteLayer(labels, d))
    BY <1>2, <1>3, <1>6, CompleteLayerGood
  <2>2. GoodFrom(cfg, d, layers', layer)
    BY <1>2, <1>3, <1>6, <2>1, LayerAdded
  <2>3. layer' \in -1 .. Top(cfg, d) /\ layer' + 1 = layer
    BY <1>2, <1>3, <1>6
  <2>4. stage' = "layer" /\ stage' \notin Forked
    BY <1>1, <1>6 DEF Forked
  <2> QED
    BY <1>1, <1>5, <2>2, <2>3, <2>4 DEF LayersInv
<1>7. CASE /\ local' = v
           /\ stage' = name
           /\ UNCHANGED <<layer, layers>>
  <2>1. stage' \notin {"layer", "standard"}
    BY <1>7 DEF name
  <2>2. local' = LayerVectors(Layout(Levels(cfg', idx'.dist), layer'), idx'.dist)
    BY <1>1, <1>7
  <2>3. layer' \in 0 .. Top(cfg', idx'.dist) /\ GoodFrom(cfg', idx'.dist, layers', layer' + 1)
    BY <1>1, <1>3, <1>7
  <2> QED
    BY <1>5, <2>1, <2>2, <2>3 DEF LayersInv
<1> QED
  BY <1>4, <1>6, <1>7

(* From one fork-join to the next the layers stay as they are.               *)
LEMMA JoinLayers ==
    ASSUME LayersInv, stage \in Forked, stage' \in Forked,
           UNCHANGED <<idx, file, layer, layers, local>>
    PROVE  LayersInv'
<1>1. /\ idx' = idx /\ file' = file /\ cfg' = cfg /\ layer' = layer /\ layers' = layers
      /\ local' = local
  BY DEF cfg
<1>2. stage' \notin {"layer", "standard"}
  BY DEF Forked
<1>3. /\ layer' \in 0 .. Top(cfg', idx'.dist) /\ GoodFrom(cfg', idx'.dist, layers', layer' + 1)
      /\ local' = LayerVectors(Layout(Levels(cfg', idx'.dist), layer'), idx'.dist)
  BY <1>1 DEF LayersInv
<1>4. (idx'.graphReady => Sound(idx')) /\ (file'.kind = "whole" => Sound(file'.ix))
  BY <1>1 DEF LayersInv
<1> QED
  BY <1>2, <1>3, <1>4 DEF LayersInv

(* The lists of the last pruning are good.                                   *)
LEMMA FinalLists ==
    ASSUME DrawsAreNumbers, StageInv, Joined("rng back")
    PROVE  \A i \in 0 .. n - 1 : IsList(output[i], 0 .. n - 1, i, LayerMaxDegree(cfg.M, layer))
<1>1. /\ stage = "rng back" /\ ForkInv /\ \A w \in DOMAIN left : left[w] = {}
  BY Waited DEF Forked, Joined
<1>2. /\ IsJob(job) /\ job.stage = "rng back" /\ job.local = local /\ job.input = input
      /\ job.cfg = cfg /\ job.layer = layer /\ Size(job) = n /\ n \in Nat /\ Todo = n
  BY <1>1, TodoFacts DEF ForkInv, job, Size, n, Todo
<1>3. output = [s \in 0 .. n - 1 |-> Expected(job, s)]
  BY <1>1, <1>2, JoinedOutput
<1>4. ASSUME NEW i \in 0 .. n - 1
      PROVE  IsList(Expected(job, i), 0 .. n - 1, i, LayerMaxDegree(cfg.M, layer))
  <2> DEFINE new == NewScratch(n)
             q == Prune("rng", local, i, input[i], LayerMaxDegree(cfg.M, layer))
  <2>1. Computed(job, i, new) = [new EXCEPT !.found = Alone(job, i)]
    <3> HIDE DEF new
    <3>1. job.stage \in Forked
      BY <1>2 DEF Forked
    <3>2. job.stage \notin {"init", "exchange", "acquire", "refresh"}
      BY <1>2
    <3>3. \A j : j.stage \in Forked /\ j.stage \notin {"init", "exchange", "acquire", "refresh"}
                  => Computed(j, i, new) = [new EXCEPT !.found = Alone(j, i)]
      BY ComputedIs
    <3> QED
      BY <3>1, <3>2, <3>3
  <2>2. [new EXCEPT !.found = Alone(job, i)].found = Alone(job, i)
    BY <1>2, NewIsScratch, FoundOnly
  <2>3. Alone(job, i) = q
    BY <1>2 DEF Alone
  <2>4. Expected(job, i) = q
    <3>1. Expected(job, i) = Written(job, i, Computed(job, i, new).found)
      BY <1>2 DEF Expected
    <3>2. \A x : Written(job, i, x) = x
      BY <1>2 DEF Written
    <3> QED
      BY <2>1, <2>2, <2>3, <3>1, <3>2
  <2>5. /\ local \in Tables(n) /\ input[i] \in Seq(0 .. n - 1) /\ cfg \in ConfigType
    BY <1>2 DEF IsJob, Forked, Lists
  <2>6. LayerMaxDegree(cfg.M, layer) \in Nat
    BY <2>5, DegreeType
  <2>7. 0 .. n - 1 \in SUBSET (0 .. n - 1)
    OBVIOUS
  <2> QED
    BY <1>2, <2>4, <2>5, <2>6, <2>7, PruneList
<1> QED
  BY <1>3, <1>4

LEMMA JoinFinalLayers ==
    ASSUME DrawsAreNumbers, StageInv, LayersInv, JoinFinal
    PROVE  LayersInv'
<1> DEFINE k == Count(idx.dist)
           d == idx.dist
           labels == Layout(Levels(cfg, d), layer)
           made == ToGlobal(output, labels, d)
<1>1. /\ Joined("rng back") /\ stage' = "layer" /\ layer' = layer - 1
      /\ layers' = WithLayer(layers, layer, made)
      /\ idx' = idx /\ file' = file /\ cfg' = cfg
  BY DEF JoinFinal, cfg
<1>2. stage = "rng back" /\ stage \in Forked /\ stage # "idle"
  BY <1>1 DEF Joined, Forked
<1>3. /\ cfg \in ConfigType /\ k \in Nat /\ d \in Tables(k) /\ Levels(cfg, d) \in [0 .. k - 1 -> Nat]
      /\ Top(cfg, d) \in Nat
  BY <1>2, Underway
<1>4. /\ layer \in 0 .. Top(cfg, d) /\ layer \in Nat /\ GoodFrom(cfg, d, layers, layer + 1)
      /\ local = LayerVectors(labels, d)
  <2>1. /\ layer \in 0 .. Top(cfg, d) /\ GoodFrom(cfg, d, layers, layer + 1)
        /\ local = LayerVectors(labels, d)
    BY <1>2, Zenon DEF LayersInv
  <2> HIDE DEF d, labels
  <2>2. layer \in Nat
    BY <1>3, <2>1
  <2> QED
    BY <2>1, <2>2
<1>5. (idx'.graphReady => Sound(idx')) /\ (file'.kind = "whole" => Sound(file'.ix))
  BY <1>1 DEF LayersInv
<1> DEFINE m == Cardinality(LayerIds(Levels(cfg, d), layer))
<1>6. n = m
  <2>1. m \in Nat /\ DOMAIN labels = 0 .. m - 1
    BY <1>3, LayoutType
  <2>2. DOMAIN local = 0 .. m - 1
    BY <1>4, <2>1 DEF LayerVectors
  <2>3. Cardinality(0 .. m - 1) = m
    BY <2>1, FS_Interval
  <2> QED
    BY <2>2, <2>3 DEF n, Count
<1>7. \A i \in 0 .. m - 1 : IsList(output[i], 0 .. m - 1, i, LayerMaxDegree(cfg.M, layer))
  BY <1>1, <1>6, FinalLists
<1>8. GoodLayer(cfg, d, layer, made)
  BY <1>3, <1>4, <1>7, ToGlobalGood
<1> HIDE DEF made, m, labels, d, k
<1>9. GoodFrom(cfg, d, layers', layer)
  <2>1. layer \in Int /\ layer <= Top(cfg, d) /\ Top(cfg, d) \in Int
    BY <1>3, <1>4
  <2>2. GoodFrom(cfg, d, WithLayer(layers, layer, made), layer)
    BY <1>4, <1>8, <2>1, LayerAdded
  <2> QED
    BY <1>1, <2>2, Zenon
<1>10. layer' \in -1 .. Top(cfg, d) /\ layer' + 1 = layer
  <2>1. layer' = layer - 1
    BY <1>1, Zenon
  <2> QED
    BY <1>3, <1>4, <2>1
<1>11. stage' = "layer"
  BY <1>1, Zenon
<1>12. stage' \notin Forked /\ stage' # "standard"
  BY <1>11 DEF Forked
<1>13. cfg' = cfg /\ idx'.dist = d
  BY <1>1, Zenon DEF d
<1>14. layer' \in -1 .. Top(cfg', idx'.dist) /\ GoodFrom(cfg', idx'.dist, layers', layer' + 1)
  BY <1>9, <1>10, <1>13
<1> QED
  BY <1>5, <1>11, <1>12, <1>14 DEF LayersInv

LEMMA InsertStandardLayers ==
    ASSUME StageInv, LayersInv, InsertStandard
    PROVE  LayersInv'
<1> DEFINE k == Count(idx.dist)
           d == idx.dist
           top == Top(cfg, d)
           after == Inserted(cfg, d, round, layers, scratch[0])
<1>1. /\ stage = "standard" /\ round < k /\ layers' = after.layers
      /\ scratch' = OneScratch(after.sc) /\ round' = round + 1 /\ stage' = stage
      /\ idx' = idx /\ file' = file /\ cfg' = cfg
  BY DEF InsertStandard, cfg
<1>2. /\ cfg \in ConfigType /\ k \in Nat /\ d \in Tables(k) /\ Levels(cfg, d) \in [0 .. k - 1 -> Nat]
  BY <1>1, Underway
<1>3. /\ round \in 1 .. k /\ layers \in [0 .. top -> Lists(k)] /\ scratch[0] \in Scratches(k)
      /\ \A i \in 0 .. top : GoodLayer(cfg, d, i, layers[i])
  BY <1>1 DEF LayersInv, GoodFrom
<1>4. round \in 1 .. k - 1 /\ round' \in 1 .. k
  BY <1>1, <1>2, <1>3
<1>5. (idx'.graphReady => Sound(idx')) /\ (file'.kind = "whole" => Sound(file'.ix))
  BY <1>1 DEF LayersInv
<1>6. top = MaxAssignedLayer(Levels(cfg, d))
  BY DEF Top
<1> HIDE DEF k, top
<1>7. /\ after.layers \in [0 .. top -> Lists(k)] /\ after.sc \in Scratches(k)
      /\ \A i \in 0 .. top : GoodLayer(cfg, d, i, after.layers[i])
  BY <1>2, <1>3, <1>4, <1>6, InsertedGood
<1> HIDE DEF after
<1>8. GoodFrom(cfg, d, layers', 0) /\ layers' \in [0 .. top -> Lists(k)]
  BY <1>1, <1>7 DEF GoodFrom, top
<1>9. scratch'[0] \in Scratches(k)
  BY <1>1, <1>7 DEF OneScratch
<1>10. stage' = "standard" /\ stage' \notin Forked
  BY <1>1 DEF Forked
<1> QED
  BY <1>1, <1>4, <1>5, <1>8, <1>9, <1>10 DEF LayersInv, k, top

LEMMA PublishLayers ==
    ASSUME DrawsAreNumbers, StageInv, LayersInv, Publish \/ PublishStandard
    PROVE  LayersInv'
<1> DEFINE k == Count(idx.dist)
           d == idx.dist
           levels == Levels(cfg, d)
<1>1. stage \in {"layer", "standard"} /\ stage' = "idle" /\ file' = file
  BY PublishStage
<1>2. /\ cfg \in ConfigType /\ k \in Nat \ {0} /\ d \in Tables(k) /\ levels \in [0 .. k - 1 -> Nat]
      /\ Top(cfg, d) \in Nat /\ cfg.Dim > 0
  BY <1>1, Underway
<1>3. PICK by, e, top : /\ idx' = Published(by, e, top) /\ GoodFrom(cfg, d, layers, 0)
                        /\ e \in 0 .. k - 1 /\ levels[e] = Top(cfg, d) /\ top = Top(cfg, d)
  <2>1. CASE Publish
    <3>1. /\ stage = "layer" /\ layer = -1
          /\ idx' = Published("fast", EntryPoint(levels, cfg.Seed), MaxAssignedLayer(levels))
      BY <2>1 DEF Publish
    <3>2. GoodFrom(cfg, d, layers, 0)
      <4>1. layer + 1 = 0
        BY <3>1
      <4> QED
        BY <3>1, <4>1 DEF LayersInv
    <3>3. cfg.Seed \in Nat
      BY <1>2 DEF ConfigType, Positive
    <3>4. EntryPoint(levels, cfg.Seed) \in 0 .. k - 1
            /\ levels[EntryPoint(levels, cfg.Seed)] = MaxAssignedLayer(levels)
      BY <1>2, <3>3, EntryPointIs
    <3> QED
      BY <3>1, <3>2, <3>4 DEF Top
  <2>2. CASE PublishStandard
    <3>1. /\ stage = "standard" /\ round = k
          /\ idx' = Published("standard", EntryOf(levels, round), TopOf(levels, round))
      BY <2>2 DEF PublishStandard
    <3>2. GoodFrom(cfg, d, layers, 0)
      BY <3>1 DEF LayersInv
    <3>3. k \in 1 .. k
      BY <1>2
    <3>4. /\ EntryOf(levels, k) \in 0 .. k - 1 /\ levels[EntryOf(levels, k)] = TopOf(levels, k)
          /\ TopOf(levels, k) = MaxAssignedLayer(levels)
      BY <1>2, <3>3, EntryOfIs
    <3> QED
      BY <3>1, <3>2, <3>4 DEF Top
  <2> QED
    BY <2>1, <2>2
<1>4. /\ idx'.cfg = cfg /\ idx'.dist = d /\ idx'.levels = levels /\ idx'.layers = layers
      /\ idx'.entryPoint = e /\ idx'.maxLayer = top /\ idx'.graphReady
  BY <1>3 DEF Published
<1> HIDE DEF levels, d, k
<1>5. Sound(idx')
  BY <1>2, <1>3, <1>4, GoodIsSound DEF levels
<1>6. file'.kind = "whole" => Sound(file'.ix)
  BY <1>1 DEF LayersInv
<1> QED
  BY <1>1, <1>5, <1>6 DEF LayersInv, Forked

(* Save writes and Load takes an index that passes.                          *)
LEMMA FileLayers ==
    ASSUME StageInv, LayersInv, Save \/ Load
    PROVE  LayersInv'
<1>1. /\ stage' = "idle"
      /\ \/ idx' = idx /\ idx.graphReady
            /\ (file' = [kind |-> "whole", ix |-> idx] \/ file' = [kind |-> "torn"])
         \/ idx' = file.ix /\ file' = file /\ file.kind = "whole"
  BY FileStage
<1>2. (idx'.graphReady => Sound(idx')) /\ (file'.kind = "whole" => Sound(file'.ix))
  <2>1. CASE /\ idx' = idx /\ idx.graphReady
             /\ file' = [kind |-> "whole", ix |-> idx] \/ file' = [kind |-> "torn"]
    <3>1. file'.kind = "whole" => file'.ix = idx
      BY <2>1
    <3>2. Sound(idx)
      BY <2>1 DEF LayersInv
    <3> QED
      BY <2>1, <3>1, <3>2
  <2>2. CASE idx' = file.ix /\ file' = file /\ file.kind = "whole"
    <3>1. Sound(file.ix)
      BY <2>2 DEF LayersInv
    <3> QED
      BY <2>2, <3>1
  <2> QED
    BY <1>1, <2>1, <2>2
<1>3. stage' \notin Forked /\ stage' \notin {"layer", "standard"}
  BY <1>1 DEF Forked
<1> QED
  BY <1>2, <1>3 DEF LayersInv

LEMMA CallerLayers ==
    ASSUME DrawsAreNumbers, StageInv, LayersInv, Caller
    PROVE  LayersInv'
<1>1. ASSUME JoinKnng \/ JoinAcquire \/ JoinEstimate \/ JoinForward \/ JoinAlpha \/ JoinRefresh
      PROVE  LayersInv'
  <2>1. UNCHANGED <<idx, file, layer, layers, local>>
    BY <1>1 DEF JoinKnng, JoinAcquire, JoinEstimate, JoinForward, JoinAlpha, JoinRefresh
  <2>2. stage \in Forked /\ stage' \in Forked
    <3>1. CASE JoinKnng
      BY <3>1 DEF JoinKnng, Joined, Fork, Forked
    <3>2. CASE JoinAcquire
      BY <3>2 DEF JoinAcquire, Joined, Fork, Forked
    <3>3. CASE JoinEstimate
      BY <3>3 DEF JoinEstimate, Joined, Fork, Forked
    <3>4. CASE JoinForward
      BY <3>4 DEF JoinForward, Joined, Fork, Forked
    <3>5. CASE JoinAlpha
      BY <3>5 DEF JoinAlpha, Joined, Fork, Forked
    <3>6. CASE JoinRefresh
      BY <3>6 DEF JoinRefresh, Joined, Fork, Forked
    <3> QED
      BY <1>1, <3>1, <3>2, <3>3, <3>4, <3>5, <3>6
  <2> QED
    BY <2>1, <2>2, JoinLayers
<1>2. CASE StartLayer
  BY <1>2, StartLayerLayers
<1>3. CASE JoinFinal
  BY <1>3, JoinFinalLayers
<1>4. CASE InsertStandard
  BY <1>4, InsertStandardLayers
<1>5. CASE Publish \/ PublishStandard
  BY <1>5, PublishLayers
<1> QED
  BY <1>1, <1>2, <1>3, <1>4, <1>5 DEF Caller

LEMMA NextLayers ==
    ASSUME DrawsAreNumbers, StageInv, LayersInv, [Next]_vars
    PROVE  LayersInv'
<1>1. CASE \E v \in DataSets : Begins(v)
  BY <1>1, BuildLayers
<1>2. CASE Caller
  BY <1>2, CallerLayers
<1>3. CASE \E w \in DOMAIN left : Worker(w)
  <2>1. PICK w \in DOMAIN left : Worker(w)
    BY <1>3
  <2>2. stage \in Forked
    BY <2>1 DEF StageInv
  <2>3. UNCHANGED <<idx, file, stage, layer, layers, local>>
    BY <2>1 DEF Worker, Scan, Write
  <2> QED
    BY <2>2, <2>3, JoinLayers
<1>4. CASE Save \/ Load
  BY <1>4, FileLayers
<1>5. CASE UNCHANGED vars
  <2>1. UNCHANGED <<idx, file, stage, layer, layers, local, round, scratch>>
    BY <1>5 DEF vars, work
  <2>2. cfg' = cfg
    BY <2>1 DEF cfg
  <2> QED
    BY <2>1, <2>2 DEF LayersInv
<1> QED
  BY <1>1, <1>2, <1>3, <1>4, <1>5 DEF Next, Begins

(***************************************************************************)
(* Whatever either builder publishes, for any vectors, configuration and    *)
(* number of workers, Save writes and Load takes back: the layers are there  *)
(* from 0 to the highest level, a node has neighbours only in the layers up  *)
(* to its own level, a list is within the bound of its layer and names other *)
(* nodes of that layer, each once, and the entry point is at the top.       *)
(***************************************************************************)
THEOREM BuiltPersists == DrawsAreNumbers /\ Spec => []BuiltIndexPersists
<1> SUFFICES ASSUME DrawsAreNumbers PROVE Spec => []BuiltIndexPersists
  OBVIOUS
<1>1. Init => StageInv /\ LayersInv
  BY InitStage, InitLayers
<1>2. StageInv /\ LayersInv /\ [Next]_vars => StageInv' /\ LayersInv'
  BY NextStage, NextLayers
<1>3. StageInv /\ LayersInv => BuiltIndexPersists
  BY DEF LayersInv, Sound, BuiltIndexPersists
<1> QED
  BY <1>1, <1>2, <1>3, PTL DEF Spec
----------------------------------------------------------------------------
(* A search that is as wide as the index visits whatever it can reach: its    *)
(* results are the nodes it has marked, none is ever dropped, and it does not *)
(* end before its candidates.                                                *)

(* Of a finite set of nodes some is the farthest.                             *)
LEMMA WorstType ==
    ASSUME NEW S \in SUBSET Int, IsFiniteSet(S), S # {}, NEW d, \A a \in S : d[a] \in Int
    PROVE  Worst(d, S) \in S /\ \A b \in S : ~ Better(d, Worst(d, S), b)
<1> DEFINE N == Cardinality(S)
           R == ByDistance(d, S)
<1>1. N \in Nat /\ N # 0
  BY FS_CardinalityType, FS_EmptySet
<1>2. Orders(R, S)
  BY DistanceOrders
<1> HIDE DEF N
<1>3. N - 1 \in 0 .. N - 1
  BY <1>1
<1> HIDE DEF R
<1>4. HasRank(R, S, N - 1)
  BY <1>2, <1>3, Ranks DEF N
<1>5. PICK a \in S : Cardinality(Under(R, S, a)) = N - 1
  BY <1>4 DEF HasRank
<1>6. Under(R, S, a) = S \ {a}
  <2>1. Under(R, S, a) \in SUBSET (S \ {a})
    BY <1>2 DEF Under, Orders
  <2>2. IsFiniteSet(S \ {a}) /\ Cardinality(S \ {a}) = N - 1
    BY FS_RemoveElement DEF N
  <2> QED
    BY <1>5, <2>1, <2>2, FS_Subset
<1>7. ASSUME NEW b \in S PROVE ~ Better(d, a, b)
  <2>1. CASE b = a
    BY <2>1 DEF Better
  <2>2. CASE b # a
    <3>1. Better(d, b, a)
      BY <1>6, <2>2 DEF Under, R, ByDistance
    <3> QED
      BY <3>1 DEF Better
  <2> QED
    BY <2>1, <2>2
<1>8. \E x \in S : \A b \in S : ~ Better(d, x, b)
  BY <1>7
<1> QED
  BY <1>8, Zenon DEF Worst

\* The nodes that carry the current mark.
Visited(sc, k) == {id \in 0 .. k - 1 : sc.marks[id] = sc.mark}

LEMMA MarkedVisited ==
    ASSUME NEW k \in Nat, NEW sc \in Scratches(k), NEW id \in 0 .. k - 1
    PROVE  Visited(Marked(sc, id), k) = Visited(sc, k) \cup {id}
BY DEF Visited, Marked, Scratches, ScratchType

\* Nothing that was visited has been dropped.
KeptAll(st, k) == st.res = Visited(st.sc, k) /\ st.cand \subseteq st.res

LEMMA WideVisit ==
    ASSUME NEW k \in Nat, NEW d \in Distances(k), NEW st \in Searches(k), KeptAll(st, k),
           NEW id \in 0 .. k - 1
    PROVE  /\ KeptAll(Visit(d, k, st, id), k)
           /\ Visit(d, k, st, id).res = st.res \cup {id}
           /\ Visit(d, k, st, id).cand = st.cand \cup ({id} \ st.res)
<1>1. st.sc \in Scratches(k) /\ st.res \in SUBSET (0 .. k - 1)
  BY DEF Searches
<1>2. CASE st.sc.marks[id] = st.sc.mark
  <2>1. Visit(d, k, st, id) = st
    BY <1>2, VisitIs
  <2>2. id \in st.res
    BY <1>2 DEF KeptAll, Visited
  <2> QED
    BY <2>1, <2>2
<1>3. CASE st.sc.marks[id] # st.sc.mark
  <2>1. id \notin st.res
    BY <1>3 DEF KeptAll, Visited
  <2>2. Cardinality(st.res) < k
    <3> DEFINE U == 0 .. k - 1
    <3>1. IsFiniteSet(U) /\ Cardinality(U) = k
      BY FS_Interval
    <3>2. IsFiniteSet(U \ {id}) /\ Cardinality(U \ {id}) = k - 1
      BY <3>1, FS_RemoveElement
    <3>3. st.res \in SUBSET (U \ {id})
      BY <1>1, <2>1
    <3>4. IsFiniteSet(st.res) /\ Cardinality(st.res) <= k - 1
      BY <3>2, <3>3, FS_Subset
    <3>5. Cardinality(st.res) \in Nat
      BY <3>4, FS_CardinalityType
    <3> QED
      BY <3>4, <3>5
  <2> DEFINE r == [sc |-> Marked(st.sc, id), cand |-> st.cand \cup {id}, res |-> st.res \cup {id}]
  <2>3. Visit(d, k, st, id) = r
    <3>1. Candidates(d, k, st, id) = st.cand \cup {id} /\ Results(d, k, st, id) = st.res \cup {id}
      BY <2>2 DEF Candidates, Results
    <3> QED
      BY <1>3, <3>1, VisitIs
  <2>4. r.sc = Marked(st.sc, id) /\ r.cand = st.cand \cup {id} /\ r.res = st.res \cup {id}
    OBVIOUS
  <2> HIDE DEF r
  <2>5. KeptAll(r, k)
    BY <1>1, <2>4, MarkedVisited DEF KeptAll
  <2> QED
    BY <2>1, <2>3, <2>4, <2>5
<1> QED
  BY <1>2, <1>3

LEMMA WideVisitAll ==
    ASSUME NEW k \in Nat, NEW d \in Distances(k), NEW st \in Searches(k), KeptAll(st, k),
           NEW ids \in Seq(0 .. k - 1)
    PROVE  /\ KeptAll(VisitAll(d, k, st, ids), k)
           /\ VisitAll(d, k, st, ids).res = st.res \cup ToSet(ids)
           /\ VisitAll(d, k, st, ids).cand = st.cand \cup (ToSet(ids) \ st.res)
<1> DEFINE m == Len(ids)
           A == Visiting(d, k, st, ids)
           P(i) == {ids[j] : j \in 1 .. i}
           T == {i \in 0 .. m : /\ KeptAll(A[i], k) /\ A[i].res = st.res \cup P(i)
                                /\ A[i].cand = st.cand \cup (P(i) \ st.res)}
<1>0. m \in Nat /\ (\A i \in 1 .. m : ids[i] \in 0 .. k - 1) /\ DOMAIN ids = 1 .. m
  OBVIOUS
<1>1. /\ A \in [0 .. m -> Searches(k)] /\ A[0] = st
      /\ \A i \in 1 .. m : A[i] = Visit(d, k, A[i - 1], ids[i])
  <2>1. Run(A, m, Searches(k), st)
    BY VisitingIs
  <2>2. \A i \in 1 .. m : A[i] = Visit(d, k, A[i - 1], ids[i])
    BY VisitingIs
  <2> HIDE DEF A, m
  <2> QED
    BY <2>1, <2>2 DEF Run
<1> HIDE DEF A, m
<1>2. P(0) = {}
  OBVIOUS
<1>3. \A i \in 0 .. m - 1 : P(i + 1) = P(i) \cup {ids[i + 1]}
  <2> TAKE i \in 0 .. m - 1
  <2>1. 1 .. i + 1 = (1 .. i) \cup {i + 1}
    BY <1>0
  <2> QED
    BY <2>1
<1> HIDE DEF P
<1>4. 0 \in T
  BY <1>0, <1>1, <1>2
<1>5. ASSUME NEW i \in 0 .. m - 1, i \in T PROVE i + 1 \in T
  <2>1. i + 1 \in 1 .. m /\ (i + 1) - 1 = i /\ i \in 0 .. m /\ i + 1 \in 0 .. m
    BY <1>0
  <2>2. /\ A[i] \in Searches(k) /\ KeptAll(A[i], k) /\ A[i].res = st.res \cup P(i)
        /\ A[i].cand = st.cand \cup (P(i) \ st.res)
    BY <1>1, <1>5, <2>1
  <2>3. A[i + 1] = Visit(d, k, A[i], ids[i + 1]) /\ ids[i + 1] \in 0 .. k - 1
    BY <1>0, <1>1, <2>1
  <2>4. /\ KeptAll(A[i + 1], k) /\ A[i + 1].res = A[i].res \cup {ids[i + 1]}
        /\ A[i + 1].cand = A[i].cand \cup ({ids[i + 1]} \ A[i].res)
    BY <2>2, <2>3, WideVisit
  <2>5. P(i + 1) = P(i) \cup {ids[i + 1]}
    BY <1>3
  <2>6. /\ A[i + 1].res = st.res \cup P(i + 1)
        /\ A[i + 1].cand = st.cand \cup (P(i + 1) \ st.res)
    BY <2>2, <2>4, <2>5
  <2> QED
    BY <2>1, <2>4, <2>6
<1> HIDE DEF T
<1>6. 0 .. m \subseteq T
  BY <1>0, <1>4, <1>5, Induct
<1>7. m \in T
  BY <1>0, <1>6
<1>8. P(m) = ToSet(ids)
  BY <1>0 DEF P, ToSet
<1> QED
  BY <1>7, <1>8 DEF T, A, m, VisitAll

\* And of each visited node that is not a candidate any more, all neighbours
\* were visited.
Settled(st, k, adjacency) ==
    KeptAll(st, k) /\ \A x \in st.res \ st.cand : ToSet(adjacency[x]) \subseteq st.res

LEMMA WideHop ==
    ASSUME NEW k \in Nat, NEW d \in Distances(k), NEW adjacency \in Lists(k),
           NEW st \in Searches(k), Settled(st, k, adjacency), st.cand # {},
           NEW r, r = Hop(adjacency, d, k, st)
    PROVE  /\ Settled(r, k, adjacency) /\ st.res \subseteq r.res
           /\ r.res \subseteq st.res \cup UNION {ToSet(adjacency[u]) : u \in st.res}
           /\ Cardinality(r.res \ r.cand) = Cardinality(st.res \ st.cand) + 1
<1> DEFINE b == Best(d, st.cand)
           t == Taken(d, st)
           ids == adjacency[b]
<1>1. /\ t \in Searches(k) /\ b \in 0 .. k - 1 /\ ids \in Seq(0 .. k - 1)
  BY TakenType
<1>2. st.cand \in SUBSET (0 .. k - 1) /\ st.res \in SUBSET (0 .. k - 1) /\ st.cand \subseteq st.res
  BY DEF Searches, Settled, KeptAll
<1>3. b \in st.cand /\ b \in st.res
  <2>1. st.cand \in SUBSET Nat /\ \A a \in st.cand : d[a] \in Nat
    BY <1>2 DEF Distances
  <2>2. b \in st.cand
    BY <2>1, BestType
  <2> QED
    BY <1>2, <2>2
<1>4. ~ Over(d, st)
  <2> DEFINE w == Worst(d, st.res)
  <2>1. /\ st.res \in SUBSET Int /\ IsFiniteSet(st.res) /\ st.res # {}
        /\ \A a \in st.res : d[a] \in Int
    <3>1. st.res # {} /\ st.res \in SUBSET (0 .. k - 1)
      BY <1>2, <1>3
    <3>2. st.res \in SUBSET Int /\ IsFiniteSet(st.res)
      BY <3>1, NodesFinite
    <3>3. \A a \in 0 .. k - 1 : d[a] \in Int
      BY DEF Distances
    <3> QED
      BY <3>1, <3>2, <3>3
  <2>2. w \in st.res /\ ~ Better(d, w, b)
    BY <1>3, <2>1, WorstType
  <2>3. d[w] \in Int /\ d[b] \in Int
    BY <1>3, <2>1, <2>2
  <2> HIDE DEF w, b
  <2>4. ~ (d[b] > d[w])
    BY <2>2, <2>3 DEF Better
  <2> QED
    BY <2>4 DEF Over, w, b
<1>5. r = VisitAll(d, k, t, ids)
  BY <1>4, HopIs
<1>6. t.sc = st.sc /\ t.cand = st.cand \ {b} /\ t.res = st.res
  BY DEF Taken, Searches
<1> HIDE DEF t, b
<1>7. KeptAll(t, k)
  BY <1>6 DEF Settled, KeptAll
<1>8. /\ KeptAll(r, k) /\ r.res = st.res \cup ToSet(ids)
      /\ r.cand = (st.cand \ {b}) \cup (ToSet(ids) \ st.res)
  BY <1>1, <1>5, <1>6, <1>7, WideVisitAll
<1>9. r.res \ r.cand = (st.res \ st.cand) \cup {b}
  BY <1>2, <1>3, <1>8
<1>10. Settled(r, k, adjacency)
  BY <1>8, <1>9 DEF Settled
<1>11. r.res \subseteq st.res \cup UNION {ToSet(adjacency[u]) : u \in st.res}
  BY <1>3, <1>8
<1>12. Cardinality(r.res \ r.cand) = Cardinality(st.res \ st.cand) + 1
  <2>1. IsFiniteSet(st.res \ st.cand) /\ b \notin st.res \ st.cand
    BY <1>2, <1>3, NodesFinite
  <2> QED
    BY <1>9, <2>1, FS_AddElement
<1> QED
  BY <1>8, <1>10, <1>11, <1>12

\* One step further in layer 0.
Further(adjacency, S) == S \cup UNION {ToSet(adjacency[u]) : u \in S}

LEMMA FurtherType ==
    ASSUME NEW k \in Nat, NEW adjacency \in Lists(k), NEW S \in SUBSET (0 .. k - 1)
    PROVE  Further(adjacency, S) \in SUBSET (0 .. k - 1)
<1>1. \A u \in S : ToSet(adjacency[u]) \in SUBSET (0 .. k - 1)
  BY ToSetType DEF Lists
<1> QED
  BY <1>1 DEF Further

LEMMA WithinIs ==
    ASSUME NEW ix, NEW k \in Nat, Count(ix.dist) = k, ix.layers[0] \in Lists(k),
           NEW entry \in 0 .. k - 1
    PROVE  /\ Within(ix, entry) \in [0 .. k -> SUBSET (0 .. k - 1)]
           /\ Within(ix, entry)[0] = {entry}
           /\ \A i \in 1 .. k :
                 Within(ix, entry)[i] = Further(ix.layers[0], Within(ix, entry)[i - 1])
<1> DEFINE V == SUBSET (0 .. k - 1)
           adj == ix.layers[0]
           F == [i \in 1 .. k |-> [x \in V |-> Further(adj, x)]]
           M == Within(ix, entry)
<1>1. F \in [1 .. k -> [V -> V]]
  BY FurtherType
<1>2. \A i \in 1 .. k : \A x \in V : F[i][x] = Further(adj, x)
  OBVIOUS
<1>10. {entry} \in V
  OBVIOUS
<1>11. \A x \in V : Further(adj, x) \in V
  BY FurtherType
<1> HIDE DEF F, V
<1>3. PICK f : Solution(k, V, {entry}, F, f)
  BY <1>1, <1>10, Recursion
<1>4. f = [i \in 0 .. k |-> IF i = 0 THEN {entry} ELSE Further(adj, f[i - 1])]
  <2>1. f \in [0 .. k -> V] /\ f[0] = {entry} /\ \A i \in 1 .. k : f[i] = F[i][f[i - 1]]
    BY <1>3 DEF Solution
  <2>2. ASSUME NEW i \in 0 .. k
        PROVE  f[i] = IF i = 0 THEN {entry} ELSE Further(adj, f[i - 1])
    <3>1. CASE i = 0
      BY <2>1, <3>1
    <3>2. CASE i # 0
      <4>1. i \in 1 .. k /\ f[i - 1] \in V
        BY <2>1, <3>2
      <4> QED
        BY <1>2, <2>1, <3>2, <4>1
    <3> QED
      BY <3>1, <3>2
  <2> QED
    BY <2>1, <2>2
<1>5. M = [i \in 0 .. k |-> IF i = 0 THEN {entry} ELSE Further(adj, M[i - 1])]
  BY <1>4, Zenon DEF Within, Further
<1> HIDE DEF M
<1>6. \A i \in 0 .. k : M[i] = IF i = 0 THEN {entry} ELSE Further(adj, M[i - 1])
  BY <1>5
<1>7. \A i \in 1 .. k : M[i] = Further(adj, M[i - 1])
  BY <1>6
<1>8. M[0] = {entry} /\ DOMAIN M = 0 .. k /\ M = [i \in 0 .. k |-> M[i]]
  BY <1>5, <1>6
<1>9. 0 .. k \subseteq {i \in 0 .. k : M[i] \in V}
  <2> DEFINE T == {i \in 0 .. k : M[i] \in V}
  <2>1. 0 \in T
    <3>1. 0 \in 0 .. k
      OBVIOUS
    <3> QED
      BY <1>8, <1>10, <3>1
  <2>2. ASSUME NEW i \in 0 .. k - 1, i \in T PROVE i + 1 \in T
    <3>1. i + 1 \in 1 .. k /\ (i + 1) - 1 = i
      OBVIOUS
    <3>2. M[i + 1] = Further(adj, M[i])
      BY <1>7, <3>1
    <3>3. M[i + 1] \in V
      BY <1>11, <2>2, <3>2
    <3> QED
      BY <3>1, <3>3
  <2> HIDE DEF T
  <2> QED
    BY <2>1, <2>2, Induct DEF T
<1> QED
  BY <1>7, <1>8, <1>9 DEF M, V

(* A wide search ends with what layer 0 reaches from where it begins.         *)
LEMMA WideSearching ==
    ASSUME NEW ix, NEW k \in Nat, Count(ix.dist) = k, ix.layers[0] \in Lists(k),
           NEW entry \in 0 .. k - 1, NEW d \in Distances(k), NEW begin \in Searches(k),
           Settled(begin, k, ix.layers[0]), begin.res = {entry}
    PROVE  /\ Searching(ix.layers[0], d, k, begin)[Count(d)] \in Searches(k)
           /\ Searching(ix.layers[0], d, k, begin)[Count(d)].res = Reached(ix, entry)
<1> DEFINE adj == ix.layers[0]
           m == Count(d)
           A == Searching(adj, d, k, begin)
           M == Within(ix, entry)
           T == {i \in 0 .. k : /\ Settled(A[i], k, adj) /\ entry \in A[i].res
                                /\ A[i].res \subseteq M[i]
                                /\ A[i].cand = {} \/ Cardinality(A[i].res \ A[i].cand) >= i}
<1>0. m = k
  BY CountOf
<1>1. /\ A \in [0 .. k -> Searches(k)] /\ A[0] = begin
      /\ \A i \in 1 .. k : A[i] = Hop(adj, d, k, A[i - 1])
  <2>1. Run(A, m, Searches(k), begin)
    BY SearchingIs
  <2>2. \A i \in 1 .. m : A[i] = Hop(adj, d, k, A[i - 1])
    BY SearchingIs
  <2> HIDE DEF A, m
  <2> QED
    BY <1>0, <2>1, <2>2 DEF Run
<1>2. /\ M \in [0 .. k -> SUBSET (0 .. k - 1)] /\ M[0] = {entry}
      /\ \A i \in 1 .. k : M[i] = Further(adj, M[i - 1])
  BY WithinIs
<1> HIDE DEF A, M, m
<1>3. 0 \in T
  <2>1. begin.cand \subseteq {entry} /\ begin.res = {entry}
    BY DEF Settled, KeptAll
  <2>2. Cardinality(begin.res \ begin.cand) >= 0
    <3>1. begin.res \ begin.cand \in SUBSET (0 .. k - 1)
      OBVIOUS
    <3>2. Cardinality(begin.res \ begin.cand) \in Nat
      BY <3>1, NodesFinite
    <3> QED
      BY <3>2
  <2>3. 0 \in 0 .. k
    OBVIOUS
  <2>4. Settled(A[0], k, adj) /\ A[0].res = {entry} /\ M[0] = {entry}
    BY <1>1, <1>2
  <2>5. Cardinality(A[0].res \ A[0].cand) >= 0
    BY <1>1, <2>2
  <2> QED
    BY <2>3, <2>4, <2>5
<1>4. ASSUME NEW i \in 0 .. k - 1, i \in T PROVE i + 1 \in T
  <2>1. i + 1 \in 1 .. k /\ (i + 1) - 1 = i /\ i \in 0 .. k /\ i + 1 \in 0 .. k
    OBVIOUS
  <2>2. /\ A[i] \in Searches(k) /\ Settled(A[i], k, adj) /\ entry \in A[i].res
        /\ A[i].res \subseteq M[i]
        /\ A[i].cand = {} \/ Cardinality(A[i].res \ A[i].cand) >= i
    BY <1>1, <1>4, <2>1
  <2>3. A[i + 1] = Hop(adj, d, k, A[i]) /\ M[i + 1] = Further(adj, M[i])
    BY <1>1, <1>2, <2>1
  <2>4. CASE A[i].cand = {}
    <3>1. A[i + 1] = A[i]
      BY <2>3, <2>4, HopIs
    <3>2. M[i] \subseteq M[i + 1]
      BY <2>3 DEF Further
    <3> QED
      BY <2>1, <2>2, <2>4, <3>1, <3>2
  <2>5. CASE A[i].cand # {}
    <3>1. /\ Settled(A[i + 1], k, adj) /\ A[i].res \subseteq A[i + 1].res
          /\ A[i + 1].res \subseteq A[i].res \cup UNION {ToSet(adj[u]) : u \in A[i].res}
          /\ Cardinality(A[i + 1].res \ A[i + 1].cand) = Cardinality(A[i].res \ A[i].cand) + 1
      BY <2>2, <2>3, <2>5, WideHop
    <3>2. A[i + 1].res \subseteq M[i + 1]
      BY <2>2, <2>3, <3>1 DEF Further
    <3>3. Cardinality(A[i + 1].res \ A[i + 1].cand) >= i + 1
      <4>1. A[i].res \ A[i].cand \in SUBSET (0 .. k - 1)
        BY <2>2 DEF Searches
      <4>2. Cardinality(A[i].res \ A[i].cand) \in Nat
        BY <4>1, NodesFinite
      <4> QED
        BY <2>2, <2>5, <3>1, <4>2
    <3>4. entry \in A[i + 1].res
      BY <2>2, <3>1
    <3> QED
      BY <2>1, <3>1, <3>2, <3>3, <3>4
  <2> QED
    BY <2>4, <2>5
<1> HIDE DEF T
<1>5. 0 .. k \subseteq T
  BY <1>3, <1>4, Induct
<1> DEFINE end == A[k]
<1>6. /\ end \in Searches(k) /\ Settled(end, k, adj) /\ entry \in end.res /\ end.res \subseteq M[k]
      /\ end.cand = {} \/ Cardinality(end.res \ end.cand) >= k
  <2>1. k \in 0 .. k
    OBVIOUS
  <2>2. k \in T
    BY <1>5, <2>1
  <2> QED
    BY <1>1, <2>1, <2>2 DEF T
<1> HIDE DEF end
<1>7. end.cand = {}
  <2> SUFFICES ASSUME Cardinality(end.res \ end.cand) >= k, end.cand # {} PROVE FALSE
    BY <1>6
  <2>1. /\ end.cand \in SUBSET (0 .. k - 1) /\ end.res \in SUBSET (0 .. k - 1)
    BY <1>6 DEF Searches
  <2>2. PICK x \in end.cand : x \in 0 .. k - 1
    BY <2>1
  <2> DEFINE U == 0 .. k - 1
  <2>3. IsFiniteSet(U) /\ Cardinality(U) = k
    BY FS_Interval
  <2>4. IsFiniteSet(U \ {x}) /\ Cardinality(U \ {x}) = k - 1
    <3>1. x \in U
      BY <2>2
    <3> HIDE DEF U
    <3> QED
      BY <2>3, <3>1, FS_RemoveElement
  <2>5. end.res \ end.cand \in SUBSET (U \ {x})
    BY <2>1, <2>2
  <2>6. Cardinality(end.res \ end.cand) <= k - 1 /\ IsFiniteSet(end.res \ end.cand)
    BY <2>4, <2>5, FS_Subset
  <2>7. Cardinality(end.res \ end.cand) \in Nat
    BY <2>6, FS_CardinalityType
  <2> QED
    BY <2>6, <2>7
<1>8. \A x \in end.res : ToSet(adj[x]) \subseteq end.res
  BY <1>6, <1>7 DEF Settled
<1>9. M[k] \subseteq end.res
  <2> DEFINE W == {i \in 0 .. k : M[i] \subseteq end.res}
  <2>1. 0 \in W
    BY <1>2, <1>6
  <2>2. ASSUME NEW i \in 0 .. k - 1, i \in W PROVE i + 1 \in W
    <3>1. i + 1 \in 1 .. k /\ (i + 1) - 1 = i /\ i + 1 \in 0 .. k
      OBVIOUS
    <3>2. M[i + 1] = Further(adj, M[i])
      BY <1>2, <3>1
    <3>3. M[i + 1] \subseteq end.res
      BY <1>8, <2>2, <3>2 DEF Further
    <3> QED
      BY <3>1, <3>3
  <2> HIDE DEF W
  <2>3. 0 .. k \subseteq W
    BY <2>1, <2>2, Induct
  <2>4. k \in 0 .. k
    OBVIOUS
  <2> QED
    BY <2>3, <2>4 DEF W
<1>10. end.res = M[k] /\ end = A[m]
  BY <1>0, <1>6, <1>9 DEF end
<1>11. Reached(ix, entry) = M[k]
  BY DEF Reached, M
<1> QED
  BY <1>6, <1>10, <1>11 DEF A, m

LEMMA WideSearchLayer ==
    ASSUME NEW ix, NEW k \in Nat, Count(ix.dist) = k, ix.layers[0] \in Lists(k),
           NEW entry \in 0 .. k - 1, NEW d \in Distances(k), NEW sc, IsScratch(sc, k)
    PROVE  /\ SearchLayer(ix.layers[0], d, <<entry>>, k, sc).found
                 = Nearest(d, Reached(ix, entry), k)
           /\ Reached(ix, entry) \in SUBSET (0 .. k - 1)
<1> DEFINE adj == ix.layers[0]
           ids == <<entry>>
           blank == [sc |-> Reset(sc), cand |-> {}, res |-> {}]
           begin == VisitAll(d, k, blank, ids)
           end == Searching(adj, d, k, begin)[Count(d)]
           q == Nearest(d, end.res, k)
<1>1. Reset(sc) \in Scratches(k) /\ Visited(Reset(sc), k) = {}
  BY ResetIs DEF Visited
<1>2. blank \in Searches(k) /\ KeptAll(blank, k) /\ blank.res = {} /\ blank.cand = {}
  BY <1>1 DEF Searches, KeptAll
<1>3. ids \in Seq(0 .. k - 1) /\ ToSet(ids) = {entry}
  BY DEF ToSet
<1> HIDE DEF blank, ids
<1>4. begin \in Searches(k)
  BY <1>2, <1>3, VisitAllType
<1>5. KeptAll(begin, k) /\ begin.res = {entry} /\ begin.cand = {entry}
  <2>1. /\ KeptAll(begin, k) /\ begin.res = blank.res \cup ToSet(ids)
        /\ begin.cand = blank.cand \cup (ToSet(ids) \ blank.res)
    BY <1>2, <1>3, WideVisitAll
  <2> HIDE DEF begin
  <2> QED
    BY <1>2, <1>3, <2>1
<1> HIDE DEF begin
<1>6. Settled(begin, k, adj)
  BY <1>5 DEF Settled
<1>7. end \in Searches(k) /\ end.res = Reached(ix, entry)
  BY <1>4, <1>5, <1>6, WideSearching
<1>8. SearchLayer(adj, d, ids, k, sc) = [end.sc EXCEPT !.found = q]
  BY Zenon DEF SearchLayer, begin, blank
<1> HIDE DEF end
<1>9. end.sc \in Scratches(k) /\ end.res \in SUBSET (0 .. k - 1)
  BY <1>7 DEF Searches
<1>10. IsScratch(end.sc, k)
  BY <1>9, ScratchIs
<1>11. [end.sc EXCEPT !.found = q].found = q
  BY <1>10, FoundOnly
<1> QED
  BY <1>7, <1>8, <1>9, <1>11 DEF ids

(* A search that has a result keeps one.                                     *)
LEMMA VisitSome ==
    ASSUME NEW k \in Nat, NEW d \in Distances(k), NEW ef, NEW st \in Searches(k), st.res # {},
           NEW id
    PROVE  Visit(d, ef, st, id).res # {}
<1>1. CASE id \notin 0 .. k - 1 \/ st.sc.marks[id] = st.sc.mark
  BY <1>1, VisitIs
<1>2. CASE ~ (id \notin 0 .. k - 1 \/ st.sc.marks[id] = st.sc.mark)
  <2>1. Visit(d, ef, st, id) = [sc |-> Marked(st.sc, id), cand |-> Candidates(d, ef, st, id),
                                res |-> Results(d, ef, st, id)]
    BY <1>2, VisitIs
  <2>2. Visit(d, ef, st, id).res = Results(d, ef, st, id)
    BY <2>1
  <2>3. Results(d, ef, st, id) # {}
    BY DEF Results
  <2> QED
    BY <2>2, <2>3
<1> QED
  BY <1>1, <1>2

LEMMA VisitAllSome ==
    ASSUME NEW k \in Nat, NEW d \in Distances(k), NEW ef, NEW st \in Searches(k), st.res # {},
           NEW ids \in Seq(0 .. k - 1)
    PROVE  VisitAll(d, ef, st, ids).res # {}
<1> DEFINE m == Len(ids)
           A == Visiting(d, ef, st, ids)
           T == {i \in 0 .. m : A[i].res # {}}
<1>0. m \in Nat
  OBVIOUS
<1>1. /\ A \in [0 .. m -> Searches(k)] /\ A[0] = st
      /\ \A i \in 1 .. m : A[i] = Visit(d, ef, A[i - 1], ids[i])
  <2>1. Run(A, m, Searches(k), st)
    BY VisitingIs
  <2>2. \A i \in 1 .. m : A[i] = Visit(d, ef, A[i - 1], ids[i])
    BY VisitingIs
  <2> HIDE DEF A, m
  <2> QED
    BY <2>1, <2>2 DEF Run
<1> HIDE DEF A, m
<1>2. 0 \in T
  BY <1>0, <1>1
<1>3. ASSUME NEW i \in 0 .. m - 1, i \in T PROVE i + 1 \in T
  <2>1. i + 1 \in 1 .. m /\ (i + 1) - 1 = i /\ i \in 0 .. m /\ i + 1 \in 0 .. m
    BY <1>0
  <2>2. A[i] \in Searches(k) /\ A[i].res # {}
    BY <1>1, <1>3, <2>1
  <2>3. A[i + 1] = Visit(d, ef, A[i], ids[i + 1])
    BY <1>1, <2>1
  <2>4. A[i + 1].res # {}
    BY <2>2, <2>3, VisitSome
  <2> QED
    BY <2>1, <2>4
<1> HIDE DEF T
<1>4. 0 .. m \subseteq T
  BY <1>0, <1>2, <1>3, Induct
<1>5. m \in T
  BY <1>0, <1>4
<1>6. A[m].res # {}
  BY <1>5, Zenon DEF T
<1> QED
  BY <1>6 DEF A, m, VisitAll

LEMMA HopSome ==
    ASSUME NEW k \in Nat, NEW d \in Distances(k), NEW ef, NEW adjacency \in Lists(k),
           NEW st \in Searches(k), st.res # {}
    PROVE  Hop(adjacency, d, ef, st).res # {}
<1>1. CASE st.cand = {}
  BY <1>1, HopIs
<1>2. CASE st.cand # {} /\ Over(d, st)
  <2>1. Hop(adjacency, d, ef, st) = [st EXCEPT !.cand = {}]
    BY <1>2, HopIs
  <2>2. [st EXCEPT !.cand = {}].res = st.res
    BY DEF Searches
  <2> QED
    BY <2>1, <2>2
<1>3. CASE st.cand # {} /\ ~ Over(d, st)
  <2>1. Hop(adjacency, d, ef, st) = VisitAll(d, ef, Taken(d, st), adjacency[Best(d, st.cand)])
    BY <1>3, HopIs
  <2>2. Taken(d, st) \in Searches(k) /\ adjacency[Best(d, st.cand)] \in Seq(0 .. k - 1)
    BY <1>3, TakenType
  <2>3. Taken(d, st).res # {}
    BY DEF Taken, Searches
  <2> QED
    BY <2>1, <2>2, <2>3, VisitAllSome
<1> QED
  BY <1>1, <1>2, <1>3

LEMMA SearchingSome ==
    ASSUME NEW k \in Nat, NEW d \in Distances(k), NEW ef, NEW adjacency \in Lists(k),
           NEW begin \in Searches(k), begin.res # {}
    PROVE  /\ Searching(adjacency, d, ef, begin)[Count(d)] \in Searches(k)
           /\ Searching(adjacency, d, ef, begin)[Count(d)].res # {}
<1> DEFINE m == Count(d)
           A == Searching(adjacency, d, ef, begin)
           T == {i \in 0 .. m : A[i].res # {}}
<1>0. m \in Nat
  BY CountOf
<1>1. /\ A \in [0 .. m -> Searches(k)] /\ A[0] = begin
      /\ \A i \in 1 .. m : A[i] = Hop(adjacency, d, ef, A[i - 1])
  <2>1. Run(A, m, Searches(k), begin)
    BY SearchingIs
  <2>2. \A i \in 1 .. m : A[i] = Hop(adjacency, d, ef, A[i - 1])
    BY SearchingIs
  <2> HIDE DEF A, m
  <2> QED
    BY <2>1, <2>2 DEF Run
<1> HIDE DEF A, m
<1>2. 0 \in T
  BY <1>0, <1>1
<1>3. ASSUME NEW i \in 0 .. m - 1, i \in T PROVE i + 1 \in T
  <2>1. i + 1 \in 1 .. m /\ (i + 1) - 1 = i /\ i \in 0 .. m /\ i + 1 \in 0 .. m
    BY <1>0
  <2>2. A[i] \in Searches(k) /\ A[i].res # {}
    BY <1>1, <1>3, <2>1
  <2>3. A[i + 1] = Hop(adjacency, d, ef, A[i])
    BY <1>1, <2>1
  <2>4. A[i + 1].res # {}
    BY <2>2, <2>3, HopSome
  <2> QED
    BY <2>1, <2>4
<1> HIDE DEF T
<1>4. 0 .. m \subseteq T
  BY <1>0, <1>2, <1>3, Induct
<1>5. m \in T /\ m \in 0 .. m
  BY <1>0, <1>4
<1>6. A[m].res # {} /\ A[m] \in Searches(k)
  BY <1>1, <1>5, Zenon DEF T
<1> QED
  BY <1>6 DEF A, m

\* Scratch of a search that found something.
Finders(k) == {sc \in Scratches(k) : sc.found # <<>>}

LEMMA FirstFound ==
    ASSUME NEW k \in Nat, NEW sc \in Finders(k)
    PROVE  sc.found[1] \in 0 .. k - 1 /\ IsScratch(sc, k) /\ <<sc.found[1]>> \in Seq(0 .. k - 1)
<1>1. sc \in Scratches(k) /\ sc.found \in Seq(0 .. k - 1) /\ sc.found # <<>>
  BY DEF Finders, Scratches, ScratchType
<1> DEFINE q == sc.found
<1>2. q \in Seq(0 .. k - 1) /\ q # <<>>
  BY <1>1
<1> HIDE DEF q
<1>3. q[1] \in 0 .. k - 1
  BY <1>2
<1> QED
  BY <1>1, <1>3, ScratchIs DEF q

LEMMA SearchLayerFinds ==
    ASSUME NEW k \in Nat, NEW d \in Distances(k), NEW ef \in Nat \ {0}, NEW adjacency \in Lists(k),
           NEW entry \in 0 .. k - 1, NEW sc, IsScratch(sc, k)
    PROVE  SearchLayer(adjacency, d, <<entry>>, ef, sc) \in Finders(k)
<1> DEFINE ids == <<entry>>
           blank == [sc |-> Reset(sc), cand |-> {}, res |-> {}]
           begin == VisitAll(d, ef, blank, ids)
           end == Searching(adjacency, d, ef, begin)[Count(d)]
           q == Nearest(d, end.res, ef)
<1>1. Reset(sc) \in Scratches(k) /\ \A id \in 0 .. k - 1 : Reset(sc).marks[id] # Reset(sc).mark
  BY ResetIs
<1>2. /\ blank \in Searches(k) /\ blank.res = {}
      /\ ~ (entry \notin 0 .. k - 1 \/ blank.sc.marks[entry] = blank.sc.mark)
  BY <1>1 DEF Searches
<1>3. ids \in Seq(0 .. k - 1) /\ Len(ids) = 1 /\ ids[1] = entry
  OBVIOUS
<1> HIDE DEF blank, ids
<1>4. begin \in Searches(k)
  BY <1>2, <1>3, VisitAllType
<1>5. begin = Visit(d, ef, blank, entry)
  <2> DEFINE A == Visiting(d, ef, blank, ids)
  <2>0. blank \in Searches(k) /\ ids \in Seq(0 .. k - 1)
    BY <1>2, <1>3
  <2>1. Run(A, Len(ids), Searches(k), blank)
    BY <2>0, VisitingIs
  <2>2. \A i \in 1 .. Len(ids) : A[i] = Visit(d, ef, A[i - 1], ids[i])
    BY <2>0, VisitingIs
  <2> HIDE DEF A
  <2>3. A[1] = Visit(d, ef, A[0], ids[1])
    BY <1>3, <2>2
  <2> QED
    BY <1>3, <2>1, <2>3 DEF VisitAll, A, Run
<1>6. begin.res # {}
  <2>1. begin = [sc |-> Marked(blank.sc, entry), cand |-> Candidates(d, ef, blank, entry),
                 res |-> Results(d, ef, blank, entry)]
    BY <1>2, <1>5, VisitIs
  <2>2. Cardinality(blank.res) = 0
    BY <1>2, FS_EmptySet
  <2>3. Results(d, ef, blank, entry) = {entry}
    BY <1>2, <2>2 DEF Results
  <2>4. begin.res = {entry}
    BY <2>1, <2>3
  <2> QED
    BY <2>4
<1> HIDE DEF begin
<1>7. end \in Searches(k) /\ end.res # {}
  BY <1>4, <1>6, SearchingSome
<1>8. SearchLayer(adjacency, d, ids, ef, sc) = [end.sc EXCEPT !.found = q]
  BY Zenon DEF SearchLayer, begin, blank
<1> HIDE DEF end
<1>9. end.sc \in Scratches(k) /\ end.res \in SUBSET (0 .. k - 1)
  BY <1>7 DEF Searches
<1>10. q \in Seq(0 .. k - 1) /\ Len(q) = AtMost(ef, Cardinality(end.res))
  <2>1. IsFiniteSet(end.res) /\ end.res \in SUBSET Int
    BY <1>9, NodesFinite
  <2>2. \A a \in end.res : d[a] \in Int
    BY <1>9 DEF Distances
  <2> QED
    BY <1>9, <2>1, <2>2, NearestNodes, NearestDistinct
<1>11. AtMost(ef, Cardinality(end.res)) # 0
  <2>1. IsFiniteSet(end.res) /\ Cardinality(end.res) \in Nat
    BY <1>9, NodesFinite
  <2>2. Cardinality(end.res) # 0
    BY <1>7, <2>1, FS_EmptySet
  <2> QED
    BY <2>1, <2>2 DEF AtMost
<1> HIDE DEF q
<1>12. q # <<>>
  BY <1>10, <1>11
<1>13. [end.sc EXCEPT !.found = q] \in Scratches(k) /\ [end.sc EXCEPT !.found = q].found = q
  BY <1>9, <1>10, FoundType
<1> QED
  BY <1>8, <1>12, <1>13 DEF Finders, ids

LEMMA GoodLists ==
    ASSUME NEW c, NEW k \in Nat, NEW d \in Tables(k), Levels(c, d) \in [0 .. k - 1 -> Nat], NEW l,
           NEW adjacency, GoodLayer(c, d, l, adjacency)
    PROVE  adjacency \in Lists(k)
<1> DEFINE U == 0 .. k - 1
           C == LayerIds(Levels(c, d), l)
<1>1. DOMAIN d = U /\ C \subseteq U
  BY DEF Tables, LayerIds
<1>2. ASSUME NEW s \in U PROVE adjacency[s] \in Seq(U)
  <2> DEFINE q == adjacency[s]
             B == C \ {s}
  <2>1. q \in Seq(B)
    BY <1>1 DEF GoodLayer, IsList
  <2>2. B \subseteq U
    BY <1>1
  <2> HIDE DEF U, q, B
  <2>3. q \in Seq(U)
    BY <2>1, <2>2, SeqWidens
  <2> QED
    BY <2>3 DEF q
<1>3. adjacency = [s \in U |-> adjacency[s]]
  BY <1>1 DEF GoodLayer
<1> HIDE DEF U, C
<1>4. adjacency \in [U -> Seq(U)]
  BY <1>2, <1>3
<1> QED
  BY <1>4 DEF Lists, U

\* What a search asks of an index of k nodes.
Searchable(ix, k) ==
    /\ ix.dist \in Tables(k) /\ Count(ix.dist) = k /\ ix.entryPoint \in 0 .. k - 1
    /\ ix.maxLayer \in Nat /\ \A l \in 0 .. ix.maxLayer : ix.layers[l] \in Lists(k)

(* The way down always has a result, which is where the next layer is entered. *)
LEMMA DescendFinds ==
    ASSUME NEW ix, NEW k \in Nat, Searchable(ix, k), NEW q \in 0 .. k - 1
    PROVE  Descend(ix, q) \in Finders(k)
<1> DEFINE top == ix.maxLayer
           d == ix.dist[q]
           begin == [NewScratch(Count(ix.dist)) EXCEPT !.found = <<ix.entryPoint>>]
           Lower(i, x) == SearchLayer(ix.layers[top + 1 - i], d, <<x.found[1]>>, 1, x)
           F == [i \in 1 .. top |-> [x \in Finders(k) |-> Lower(i, x)]]
           M == Descending(ix, q)
<1>0. top \in Nat /\ d \in Distances(k) /\ \A l \in 0 .. top : ix.layers[l] \in Lists(k)
  BY RowType DEF Searchable
<1>1. \A i \in 1 .. top : \A x \in Finders(k) : Lower(i, x) \in Finders(k)
  <2> TAKE i \in 1 .. top
  <2> TAKE x \in Finders(k)
  <2> HIDE DEF top, d
  <2>1. top + 1 - i \in 0 .. top
    BY <1>0
  <2>2. ix.layers[top + 1 - i] \in Lists(k)
    BY <1>0, <2>1
  <2>3. x.found[1] \in 0 .. k - 1 /\ IsScratch(x, k)
    BY FirstFound
  <2> QED
    BY <1>0, <2>2, <2>3, SearchLayerFinds
<1>2. begin \in Finders(k)
  <2> DEFINE ids == <<ix.entryPoint>>
             new == NewScratch(k)
  <2>1. new \in Scratches(k)
    <3>1. new \in ScratchType(k)
      BY DEF NewScratch, ScratchType
    <3>2. MarksPast(new, k)
      BY NewIsScratch DEF IsScratch
    <3> QED
      BY <3>1, <3>2 DEF Scratches
  <2>2. ids \in Seq(0 .. k - 1) /\ ids # <<>>
    BY DEF Searchable
  <2>3. begin = [new EXCEPT !.found = ids]
    BY DEF Searchable
  <2> HIDE DEF new, ids, begin
  <2>4. [new EXCEPT !.found = ids] \in Scratches(k) /\ [new EXCEPT !.found = ids].found = ids
    BY <2>1, <2>2, FoundType
  <2> QED
    BY <2>2, <2>3, <2>4 DEF Finders
<1> HIDE DEF Lower
<1>3. F \in [1 .. top -> [Finders(k) -> Finders(k)]]
  BY <1>1
<1>4. \A i \in 1 .. top : \A x \in Finders(k) : F[i][x] = Lower(i, x)
  OBVIOUS
<1> HIDE DEF F, top, begin
<1>5. PICK f : Solution(top, Finders(k), begin, F, f)
  BY <1>0, <1>2, <1>3, Recursion
<1>6. f = [i \in 0 .. top |-> IF i = 0 THEN begin ELSE Lower(i, f[i - 1])]
  <2>1. f \in [0 .. top -> Finders(k)] /\ f[0] = begin /\ \A i \in 1 .. top : f[i] = F[i][f[i - 1]]
    BY <1>5 DEF Solution
  <2>2. ASSUME NEW i \in 0 .. top
        PROVE  f[i] = IF i = 0 THEN begin ELSE Lower(i, f[i - 1])
    <3>1. CASE i = 0
      BY <2>1, <3>1
    <3>2. CASE i # 0
      <4>1. i \in 1 .. top /\ f[i - 1] \in Finders(k)
        BY <1>0, <2>1, <3>2
      <4> QED
        BY <1>4, <2>1, <3>2, <4>1
    <3> QED
      BY <3>1, <3>2
  <2> QED
    BY <2>1, <2>2
<1>7. M = [i \in 0 .. top |-> IF i = 0 THEN begin ELSE Lower(i, M[i - 1])]
  BY <1>6, Zenon DEF Descending, Lower, top, begin
<1> HIDE DEF M
<1>8. \A i \in 0 .. top : M[i] = IF i = 0 THEN begin ELSE Lower(i, M[i - 1])
  BY <1>7
<1> DEFINE T == {i \in 0 .. top : M[i] \in Finders(k)}
<1>9. 0 \in T
  BY <1>0, <1>2, <1>8
<1>10. ASSUME NEW i \in 0 .. top - 1, i \in T PROVE i + 1 \in T
  <2>1. i + 1 \in 1 .. top /\ (i + 1) - 1 = i /\ i + 1 # 0 /\ i + 1 \in 0 .. top
    BY <1>0
  <2>2. M[i + 1] = Lower(i + 1, M[i])
    BY <1>8, <2>1
  <2>3. M[i + 1] \in Finders(k)
    BY <1>1, <1>10, <2>1, <2>2
  <2> QED
    BY <2>1, <2>3
<1> HIDE DEF T
<1>11. 0 .. top \subseteq T
  BY <1>0, <1>9, <1>10, Induct
<1>12. M[top] \in Finders(k)
  BY <1>0, <1>11 DEF T
<1> QED
  BY <1>12 DEF Descend, M, top

(* The first few of the nearest are fewer of the nearest.                     *)
LEMMA NearestPrefix ==
    ASSUME NEW S, IsFiniteSet(S), NEW d, NEW wide \in Nat, Cardinality(S) <= wide,
           NEW few \in 0 .. wide, Len(Nearest(d, S, wide)) = AtMost(wide, Cardinality(S))
    PROVE  SubSeq(Nearest(d, S, wide), 1, AtMost(few, Len(Nearest(d, S, wide))))
              = Nearest(d, S, few)
<1> DEFINE c == Cardinality(S)
           Place(i) == CHOOSE a \in S : Cardinality({b \in S : Better(d, b, a)}) = i - 1
           all == Nearest(d, S, wide)
           m == AtMost(few, c)
<1>1. c \in Nat /\ AtMost(wide, c) = c
  BY FS_CardinalityType DEF AtMost
<1>2. all = [i \in 1 .. AtMost(wide, c) |-> Place(i)] /\ Nearest(d, S, few) = [i \in 1 .. m |-> Place(i)]
  BY Zenon DEF Nearest
<1>3. Len(all) = c
  BY <1>1
<1> HIDE DEF all, Place, c
<1>4. m \in Nat /\ m <= c
  BY <1>1 DEF AtMost
<1>5. SubSeq(all, 1, m) = [i \in 1 .. m |-> all[i]]
  <2>1. all \in Seq({Place(i) : i \in 1 .. c})
    BY <1>1, <1>2
  <2> HIDE DEF m
  <2> QED
    BY <1>4, <2>1
<1>6. \A i \in 1 .. m : all[i] = Place(i)
  <2> HIDE DEF m
  <2> QED
    BY <1>1, <1>2, <1>4
<1> HIDE DEF m
<1>7. [i \in 1 .. m |-> all[i]] = [i \in 1 .. m |-> Place(i)]
  BY <1>6
<1> QED
  BY <1>2, <1>3, <1>5, <1>7 DEF all, m

LEMMA SoundIsSearchable ==
    ASSUME NEW ix, IsIndex(ix), Sound(ix)
    PROVE  Searchable(ix, Count(ix.dist)) /\ Count(ix.dist) \in Nat
<1> DEFINE k == Count(ix.dist)
           d == ix.dist
           c == ix.cfg
<1>1. k \in Nat /\ d \in Tables(k) /\ Levels(c, d) \in [0 .. k - 1 -> Nat]
  BY DEF IsIndex
<1>2. ix.entryPoint \in 0 .. k - 1 /\ ix.maxLayer = Top(c, d) /\ GoodFrom(c, d, ix.layers, 0)
  BY DEF Sound, Whole
<1> HIDE DEF k, d, c
<1>3. k \in Nat \ {0}
  BY <1>1, <1>2
<1>4. Top(c, d) \in Nat
  BY <1>1, <1>3, MaxLayerType DEF Top
<1>5. \A l \in 0 .. ix.maxLayer : ix.layers[l] \in Lists(k)
  BY <1>1, <1>2, GoodLists DEF GoodFrom
<1> QED
  BY <1>1, <1>2, <1>4, <1>5 DEF Searchable, k, d

LEMMA WideIsExact ==
    ASSUME NEW ix, NEW k \in Nat, Searchable(ix, k), NEW q \in 0 .. k - 1, NEW few \in 1 .. k
    PROVE  Search(ix, q, few, k) = Nearest(ix.dist[q], Reached(ix, Descend(ix, q).found[1]), few)
<1> DEFINE at == Descend(ix, q)
           e == at.found[1]
           d == ix.dist[q]
           S == Reached(ix, e)
           results == SearchLayer(ix.layers[0], d, <<e>>, k, at).found
<1>1. at \in Finders(k)
  BY DescendFinds
<1> HIDE DEF at
<1>2. e \in 0 .. k - 1 /\ IsScratch(at, k)
  BY <1>1, FirstFound
<1>3. d \in Distances(k) /\ Count(ix.dist) = k /\ ix.layers[0] \in Lists(k)
  BY RowType DEF Searchable
<1>4. Search(ix, q, few, k) = SubSeq(results, 1, AtMost(few, Len(results)))
  BY Zenon DEF Search, at
<1> HIDE DEF e, d
<1>5. results = Nearest(d, S, k) /\ S \in SUBSET (0 .. k - 1)
  BY <1>2, <1>3, WideSearchLayer
<1> HIDE DEF results, S
<1>6. IsFiniteSet(S) /\ Cardinality(S) <= k /\ S \in SUBSET Int /\ \A a \in S : d[a] \in Int
  <2>1. IsFiniteSet(S) /\ Cardinality(S) <= k /\ S \in SUBSET Int
    BY <1>5, NodesFinite
  <2>2. \A a \in S : d[a] \in Int
    BY <1>3, <1>5 DEF Distances
  <2> QED
    BY <2>1, <2>2
<1>7. Len(Nearest(d, S, k)) = AtMost(k, Cardinality(S))
  BY <1>6, NearestDistinct
<1>8. few \in 0 .. k
  OBVIOUS
<1>9. SubSeq(Nearest(d, S, k), 1, AtMost(few, Len(Nearest(d, S, k)))) = Nearest(d, S, few)
  BY <1>6, <1>7, <1>8, NearestPrefix
<1> QED
  BY <1>4, <1>5, <1>9 DEF S, d, e, at

(***************************************************************************)
(* For any vectors and configuration, a search of an index that either      *)
(* builder published always has an answer, and one as wide as the index      *)
(* returns the nearest of all nodes that layer 0 reaches from where the      *)
(* search enters it, in their order: no tie and no bound of the heaps ends   *)
(* it early, and the rounds that the model allows are enough.               *)
(***************************************************************************)
THEOREM BuiltSearchIsExact == DrawsAreNumbers /\ Spec => []WideSearchIsExact
<1> SUFFICES ASSUME DrawsAreNumbers PROVE Spec => []WideSearchIsExact
  OBVIOUS
<1>1. Init => StageInv /\ LayersInv
  BY InitStage, InitLayers
<1>2. StageInv /\ LayersInv /\ [Next]_vars => StageInv' /\ LayersInv'
  BY NextStage, NextLayers
<1>3. StageInv /\ LayersInv => WideSearchIsExact
  <2> SUFFICES ASSUME StageInv, LayersInv, idx.graphReady, NEW q \in DOMAIN idx.dist,
                      NEW few \in 1 .. Count(idx.dist)
               PROVE  Search(idx, q, few, Count(idx.dist))
                         = Nearest(idx.dist[q], Reached(idx, Descend(idx, q).found[1]), few)
    BY Zenon DEF WideSearchIsExact
  <2> DEFINE k == Count(idx.dist)
  <2>1. IsIndex(idx) /\ Sound(idx)
    BY DEF StageInv, LayersInv
  <2>2. Searchable(idx, k) /\ k \in Nat
    BY <2>1, SoundIsSearchable
  <2> HIDE DEF k
  <2>3. q \in 0 .. k - 1
    BY <2>2 DEF Searchable, Tables
  <2> QED
    BY <2>2, <2>3, WideIsExact DEF k
<1> QED
  BY <1>1, <1>2, <1>3, PTL DEF Spec

----------------------------------------------------------------------------
(* The candidates of a stage are sound.  A list never names its own node and  *)
(* is never empty: a collector adds the first other node it meets.            *)

\* A collector has left out s, and it has marked nothing that it does not hold.
Picks(sc, k, s) ==
    /\ \A i \in DOMAIN sc.found : sc.found[i] # s
    /\ sc.found = <<>> => \A id \in 0 .. k - 1 : sc.marks[id] # sc.mark

LEMMA AddPicks ==
    ASSUME NEW k \in Nat, NEW sc \in Scratches(k), NEW s, Picks(sc, k, s), NEW id \in 0 .. k - 1
    PROVE  /\ Picks(Add(sc, id, s), k, s)
           /\ sc.found # <<>> \/ id # s => Add(sc, id, s).found # <<>>
<1>1. CASE id = s \/ sc.marks[id] = sc.mark
  <2>1. Add(sc, id, s) = sc
    BY <1>1 DEF Add
  <2> QED
    BY <1>1, <2>1 DEF Picks
<1>2. CASE ~ (id = s \/ sc.marks[id] = sc.mark)
  <2> DEFINE q == sc.found
             r == Append(q, id)
  <2>1. Add(sc, id, s) = [sc EXCEPT !.marks[id] = sc.mark, !.found = Append(sc.found, id)]
    BY <1>2 DEF Add
  <2>2. q \in Seq(0 .. k - 1)
    BY DEF Scratches, ScratchType
  <2>3. Add(sc, id, s).found = r
    BY <2>1 DEF Scratches, ScratchType
  <2>4. \A i \in DOMAIN q : q[i] # s
    BY DEF Picks
  <2> HIDE DEF q
  <2>5. r # <<>> /\ \A i \in DOMAIN r : r[i] # s
    BY <1>2, <2>2, <2>4
  <2> HIDE DEF r
  <2> QED
    BY <2>3, <2>5 DEF Picks
<1> QED
  BY <1>1, <1>2

LEMMA AddAllPicks ==
    ASSUME NEW k \in Nat, NEW sc \in Scratches(k), NEW s, Picks(sc, k, s),
           NEW ids \in Seq(0 .. k - 1)
    PROVE  /\ Picks(AddAll(sc, ids, s), k, s)
           /\ sc.found # <<>> \/ (Len(ids) > 0 /\ ids[1] # s) => AddAll(sc, ids, s).found # <<>>
<1> DEFINE m == Len(ids)
           A == Adding(sc, ids, s)
           T == {i \in 0 .. m : /\ Picks(A[i], k, s)
                                /\ sc.found # <<>> \/ (i > 0 /\ ids[1] # s) => A[i].found # <<>>}
<1>0. m \in Nat /\ \A i \in 1 .. m : ids[i] \in 0 .. k - 1
  OBVIOUS
<1>1. /\ A \in [0 .. m -> Scratches(k)] /\ A[0] = sc
      /\ \A i \in 1 .. m : A[i] = Add(A[i - 1], ids[i], s)
  <2>1. Run(A, m, Scratches(k), sc)
    BY AddingIs
  <2>2. \A i \in 1 .. m : A[i] = Add(A[i - 1], ids[i], s)
    BY AddingIs
  <2> HIDE DEF A, m
  <2> QED
    BY <2>1, <2>2 DEF Run
<1> HIDE DEF A, m
<1>2. 0 \in T
  BY <1>0, <1>1
<1>3. ASSUME NEW i \in 0 .. m - 1, i \in T PROVE i + 1 \in T
  <2>1. i + 1 \in 1 .. m /\ (i + 1) - 1 = i /\ i \in 0 .. m /\ i + 1 \in 0 .. m
    BY <1>0
  <2>2. /\ A[i] \in Scratches(k) /\ Picks(A[i], k, s)
        /\ sc.found # <<>> \/ (i > 0 /\ ids[1] # s) => A[i].found # <<>>
    BY <1>1, <1>3, <2>1
  <2>3. A[i + 1] = Add(A[i], ids[i + 1], s)
    BY <1>1, <2>1
  <2>4. /\ Picks(A[i + 1], k, s)
        /\ A[i].found # <<>> \/ ids[i + 1] # s => A[i + 1].found # <<>>
    BY <1>0, <2>1, <2>2, <2>3, AddPicks
  <2>5. i = 0 \/ i > 0
    BY <2>1
  <2>6. sc.found # <<>> \/ (i + 1 > 0 /\ ids[1] # s) => A[i + 1].found # <<>>
    <3>1. CASE i = 0
      BY <2>2, <2>4, <3>1
    <3>2. CASE i > 0
      BY <2>2, <2>4, <3>2
    <3> QED
      BY <2>5, <3>1, <3>2
  <2> QED
    BY <2>1, <2>4, <2>6
<1> HIDE DEF T
<1>4. 0 .. m \subseteq T
  BY <1>0, <1>2, <1>3, Induct
<1>5. m \in T
  BY <1>0, <1>4
<1>6. /\ Picks(A[m], k, s)
      /\ sc.found # <<>> \/ (m > 0 /\ ids[1] # s) => A[m].found # <<>>
  BY <1>5, Zenon DEF T
<1> QED
  BY <1>6 DEF A, m, AddAll

(* With room for one, a collector comes back empty only if it met s alone.    *)
LEMMA AddUpToPicks ==
    ASSUME NEW k \in Nat, NEW sc \in Scratches(k), NEW s, Picks(sc, k, s),
           NEW ids \in Seq(0 .. k - 1), NEW limit \in Nat
    PROVE  /\ AddUpTo(sc, ids, s, limit) \in Scratches(k)
           /\ Picks(AddUpTo(sc, ids, s, limit), k, s)
           /\ limit > 0 =>
                 \/ AddUpTo(sc, ids, s, limit).found # <<>>
                 \/ \A i \in 1 .. Len(ids) : ids[i] = s
<1> DEFINE m == Len(ids)
           A == AddingUpTo(sc, ids, s, limit)
           T == {i \in 0 .. m :
                   /\ Picks(A[i], k, s)
                   /\ limit > 0 => A[i].found # <<>> \/ \A x \in 1 .. i : ids[x] = s}
<1>0. m \in Nat /\ \A i \in 1 .. m : ids[i] \in 0 .. k - 1
  OBVIOUS
<1>1. /\ A \in [0 .. m -> Scratches(k)] /\ A[0] = sc
      /\ \A i \in 1 .. m : A[i] = AddIfRoom(A[i - 1], ids[i], s, limit)
  <2>1. Run(A, m, Scratches(k), sc)
    BY AddingUpToIs
  <2>2. \A i \in 1 .. m : A[i] = AddIfRoom(A[i - 1], ids[i], s, limit)
    BY AddingUpToIs
  <2> HIDE DEF A, m
  <2> QED
    BY <2>1, <2>2 DEF Run
<1> HIDE DEF A, m
<1>2. 0 \in T
  BY <1>0, <1>1
<1>3. ASSUME NEW i \in 0 .. m - 1, i \in T PROVE i + 1 \in T
  <2>1. i + 1 \in 1 .. m /\ (i + 1) - 1 = i /\ i \in 0 .. m /\ i + 1 \in 0 .. m
    BY <1>0
  <2>2. /\ A[i] \in Scratches(k) /\ Picks(A[i], k, s)
        /\ limit > 0 => A[i].found # <<>> \/ \A x \in 1 .. i : ids[x] = s
    BY <1>1, <1>3, <2>1
  <2>3. A[i + 1] = AddIfRoom(A[i], ids[i + 1], s, limit)
    BY <1>1, <2>1
  <2>4. CASE Len(A[i].found) < limit
    <3>1. A[i + 1] = Add(A[i], ids[i + 1], s)
      BY <2>3, <2>4 DEF AddIfRoom
    <3>2. /\ Picks(A[i + 1], k, s)
          /\ A[i].found # <<>> \/ ids[i + 1] # s => A[i + 1].found # <<>>
      BY <1>0, <2>1, <2>2, <3>1, AddPicks
    <3>3. limit > 0 => A[i + 1].found # <<>> \/ \A x \in 1 .. i + 1 : ids[x] = s
      BY <2>1, <2>2, <3>2
    <3> QED
      BY <2>1, <3>2, <3>3
  <2>5. CASE ~ (Len(A[i].found) < limit)
    <3>1. A[i + 1] = A[i]
      BY <2>3, <2>5 DEF AddIfRoom
    <3>2. limit > 0 => A[i].found # <<>>
      <4>1. Len(<<>>) = 0
        OBVIOUS
      <4> QED
        BY <2>5, <4>1
    <3> QED
      BY <2>1, <2>2, <3>1, <3>2
  <2> QED
    BY <2>4, <2>5
<1> HIDE DEF T
<1>4. 0 .. m \subseteq T
  BY <1>0, <1>2, <1>3, Induct
<1>5. m \in T /\ m \in 0 .. m
  BY <1>0, <1>4
<1>6. /\ Picks(A[m], k, s)
      /\ limit > 0 => A[m].found # <<>> \/ \A x \in 1 .. m : ids[x] = s
  BY <1>5, Zenon DEF T
<1>7. A[m] \in Scratches(k)
  BY <1>1, <1>5
<1> QED
  BY <1>6, <1>7 DEF A, m, AddUpTo

LEMMA AddListsPicks ==
    ASSUME NEW k \in Nat, NEW sc \in Scratches(k), NEW s, Picks(sc, k, s), sc.found # <<>>,
           NEW ids \in Seq(0 .. k - 1), NEW lists \in Lists(k)
    PROVE  /\ AddLists(sc, ids, lists, s) \in Scratches(k)
           /\ Picks(AddLists(sc, ids, lists, s), k, s) /\ AddLists(sc, ids, lists, s).found # <<>>
<1> DEFINE m == Len(ids)
           A == AddingLists(sc, ids, lists, s)
           T == {i \in 0 .. m : Picks(A[i], k, s) /\ A[i].found # <<>>}
<1>0. m \in Nat /\ \A i \in 1 .. m : lists[ids[i]] \in Seq(0 .. k - 1)
  BY DEF Lists
<1>1. /\ A \in [0 .. m -> Scratches(k)] /\ A[0] = sc
      /\ \A i \in 1 .. m : A[i] = AddAll(A[i - 1], lists[ids[i]], s)
  <2>1. Run(A, m, Scratches(k), sc)
    BY AddingListsIs
  <2>2. \A i \in 1 .. m : A[i] = AddAll(A[i - 1], lists[ids[i]], s)
    BY AddingListsIs
  <2> HIDE DEF A, m
  <2> QED
    BY <2>1, <2>2 DEF Run
<1> HIDE DEF A, m
<1>2. 0 \in T
  BY <1>0, <1>1
<1>3. ASSUME NEW i \in 0 .. m - 1, i \in T PROVE i + 1 \in T
  <2>1. i + 1 \in 1 .. m /\ (i + 1) - 1 = i /\ i \in 0 .. m /\ i + 1 \in 0 .. m
    BY <1>0
  <2>2. A[i] \in Scratches(k) /\ Picks(A[i], k, s) /\ A[i].found # <<>>
    BY <1>1, <1>3, <2>1
  <2>3. A[i + 1] = AddAll(A[i], lists[ids[i + 1]], s)
    BY <1>1, <2>1
  <2>4. Picks(A[i + 1], k, s) /\ A[i + 1].found # <<>>
    BY <1>0, <2>1, <2>2, <2>3, AddAllPicks
  <2> QED
    BY <2>1, <2>4
<1> HIDE DEF T
<1>4. 0 .. m \subseteq T
  BY <1>0, <1>2, <1>3, Induct
<1>5. m \in T /\ m \in 0 .. m
  BY <1>0, <1>4
<1>6. Picks(A[m], k, s) /\ A[m].found # <<>>
  BY <1>5, Zenon DEF T
<1>7. A[m] \in Scratches(k)
  BY <1>1, <1>5
<1> QED
  BY <1>6, <1>7 DEF A, m, AddLists

LEMMA ResetPicks ==
    ASSUME NEW k \in Nat, NEW sc, IsScratch(sc, k), NEW s
    PROVE  Reset(sc) \in Scratches(k) /\ Picks(Reset(sc), k, s)
<1>1. /\ Reset(sc) \in Scratches(k) /\ Reset(sc).found = <<>>
      /\ \A id \in 0 .. k - 1 : Reset(sc).marks[id] # Reset(sc).mark
  BY ResetIs
<1>2. DOMAIN <<>> = {}
  OBVIOUS
<1> QED
  BY <1>1, <1>2 DEF Picks

(* initialApproxNeighborIDs comes back with another node.                    *)
LEMMA InitialIdsPicks ==
    ASSUME DrawsAreNumbers, NEW k \in Nat, k > 1, NEW s \in 0 .. k - 1, NEW limit \in Nat,
           limit > 0, NEW stream \in Seq(Int), NEW sc, IsScratch(sc, k)
    PROVE  LET x == InitialIds(sc, k, s, limit, stream)
           IN  x \in Scratches(k) /\ Picks(x, k, s) /\ x.found # <<>>
<1>1. PICK near, more \in Seq(0 .. k - 1) : FirstIds(k, s, limit, stream, near, more)
  <2>1. k \in Nat \ {0}
    OBVIOUS
  <2> QED
    BY <2>1, InitialIdsIs
<1> DEFINE half == AddUpTo(Reset(sc), near, s, limit \div 2)
           whole == AddUpTo(half, more, s, limit)
<1>2. InitialIds(sc, k, s, limit, stream) = whole
  BY <1>1 DEF FirstIds
<1>3. \E i \in 1 .. Len(more) : more[i] # s
  BY <1>1 DEF FirstIds
<1>4. limit \div 2 \in Nat
  OBVIOUS
<1>5. half \in Scratches(k) /\ Picks(half, k, s)
  <2>1. Reset(sc) \in Scratches(k) /\ Picks(Reset(sc), k, s)
    BY ResetPicks
  <2> QED
    BY <1>4, <2>1, AddUpToPicks
<1> HIDE DEF half
<1>6. whole \in Scratches(k) /\ Picks(whole, k, s) /\ whole.found # <<>>
  BY <1>3, <1>5, AddUpToPicks
<1> QED
  BY <1>2, <1>6

(* And so does an exchange, of lists that do.                                *)
LEMMA ExchangePicks ==
    ASSUME NEW k \in Nat, NEW s \in 0 .. k - 1, NEW lists \in Lists(k),
           Len(lists[s]) > 0, lists[s][1] # s, NEW sc, IsScratch(sc, k)
    PROVE  LET x == Exchange(sc, lists, s, k)
           IN  x \in Scratches(k) /\ Picks(x, k, s) /\ x.found # <<>>
<1> DEFINE own == lists[s]
           reverse == HeldBy(lists, s, k)
           first == AddAll(Reset(sc), own, s)
           both == AddAll(first, reverse, s)
           theirs == AddLists(both, own, lists, s)
           all == AddLists(theirs, reverse, lists, s)
<1>1. own \in Seq(0 .. k - 1) /\ reverse \in Seq(0 .. k - 1) /\ Len(own) > 0 /\ own[1] # s
  BY HeldByType DEF Lists
<1>2. Exchange(sc, lists, s, k) = all
  BY Zenon DEF Exchange
<1> HIDE DEF own, reverse
<1>3. first \in Scratches(k) /\ Picks(first, k, s) /\ first.found # <<>>
  BY <1>1, ResetPicks, AddAllType, AddAllPicks
<1> HIDE DEF first
<1>4. both \in Scratches(k) /\ Picks(both, k, s) /\ both.found # <<>>
  BY <1>1, <1>3, AddAllType, AddAllPicks
<1> HIDE DEF both
<1>5. theirs \in Scratches(k) /\ Picks(theirs, k, s) /\ theirs.found # <<>>
  BY <1>1, <1>4, AddListsPicks
<1> HIDE DEF theirs
<1>6. all \in Scratches(k) /\ Picks(all, k, s) /\ all.found # <<>>
  BY <1>1, <1>5, AddListsPicks
<1> QED
  BY <1>2, <1>6

\* A list of s that pruning can start from: other nodes, nearest first.
Sorted(q, d) == \A i, j \in 1 .. Len(q) : i < j => Better(d, q[i], q[j])

IsCandidates(q, s, d, k, bound) ==
    q \in Seq((0 .. k - 1) \ {s}) /\ Sorted(q, d) /\ Len(q) \in 1 .. bound

LEMMA NearestCandidates ==
    ASSUME NEW k \in Nat, NEW d \in Distances(k), NEW s, NEW S \in SUBSET ((0 .. k - 1) \ {s}),
           S # {}, NEW limit \in Nat, limit > 0
    PROVE  IsCandidates(Nearest(d, S, limit), s, d, k, limit)
<1> DEFINE q == Nearest(d, S, limit)
           U == (0 .. k - 1) \ {s}
<1>1. /\ S \in SUBSET (0 .. k - 1) /\ IsFiniteSet(S) /\ S \in SUBSET Int /\ Cardinality(S) \in Nat
  BY NodesFinite
<1>2. \A a \in S : d[a] \in Int
  BY DEF Distances
<1>3. q \in Seq(S) /\ Len(q) = AtMost(limit, Cardinality(S)) /\ Sorted(q, d)
  BY <1>1, <1>2, NearestRanks, NearestSorted DEF Sorted
<1>4. Cardinality(S) # 0
  BY <1>1, FS_EmptySet
<1>5. Len(q) \in 1 .. limit
  BY <1>1, <1>3, <1>4 DEF AtMost
<1> HIDE DEF q
<1>6. q \in Seq(U)
  <2>1. S \subseteq U
    OBVIOUS
  <2> HIDE DEF U
  <2> QED
    BY <1>3, <2>1, SeqWidens
<1> QED
  BY <1>3, <1>5, <1>6 DEF IsCandidates, q

(* What a collector has picked makes such a list.                            *)
LEMMA PickedCandidates ==
    ASSUME NEW k \in Nat, NEW d \in Distances(k), NEW s, NEW sc \in Scratches(k), Picks(sc, k, s),
           sc.found # <<>>, NEW limit \in Nat, limit > 0
    PROVE  IsCandidates(Nearest(d, ToSet(sc.found), limit), s, d, k, limit)
<1> DEFINE q == sc.found
<1>1. q \in Seq(0 .. k - 1) /\ q # <<>> /\ \A i \in DOMAIN q : q[i] # s
  BY DEF Scratches, ScratchType, Picks
<1> HIDE DEF q
<1>2. DOMAIN q = 1 .. Len(q) /\ Len(q) \in Nat /\ Len(q) # 0
  BY <1>1
<1>3. ToSet(q) = {q[i] : i \in DOMAIN q}
  BY DEF ToSet
<1>4. ToSet(q) \in SUBSET ((0 .. k - 1) \ {s}) /\ ToSet(q) # {}
  BY <1>1, <1>2, <1>3
<1> QED
  BY <1>4, NearestCandidates DEF q

(* candidatesFromResults: of sorted results among which there is another node. *)
LEMMA ResultsCandidates ==
    ASSUME NEW k \in Nat, NEW s, NEW d, NEW results \in Seq(0 .. k - 1), Sorted(results, d),
           NEW x \in 1 .. Len(results), results[x] # s, NEW limit \in Nat, limit > 0
    PROVE  IsCandidates(FromResults(s, results, limit), s, d, k, limit)
<1> DEFINE m == Len(results)
           N == 0 .. k - 1
           U == N \ {s}
           M == TakingResults(s, results, limit)
           From(q, i) == \A y \in 1 .. Len(q) : \E j \in 1 .. i : q[y] = results[j]
           Good(i) == /\ M[i] \in Seq(U) /\ Sorted(M[i], d) /\ Len(M[i]) <= limit
                      /\ From(M[i], i) /\ (x <= i => M[i] # <<>>)
           T == {i \in 0 .. m : Good(i)}
<1>0. m \in Nat /\ x \in 1 .. m /\ \A i \in 1 .. m : results[i] \in N
  OBVIOUS
<1>1. /\ M \in [0 .. m -> Seq(N)] /\ M[0] = <<>>
      /\ \A i \in 1 .. m : M[i] = TakeResult(s, M[i - 1], results[i], limit)
  <2>1. Run(M, m, Seq(N), <<>>)
    BY TakingResultsIs
  <2>2. \A i \in 1 .. m : M[i] = TakeResult(s, M[i - 1], results[i], limit)
    BY TakingResultsIs
  <2> HIDE DEF M, m, N
  <2> QED
    BY <2>1, <2>2 DEF Run
<1>2. \A i, j \in 1 .. m : i < j => Better(d, results[i], results[j])
  BY DEF Sorted
<1> HIDE DEF M, m, N
<1>3. 0 \in T
  <2>1. Len(<<>>) = 0 /\ <<>> \in Seq(U)
    OBVIOUS
  <2>2. Good(0)
    BY <1>0, <1>1, <2>1 DEF Sorted
  <2> HIDE DEF Good
  <2> QED
    BY <1>0, <2>2
<1>4. ASSUME NEW i \in 0 .. m - 1, i \in T PROVE i + 1 \in T
  <2> DEFINE q == M[i]
             e == results[i + 1]
             r == Append(q, e)
  <2>0. Good(i)
    BY <1>4
  <2>1. i + 1 \in 1 .. m /\ (i + 1) - 1 = i /\ i \in 0 .. m /\ i + 1 \in 0 .. m
    BY <1>0
  <2>2. M[i + 1] = TakeResult(s, q, e, limit) /\ e \in N
    BY <1>0, <1>1, <2>1
  <2>3. /\ q \in Seq(U) /\ Sorted(q, d) /\ Len(q) <= limit
        /\ From(q, i) /\ (x <= i => q # <<>>)
    BY <2>0
  <2>4. Len(q) \in Nat /\ DOMAIN q = 1 .. Len(q)
    BY <2>3
  <2>5. CASE e = s \/ Len(q) >= limit
    <3>1. M[i + 1] = q
      BY <2>2, <2>5 DEF TakeResult
    <3>2. x <= i + 1 => q # <<>>
      <4>1. x <= i + 1 => x <= i \/ x = i + 1
        BY <1>0, <2>1
      <4>2. x = i + 1 => Len(q) >= limit
        BY <2>5
      <4>3. Len(<<>>) = 0
        OBVIOUS
      <4> QED
        BY <2>3, <4>1, <4>2, <4>3
    <3>3. From(q, i + 1)
      BY <2>1, <2>3
    <3> HIDE DEF q, From
    <3>4. Good(i + 1)
      BY <2>3, <3>1, <3>2, <3>3
    <3> HIDE DEF Good
    <3> QED
      BY <2>1, <3>4
  <2>6. CASE e # s /\ Len(q) < limit
    <3>1. M[i + 1] = r
      BY <2>2, <2>4, <2>6 DEF TakeResult
    <3>2. e \in U
      BY <2>2, <2>6
    <3>3. ASSUME NEW y \in 1 .. Len(q) PROVE Better(d, q[y], e)
      <4>1. PICK j \in 1 .. i : q[y] = results[j]
        BY <2>3
      <4>2. j \in 1 .. m /\ j < i + 1
        BY <1>0, <2>1
      <4> QED
        BY <1>2, <2>1, <4>1, <4>2
    <3>4. \A y \in 1 .. Len(q) : \E j \in 1 .. i : q[y] = results[j]
      BY <2>3
    <3>5. e = results[i + 1]
      OBVIOUS
    <3> HIDE DEF q, e, From, U
    <3>6. /\ r \in Seq(U) /\ Len(r) = Len(q) + 1 /\ r[Len(q) + 1] = e
          /\ \A y \in 1 .. Len(q) : r[y] = q[y]
      BY <2>3, <3>2
    <3> HIDE DEF r
    <3>7. Sorted(r, d)
      <4> SUFFICES ASSUME NEW a \in 1 .. Len(q) + 1, NEW b \in 1 .. Len(q) + 1, a < b
                   PROVE  Better(d, r[a], r[b])
        BY <3>6 DEF Sorted
      <4>1. a \in 1 .. Len(q) /\ r[a] = q[a]
        BY <2>4, <3>6
      <4>2. CASE b = Len(q) + 1
        BY <3>3, <3>6, <4>1, <4>2
      <4>3. CASE b \in 1 .. Len(q)
        BY <2>3, <3>6, <4>1, <4>3 DEF Sorted
      <4> QED
        BY <2>4, <4>2, <4>3
    <3>8. From(r, i + 1)
      <4> SUFFICES ASSUME NEW y \in 1 .. Len(q) + 1
                   PROVE  \E j \in 1 .. i + 1 : r[y] = results[j]
        BY <3>6 DEF From
      <4>1. CASE y = Len(q) + 1
        BY <2>1, <3>5, <3>6, <4>1
      <4>2. CASE y \in 1 .. Len(q)
        <5>1. PICK j \in 1 .. i : q[y] = results[j]
          BY <3>4, <4>2
        <5>2. j \in 1 .. i + 1 /\ r[y] = results[j]
          BY <2>1, <3>6, <4>2, <5>1
        <5> QED
          BY <5>2
      <4> QED
        BY <2>4, <4>1, <4>2
    <3>9. Len(r) <= limit /\ r # <<>>
      BY <2>4, <2>6, <3>6
    <3>10. Good(i + 1)
      BY <3>1, <3>6, <3>7, <3>8, <3>9
    <3> HIDE DEF Good
    <3> QED
      BY <2>1, <3>10
  <2> QED
    BY <2>4, <2>5, <2>6
<1> HIDE DEF T
<1>5. 0 .. m \subseteq T
  BY <1>0, <1>3, <1>4, Induct
<1>6. m \in T
  BY <1>0, <1>5
<1>7. Good(m)
  BY <1>6, Zenon DEF T
<1>8. M[m] \in Seq(U) /\ Sorted(M[m], d) /\ Len(M[m]) <= limit /\ M[m] # <<>>
  BY <1>0, <1>7
<1>9. Len(M[m]) \in 1 .. limit
  <2> DEFINE q == M[m]
  <2>1. q \in Seq(U) /\ q # <<>> /\ Len(q) <= limit
    BY <1>8
  <2> HIDE DEF q, U
  <2> QED
    BY <2>1 DEF q
<1> QED
  BY <1>8, <1>9 DEF IsCandidates, FromResults, M, m, N

\* A list with a node other than s.
HasOther(q, s) == \E i \in 1 .. Len(q) : q[i] # s

(* The nearest candidate is never pruned.                                    *)
LEMMA PruneSome ==
    ASSUME NEW mode, NEW k \in Nat, NEW dist \in Tables(k), NEW s \in 0 .. k - 1,
           NEW candidates \in Seq(0 .. k - 1), HasOther(candidates, s), NEW bound \in Nat, bound > 0
    PROVE  /\ Prune(mode, dist, s, candidates, bound) \in Seq((0 .. k - 1) \ {s})
           /\ HasOther(Prune(mode, dist, s, candidates, bound), s)
<1> DEFINE sorted == Normalized(dist, s, candidates)
           m == Len(sorted)
           U == (0 .. k - 1) \ {s}
           M == Pruning(mode, dist, s, sorted, bound)
           T == {i \in 0 .. m : i = 0 \/ M[i] # <<>>}
<1>1. PICK x \in 1 .. Len(candidates) : candidates[x] # s
  BY DEF HasOther
<1>2. sorted \in Seq(U) /\ m > 0
  <2> DEFINE S == ToSet(candidates) \ {s}
  <2>1. ToSet(candidates) = {candidates[i] : i \in DOMAIN candidates}
    BY DEF ToSet
  <2>2. x \in DOMAIN candidates /\ Len(candidates) \in Nat /\ Len(candidates) > 0
    OBVIOUS
  <2>3. candidates[x] \in S
    BY <1>1, <2>1, <2>2
  <2>4. S \in SUBSET U
    BY ToSetType
  <2>5. dist[s] \in Distances(k)
    BY RowType
  <2> HIDE DEF S
  <2>6. IsCandidates(Nearest(dist[s], S, Len(candidates)), s, dist[s], k, Len(candidates))
    BY <2>2, <2>3, <2>4, <2>5, NearestCandidates
  <2> QED
    BY <2>6 DEF IsCandidates, Normalized, S
<1>3. Prune(mode, dist, s, candidates, bound) = M[m]
  BY DEF Prune
<1> HIDE DEF sorted, U
<1>4. /\ Run(M, m, Seq(U), <<>>)
      /\ \A i \in 1 .. m : M[i] = Keep(mode, dist, s, M[i - 1], sorted[i], bound)
  BY <1>2, PruningIs
<1>5. m \in Nat
  BY <1>2
<1> HIDE DEF M, m
<1>6. M \in [0 .. m -> Seq(U)] /\ M[0] = <<>>
  BY <1>4 DEF Run
<1>7. 0 \in T
  BY <1>5
<1>8. ASSUME NEW i \in 0 .. m - 1, i \in T PROVE i + 1 \in T
  <2> DEFINE q == M[i]
             e == sorted[i + 1]
  <2>1. i + 1 \in 1 .. m /\ (i + 1) - 1 = i /\ i \in 0 .. m /\ i + 1 \in 0 .. m
    BY <1>5
  <2>2. M[i + 1] = Keep(mode, dist, s, q, e, bound) /\ q \in Seq(U) /\ e \in U
    <3>1. M[i + 1] = Keep(mode, dist, s, q, e, bound) /\ q \in Seq(U)
      BY <1>4, <1>6, <2>1
    <3>2. e \in U
      BY <1>2, <2>1 DEF m
    <3> QED
      BY <3>1, <3>2
  <2>3. i = 0 => q = <<>>
    BY <1>6
  <2>4. i = 0 \/ q # <<>>
    BY <1>8
  <2> HIDE DEF q, e
  <2>5. Append(q, e) # <<>>
    <3>1. Len(Append(q, e)) = Len(q) + 1 /\ Len(q) \in Nat /\ Len(<<>>) = 0
      BY <2>2
    <3> QED
      BY <3>1
  <2>6. CASE q = <<>>
    <3>1. Len(q) = 0 /\ DOMAIN q = {}
      BY <2>6
    <3>2. ~ (Len(q) >= bound)
      BY <3>1
    <3>3. M[i + 1] = Append(q, e)
      BY <2>2, <3>1, <3>2 DEF Keep
    <3> QED
      BY <2>1, <2>5, <3>3
  <2>7. CASE q # <<>>
    <3>1. M[i + 1] \in {q, Append(q, e)}
      BY <2>2 DEF Keep
    <3> QED
      BY <2>1, <2>5, <2>7, <3>1
  <2> QED
    BY <2>6, <2>7
<1> HIDE DEF T
<1>9. 0 .. m \subseteq T
  BY <1>5, <1>7, <1>8, Induct
<1>10. m \in T /\ m \in 0 .. m
  BY <1>5, <1>9
<1>11. M[m] # <<>> /\ M[m] \in Seq(U)
  <2>1. m # 0
    BY <1>2, <1>5 DEF m
  <2> QED
    BY <1>6, <1>10, <2>1 DEF T
<1> DEFINE q == M[m]
<1>12. q \in Seq(U) /\ q # <<>>
  BY <1>11
<1> HIDE DEF q
<1>13. 1 \in 1 .. Len(q) /\ q[1] \in U
  BY <1>12
<1>14. HasOther(q, s)
  BY <1>13 DEF HasOther, U
<1> QED
  BY <1>3, <1>12, <1>14 DEF q, U

(* Merging adds to the lists.                                                *)
LEMMA MergeSome ==
    ASSUME NEW k \in Nat, NEW forward \in Lists(k), NEW u \in 0 .. k - 1, HasOther(forward[u], u)
    PROVE  HasOther(MergeReverse(forward, k)[u], u)
<1> DEFINE Back(v, sources) == InOrder({s \in sources : v \in ToSet(forward[s])})
           N == 0 .. k - 1
           p == Back(u, 0 .. u - 1)
           q == forward[u]
           r == Back(u, u .. k - 1)
<1>1. ASSUME NEW sources \in SUBSET N PROVE Back(u, sources) \in Seq(N)
  <2>1. {s \in sources : u \in ToSet(forward[s])} \in SUBSET N
    OBVIOUS
  <2> QED
    BY <2>1, InOrderNodes
<1>2. 0 .. u - 1 \in SUBSET N /\ u .. k - 1 \in SUBSET N
  OBVIOUS
<1>3. p \in Seq(N) /\ r \in Seq(N)
  <2> HIDE DEF Back
  <2> QED
    BY <1>1, <1>2
<1>4. q \in Seq(N) /\ HasOther(q, u)
  BY DEF Lists
<1>5. MergeReverse(forward, k)[u] = p \o q \o r
  BY DEF MergeReverse
<1> HIDE DEF p, q, r, N
<1>6. PICK i \in 1 .. Len(q) : q[i] # u
  BY <1>4 DEF HasOther
<1>7. /\ p \o q \in Seq(N) /\ Len(p \o q) = Len(p) + Len(q)
      /\ Len(p) + i \in 1 .. Len(p) + Len(q) /\ (p \o q)[Len(p) + i] = q[i]
  BY <1>3, <1>4, <1>6
<1> DEFINE a == p \o q
<1> HIDE DEF a
<1>8. /\ a \in Seq(N) /\ Len(p) + i \in 1 .. Len(a) /\ a[Len(p) + i] = q[i]
  BY <1>7 DEF a
<1>9. Len(p) + i \in 1 .. Len(a \o r) /\ (a \o r)[Len(p) + i] = q[i]
  BY <1>3, <1>8
<1>10. HasOther(a \o r, u)
  BY <1>6, <1>9 DEF HasOther
<1> QED
  BY <1>5, <1>10 DEF a

\* A search from s that has another result: it visits s no more.
Fruitful(st, s) == st.sc.marks[s] = st.sc.mark /\ \E x \in st.res : x # s

LEMMA VisitFruitful ==
    ASSUME NEW k \in Nat, NEW d \in Distances(k), NEW ef, NEW st \in Searches(k),
           NEW s \in 0 .. k - 1, NEW id
    PROVE  /\ Fruitful(st, s) => Fruitful(Visit(d, ef, st, id), s)
           /\ (/\ st.sc.marks[s] = st.sc.mark /\ Cardinality(st.res) < ef
               /\ id \in 0 .. k - 1 /\ id # s /\ st.sc.marks[id] # st.sc.mark)
              => Fruitful(Visit(d, ef, st, id), s)
<1>1. CASE id \notin 0 .. k - 1 \/ st.sc.marks[id] = st.sc.mark
  BY <1>1, VisitIs
<1>2. CASE ~ (id \notin 0 .. k - 1 \/ st.sc.marks[id] = st.sc.mark)
  <2> DEFINE r == Visit(d, ef, st, id)
  <2>1. r = [sc |-> Marked(st.sc, id), cand |-> Candidates(d, ef, st, id),
             res |-> Results(d, ef, st, id)]
    BY <1>2, VisitIs
  <2>2. r.sc = Marked(st.sc, id) /\ r.res = Results(d, ef, st, id)
    BY <2>1
  <2>3. st.sc.marks[s] = st.sc.mark => id # s /\ r.sc.marks[s] = r.sc.mark
    BY <1>2, <2>2 DEF Searches, Scratches, ScratchType, Marked
  <2>4. r.res = st.res \/ id \in r.res
    BY <2>2 DEF Results
  <2>5. Cardinality(st.res) < ef => id \in r.res
    BY <2>2 DEF Results
  <2> HIDE DEF r
  <2> QED
    BY <2>3, <2>4, <2>5 DEF Fruitful, r
<1> QED
  BY <1>1, <1>2

LEMMA VisitAllFruitful ==
    ASSUME NEW k \in Nat, NEW d \in Distances(k), NEW ef, NEW st \in Searches(k),
           NEW s \in 0 .. k - 1, NEW ids \in Seq(0 .. k - 1),
           Fruitful(st, s) \/ (Len(ids) > 0 /\ Fruitful(Visit(d, ef, st, ids[1]), s))
    PROVE  Fruitful(VisitAll(d, ef, st, ids), s)
<1> DEFINE m == Len(ids)
           A == Visiting(d, ef, st, ids)
           T == {i \in 0 .. m : i > 0 \/ Fruitful(st, s) => Fruitful(A[i], s)}
<1>0. m \in Nat
  OBVIOUS
<1>1. /\ A \in [0 .. m -> Searches(k)] /\ A[0] = st
      /\ \A i \in 1 .. m : A[i] = Visit(d, ef, A[i - 1], ids[i])
  <2>1. Run(A, m, Searches(k), st)
    BY VisitingIs
  <2>2. \A i \in 1 .. m : A[i] = Visit(d, ef, A[i - 1], ids[i])
    BY VisitingIs
  <2> HIDE DEF A, m
  <2> QED
    BY <2>1, <2>2 DEF Run
<1>2. Fruitful(st, s) \/ (m > 0 /\ Fruitful(Visit(d, ef, st, ids[1]), s))
  OBVIOUS
<1> HIDE DEF A, m
<1>3. 0 \in T
  BY <1>0, <1>1
<1>4. ASSUME NEW i \in 0 .. m - 1, i \in T PROVE i + 1 \in T
  <2>1. i + 1 \in 1 .. m /\ (i + 1) - 1 = i /\ i \in 0 .. m /\ i + 1 \in 0 .. m
    BY <1>0
  <2>2. A[i] \in Searches(k) /\ (i > 0 \/ Fruitful(st, s) => Fruitful(A[i], s))
    BY <1>1, <1>4, <2>1
  <2>3. A[i + 1] = Visit(d, ef, A[i], ids[i + 1])
    BY <1>1, <2>1
  <2>4. Fruitful(A[i + 1], s)
    <3>1. CASE Fruitful(A[i], s)
      BY <2>2, <2>3, <3>1, VisitFruitful
    <3>2. CASE ~ Fruitful(A[i], s)
      <4>1. i = 0 /\ ~ Fruitful(st, s)
        BY <2>1, <2>2, <3>2
      <4> QED
        BY <1>1, <1>2, <2>3, <4>1
    <3> QED
      BY <3>1, <3>2
  <2> QED
    BY <2>1, <2>4
<1> HIDE DEF T
<1>5. 0 .. m \subseteq T
  BY <1>0, <1>3, <1>4, Induct
<1>6. m \in T
  BY <1>0, <1>5
<1>7. Fruitful(A[m], s)
  <2>1. m > 0 \/ Fruitful(st, s)
    BY <1>2
  <2> QED
    BY <1>6, <2>1 DEF T
<1> QED
  BY <1>7 DEF A, m, VisitAll

LEMMA HopFruitful ==
    ASSUME NEW k \in Nat, NEW d \in Distances(k), NEW ef, NEW adjacency \in Lists(k),
           NEW s \in 0 .. k - 1, NEW st \in Searches(k), Fruitful(st, s)
    PROVE  Fruitful(Hop(adjacency, d, ef, st), s)
<1>1. CASE st.cand = {}
  BY <1>1, HopIs
<1>2. CASE st.cand # {} /\ Over(d, st)
  <2>1. Hop(adjacency, d, ef, st) = [st EXCEPT !.cand = {}]
    BY <1>2, HopIs
  <2>2. [st EXCEPT !.cand = {}].res = st.res /\ [st EXCEPT !.cand = {}].sc = st.sc
    BY DEF Searches
  <2> QED
    BY <2>1, <2>2 DEF Fruitful
<1>3. CASE st.cand # {} /\ ~ Over(d, st)
  <2>1. Hop(adjacency, d, ef, st) = VisitAll(d, ef, Taken(d, st), adjacency[Best(d, st.cand)])
    BY <1>3, HopIs
  <2>2. Taken(d, st) \in Searches(k) /\ adjacency[Best(d, st.cand)] \in Seq(0 .. k - 1)
    BY <1>3, TakenType
  <2>3. Taken(d, st).res = st.res /\ Taken(d, st).sc = st.sc
    BY DEF Taken, Searches
  <2>4. Fruitful(Taken(d, st), s)
    BY <2>3 DEF Fruitful
  <2> QED
    BY <2>1, <2>2, <2>4, VisitAllFruitful
<1> QED
  BY <1>1, <1>2, <1>3

LEMMA SearchingFruitful ==
    ASSUME NEW k \in Nat, NEW d \in Distances(k), NEW ef, NEW adjacency \in Lists(k),
           NEW s \in 0 .. k - 1, NEW begin \in Searches(k),
           Fruitful(Hop(adjacency, d, ef, begin), s)
    PROVE  /\ Searching(adjacency, d, ef, begin)[Count(d)] \in Searches(k)
           /\ Fruitful(Searching(adjacency, d, ef, begin)[Count(d)], s)
<1> DEFINE m == Count(d)
           A == Searching(adjacency, d, ef, begin)
           T == {i \in 0 .. m : i > 0 => Fruitful(A[i], s)}
<1>0. m \in Nat /\ m > 0
  <2>1. m = k
    BY CountOf
  <2> HIDE DEF m
  <2> QED
    BY <2>1
<1>1. /\ A \in [0 .. m -> Searches(k)] /\ A[0] = begin
      /\ \A i \in 1 .. m : A[i] = Hop(adjacency, d, ef, A[i - 1])
  <2>1. Run(A, m, Searches(k), begin)
    BY SearchingIs
  <2>2. \A i \in 1 .. m : A[i] = Hop(adjacency, d, ef, A[i - 1])
    BY SearchingIs
  <2> HIDE DEF A, m
  <2> QED
    BY <2>1, <2>2 DEF Run
<1> HIDE DEF A, m
<1>2. 0 \in T
  BY <1>0
<1>3. ASSUME NEW i \in 0 .. m - 1, i \in T PROVE i + 1 \in T
  <2>1. i + 1 \in 1 .. m /\ (i + 1) - 1 = i /\ i \in 0 .. m /\ i + 1 \in 0 .. m
    BY <1>0
  <2>2. A[i] \in Searches(k) /\ (i > 0 => Fruitful(A[i], s))
    BY <1>1, <1>3, <2>1
  <2>3. A[i + 1] = Hop(adjacency, d, ef, A[i])
    BY <1>1, <2>1
  <2>4. CASE i = 0
    <3>1. Fruitful(A[i + 1], s)
      BY <1>1, <2>3, <2>4
    <3> QED
      BY <2>1, <3>1
  <2>5. CASE i > 0
    <3>1. Fruitful(A[i + 1], s)
      BY <2>2, <2>3, <2>5, HopFruitful
    <3> QED
      BY <2>1, <3>1
  <2> QED
    BY <2>1, <2>4, <2>5
<1> HIDE DEF T
<1>4. 0 .. m \subseteq T
  BY <1>0, <1>2, <1>3, Induct
<1>5. m \in T /\ m \in 0 .. m
  BY <1>0, <1>4
<1>6. Fruitful(A[m], s) /\ A[m] \in Searches(k)
  BY <1>0, <1>1, <1>5 DEF T
<1> QED
  BY <1>6 DEF A, m

(* Of two results that a list keeps one is not s.                            *)
LEMMA NearestOther ==
    ASSUME NEW k \in Nat, NEW d \in Distances(k), NEW s, NEW S \in SUBSET (0 .. k - 1),
           NEW y \in S, y # s, NEW limit \in Nat, limit > 1
    PROVE  LET q == Nearest(d, S, limit)
           IN  q \in Seq(0 .. k - 1) /\ Sorted(q, d) /\ HasOther(q, s)
<1> DEFINE q == Nearest(d, S, limit)
<1>1. IsFiniteSet(S) /\ S \in SUBSET Int /\ Cardinality(S) \in Nat
  BY NodesFinite
<1>2. \A a \in S : d[a] \in Int
  BY DEF Distances
<1>3. q \in Seq(S) /\ Len(q) = AtMost(limit, Cardinality(S)) /\ Sorted(q, d)
  BY <1>1, <1>2, NearestRanks, NearestSorted DEF Sorted
<1>4. IsInjective(q)
  BY <1>1, <1>2, NearestDistinct
<1>5. q \in Seq(0 .. k - 1)
  BY NearestNodes
<1> HIDE DEF q
<1>6. Cardinality(S) # 0
  BY <1>1, FS_EmptySet
<1>7. Len(q) >= 1 /\ 1 \in 1 .. Len(q) /\ q[1] \in S
  <2>1. Len(q) >= 1
    BY <1>1, <1>3, <1>6 DEF AtMost
  <2> QED
    BY <1>3, <2>1
<1>8. HasOther(q, s)
  <2>1. CASE q[1] # s
    BY <1>7, <2>1 DEF HasOther
  <2>2. CASE q[1] = s
    <3>1. Cardinality(S) >= 2
      <4>1. IsFiniteSet(S \ {y}) /\ Cardinality(S \ {y}) = Cardinality(S) - 1
        BY <1>1, FS_RemoveElement
      <4>2. s \in S \ {y}
        BY <1>7, <2>2
      <4>3. Cardinality(S \ {y}) # 0 /\ Cardinality(S \ {y}) \in Nat
        BY <4>1, <4>2, FS_EmptySet, FS_CardinalityType
      <4> QED
        BY <1>1, <4>1, <4>3
    <3>2. Len(q) >= 2
      BY <1>1, <1>3, <3>1 DEF AtMost
    <3>3. 1 \in DOMAIN q /\ 2 \in DOMAIN q /\ 2 \in 1 .. Len(q)
      BY <1>3, <3>2
    <3>4. q[2] # s
      BY <1>4, <2>2, <3>3 DEF IsInjective
    <3> QED
      BY <3>3, <3>4 DEF HasOther
  <2> QED
    BY <2>1, <2>2
<1> QED
  BY <1>3, <1>5, <1>8 DEF q

(* A search two wide that begins with a node finds another one, if the node's  *)
(* list begins with one.                                                     *)
LEMMA SearchLayerFruitful ==
    ASSUME NEW k \in Nat, NEW d \in Distances(k), NEW ef \in Nat, ef > 1, NEW adjacency \in Lists(k),
           NEW s \in 0 .. k - 1, Len(adjacency[s]) > 0, adjacency[s][1] # s,
           NEW sc, IsScratch(sc, k)
    PROVE  LET q == SearchLayer(adjacency, d, <<s>>, ef, sc).found
           IN  q \in Seq(0 .. k - 1) /\ Sorted(q, d) /\ HasOther(q, s)
<1> DEFINE ids == <<s>>
           blank == [sc |-> Reset(sc), cand |-> {}, res |-> {}]
           begin == VisitAll(d, ef, blank, ids)
           end == Searching(adjacency, d, ef, begin)[Count(d)]
           q == Nearest(d, end.res, ef)
<1>1. Reset(sc) \in Scratches(k) /\ \A id \in 0 .. k - 1 : Reset(sc).marks[id] # Reset(sc).mark
  BY ResetIs
<1>2. /\ blank \in Searches(k) /\ blank.res = {} /\ blank.cand = {} /\ blank.sc = Reset(sc)
      /\ ~ (s \notin 0 .. k - 1 \/ blank.sc.marks[s] = blank.sc.mark)
  BY <1>1 DEF Searches
<1>3. ids \in Seq(0 .. k - 1) /\ Len(ids) = 1 /\ ids[1] = s
  OBVIOUS
<1> HIDE DEF blank, ids
<1>4. begin \in Searches(k)
  BY <1>2, <1>3, VisitAllType
<1>5. begin = Visit(d, ef, blank, s)
  <2> DEFINE A == Visiting(d, ef, blank, ids)
  <2>0. blank \in Searches(k) /\ ids \in Seq(0 .. k - 1)
    BY <1>2, <1>3
  <2>1. Run(A, Len(ids), Searches(k), blank)
    BY <2>0, VisitingIs
  <2>2. \A i \in 1 .. Len(ids) : A[i] = Visit(d, ef, A[i - 1], ids[i])
    BY <2>0, VisitingIs
  <2> HIDE DEF A
  <2>3. A[1] = Visit(d, ef, A[0], ids[1])
    BY <1>3, <2>2
  <2> QED
    BY <1>3, <2>1, <2>3 DEF VisitAll, A, Run
<1>6. begin.sc = Marked(Reset(sc), s) /\ begin.cand = {s} /\ begin.res = {s}
  <2>1. begin = [sc |-> Marked(blank.sc, s), cand |-> Candidates(d, ef, blank, s),
                 res |-> Results(d, ef, blank, s)]
    BY <1>2, <1>5, VisitIs
  <2>2. Cardinality(blank.res) = 0
    BY <1>2, FS_EmptySet
  <2>3. Results(d, ef, blank, s) = {s} /\ Candidates(d, ef, blank, s) = {s}
    BY <1>2, <2>2 DEF Results, Candidates
  <2> QED
    BY <1>2, <2>1, <2>3
<1> HIDE DEF begin
<1>7. Fruitful(Hop(adjacency, d, ef, begin), s)
  <2> DEFINE st == Taken(d, begin)
             list == adjacency[s]
             y == list[1]
  <2>1. Best(d, begin.cand) = s /\ Worst(d, begin.res) = s
    <3>1. \A b \in {s} : ~ Better(d, b, s)
      BY DEF Better, Distances
    <3>2. Best(d, {s}) \in {s} /\ Worst(d, {s}) \in {s}
      BY <3>1 DEF Best, Worst
    <3> QED
      BY <1>6, <3>2
  <2>2. begin.cand # {} /\ ~ Over(d, begin)
    <3>1. d[s] \in Nat
      BY DEF Distances
    <3> QED
      BY <1>6, <2>1, <3>1 DEF Over
  <2>3. Hop(adjacency, d, ef, begin) = VisitAll(d, ef, st, list)
    BY <2>1, <2>2, HopIs
  <2>4. st \in Searches(k) /\ list \in Seq(0 .. k - 1)
    BY <1>4, <2>1, <2>2, TakenType
  <2>5. st.res = {s} /\ st.sc = Marked(Reset(sc), s)
    BY <1>4, <1>6 DEF Taken, Searches
  <2>6. y \in 0 .. k - 1 /\ y # s
    BY <2>4
  <2> HIDE DEF st, y
  <2>7. st.sc.marks[s] = st.sc.mark /\ st.sc.marks[y] # st.sc.mark
    BY <1>1, <2>5, <2>6 DEF Marked, Scratches, ScratchType
  <2>8. Cardinality(st.res) < ef
    BY <2>5, FS_Singleton
  <2>9. Fruitful(Visit(d, ef, st, y), s)
    BY <2>4, <2>6, <2>7, <2>8, VisitFruitful
  <2> QED
    BY <2>3, <2>4, <2>9, VisitAllFruitful DEF y
<1>8. end \in Searches(k) /\ Fruitful(end, s)
  BY <1>4, <1>7, SearchingFruitful
<1>9. SearchLayer(adjacency, d, ids, ef, sc) = [end.sc EXCEPT !.found = q]
  BY Zenon DEF SearchLayer, begin, blank
<1> HIDE DEF end
<1>10. end.sc \in Scratches(k) /\ end.res \in SUBSET (0 .. k - 1)
  BY <1>8 DEF Searches
<1>11. PICK y \in end.res : y # s
  BY <1>8 DEF Fruitful
<1>12. q \in Seq(0 .. k - 1) /\ Sorted(q, d) /\ HasOther(q, s)
  BY <1>10, <1>11, NearestOther
<1> HIDE DEF q
<1>13. [end.sc EXCEPT !.found = q].found = q
  BY <1>10, <1>12, FoundType
<1> QED
  BY <1>9, <1>12, <1>13 DEF ids

\* Lists of candidates, and lists of other nodes, for the nodes of a layer.
CandidateLists(j, lists, bound) ==
    \A s \in 0 .. Size(j) - 1 : IsCandidates(lists[s], s, j.local[s], Size(j), bound)

OtherLists(j, lists) ==
    \A s \in 0 .. Size(j) - 1 :
       lists[s] \in Seq((0 .. Size(j) - 1) \ {s}) /\ HasOther(lists[s], s)

\* What a stage is given, past the first: sorted candidates, except between the
\* prunings and the search of a refinement.
IsFed(j) ==
    /\ Size(j) >= 3
    /\ j.stage \in {"exchange", "acquire"} =>
          CandidateLists(j, j.input, InitialK(j.cfg, Size(j)))
    /\ j.stage \in {"estimate", "alpha forward", "rng forward"} =>
          CandidateLists(j, j.input, CandidateK(j.cfg, Size(j)))
    /\ j.stage = "alpha back" => \A s \in 0 .. Size(j) - 1 : HasOther(j.input[s], s)
    /\ j.stage = "refresh" => OtherLists(j, j.input)

\* The searches of construction are at least two wide.
IsWide(c) == c.ConstructionL > 1

LEMMA FirstOther ==
    ASSUME NEW S, NEW s, NEW q \in Seq(S \ {s}), Len(q) > 0
    PROVE  q[1] \in S /\ q[1] # s /\ 1 \in 1 .. Len(q) /\ HasOther(q, s)
<1>1. 1 \in 1 .. Len(q) /\ q[1] \in S \ {s}
  OBVIOUS
<1> QED
  BY <1>1 DEF HasOther

LEMMA CandidatesOther ==
    ASSUME NEW q, NEW s, NEW d, NEW k, NEW bound \in Nat, IsCandidates(q, s, d, k, bound)
    PROVE  q \in Seq((0 .. k - 1) \ {s}) /\ Len(q) > 0 /\ HasOther(q, s)
<1> DEFINE N == 0 .. k - 1
<1>1. q \in Seq(N \ {s}) /\ Len(q) \in 1 .. bound
  BY DEF IsCandidates
<1>2. Len(q) > 0
  BY <1>1
<1> HIDE DEF N
<1>3. HasOther(q, s)
  BY <1>1, <1>2, FirstOther
<1> QED
  BY <1>1, <1>2, <1>3 DEF N

LEMMA DegreePositive ==
    ASSUME NEW c \in ConfigType, NEW l
    PROVE  LayerMaxDegree(c.M, l) \in Nat /\ LayerMaxDegree(c.M, l) > 0
<1>1. c.M \in Nat /\ c.M > 0
  BY DEF ConfigType, Positive
<1> QED
  BY <1>1 DEF LayerMaxDegree

LEMMA BoundsPositive ==
    ASSUME NEW c \in ConfigType, NEW k \in Nat, k >= 3
    PROVE  /\ InitialK(c, k) \in Nat /\ InitialK(c, k) > 0
           /\ CandidateK(c, k) \in Nat /\ CandidateK(c, k) > 0
           /\ SearchEf(c, k) \in Nat /\ (IsWide(c) => SearchEf(c, k) > 1)
<1>1. c.K0 \in Nat \ {0} /\ c.CandidateK \in Nat \ {0} /\ c.ConstructionL \in Nat \ {0}
  BY DEF ConfigType, Positive
<1> QED
  BY <1>1 DEF InitialK, CandidateK, SearchEf, AtMost, IsWide

\* A job that is fed, and one of its nodes.
LEMMA FedFacts ==
    ASSUME NEW j, IsJob(j), IsFed(j), NEW s \in 0 .. Size(j) - 1
    PROVE  /\ Size(j) \in Nat /\ Size(j) >= 3 /\ j.stage \in Forked
           /\ j.local \in Tables(Size(j)) /\ j.local[s] \in Distances(Size(j))
           /\ j.cfg \in ConfigType /\ <<j.cfg.Seed, j.layer, Size(j)>> \in Seq(Int)
           /\ IsScratch(NewScratch(Size(j)), Size(j))
           /\ j.stage \in Forked \ {"exact", "init"} =>
                 j.input \in Lists(Size(j)) /\ j.input[s] \in Seq(0 .. Size(j) - 1)
<1>1. /\ Size(j) \in Nat /\ Size(j) >= 3 /\ j.stage \in Forked /\ j.local \in Tables(Size(j))
      /\ j.cfg \in ConfigType
  BY DEF IsJob, IsFed
<1>2. j.cfg.Seed \in Int /\ j.layer \in Int
  BY DEF IsJob, ConfigType, Positive
<1>3. <<j.cfg.Seed, j.layer, Size(j)>> \in Seq(Int)
  BY <1>1, <1>2
<1>4. j.local[s] \in Distances(Size(j)) /\ IsScratch(NewScratch(Size(j)), Size(j))
  BY <1>1, RowType, NewIsScratch
<1>5. j.stage \in Forked \ {"exact", "init"} =>
         j.input \in Lists(Size(j)) /\ j.input[s] \in Seq(0 .. Size(j) - 1)
  BY DEF IsJob, Lists
<1> QED
  BY <1>1, <1>3, <1>4, <1>5

(* The first candidates, and those of an exchange.                           *)
LEMMA FirstCandidates ==
    ASSUME DrawsAreNumbers, NEW j, IsJob(j), IsFed(j), j.stage \in {"exact", "init", "exchange"},
           NEW s \in 0 .. Size(j) - 1
    PROVE  IsCandidates(Expected(j, s), s, j.local[s], Size(j), InitialK(j.cfg, Size(j)))
<1> DEFINE k == Size(j)
           new == NewScratch(k)
           d == j.local[s]
           limit == InitialK(j.cfg, k)
           stream == <<j.cfg.Seed, j.layer, k>>
<1>1. /\ k \in Nat /\ k >= 3 /\ j.stage \in Forked /\ j.local \in Tables(k) /\ d \in Distances(k)
      /\ j.cfg \in ConfigType /\ stream \in Seq(Int) /\ IsScratch(new, k) /\ s \in 0 .. k - 1
  BY FedFacts
<1>2. limit \in Nat /\ limit > 0
  BY <1>1, BoundsPositive
<1>3. Expected(j, s) = Written(j, s, Computed(j, s, new).found)
  BY DEF Expected
<1>4. CASE j.stage = "exact"
  <2> DEFINE S == DOMAIN j.local \ {s}
  <2>1. Computed(j, s, new).found = Alone(j, s)
    <3>1. Computed(j, s, new) = [new EXCEPT !.found = Alone(j, s)]
      BY <1>1, <1>4, ComputedIs
    <3> QED
      BY <1>1, <3>1, FoundOnly
  <2>2. Alone(j, s) = Nearest(d, S, limit)
    BY <1>4 DEF Alone, ExactCandidatesForNode
  <2>3. Expected(j, s) = Nearest(d, S, limit)
    BY <1>3, <1>4, <2>1, <2>2 DEF Written
  <2>4. S = (0 .. k - 1) \ {s}
    BY <1>1 DEF Tables
  <2>5. S \in SUBSET ((0 .. k - 1) \ {s}) /\ S # {}
    <3>1. 0 \in 0 .. k - 1 /\ 1 \in 0 .. k - 1
      BY <1>1
    <3> HIDE DEF k, S
    <3> QED
      BY <2>4, <3>1
  <2> HIDE DEF S, d, limit, k
  <2>6. IsCandidates(Nearest(d, S, limit), s, d, k, limit)
    BY <1>1, <1>2, <2>5, NearestCandidates
  <2> QED
    BY <2>3, <2>6 DEF d, limit, k
<1>5. CASE j.stage \in {"init", "exchange"}
  <2> DEFINE x == Computed(j, s, new)
  <2>1. x \in Scratches(k) /\ Picks(x, k, s) /\ x.found # <<>>
    <3>1. CASE j.stage = "init"
      <4>1. x = InitialIds(new, k, s, limit, stream)
        BY <1>1, <3>1, ComputedIs
      <4>2. k > 1
        BY <1>1
      <4> HIDE DEF k, new, limit, stream, x
      <4> QED
        BY <1>1, <1>2, <4>1, <4>2, InitialIdsPicks
    <3>2. CASE j.stage = "exchange"
      <4>1. x = Exchange(new, j.input, s, k)
        BY <1>1, <3>2, ComputedIs
      <4>2. j.input \in Lists(k) /\ IsCandidates(j.input[s], s, d, k, limit)
        BY <3>2, FedFacts DEF IsFed, CandidateLists, Forked
      <4>3. Len(j.input[s]) > 0 /\ j.input[s][1] # s
        <5> DEFINE q == j.input[s]
                   N == 0 .. k - 1
        <5>1. q \in Seq(N \ {s}) /\ Len(q) > 0
          BY <1>2, <4>2 DEF IsCandidates
        <5> HIDE DEF q, N
        <5> QED
          BY <5>1, FirstOther DEF q
      <4> HIDE DEF k, new, x
      <4> QED
        BY <1>1, <4>1, <4>2, <4>3, ExchangePicks
    <3> QED
      BY <1>5, <3>1, <3>2
  <2>2. Expected(j, s) = Nearest(d, ToSet(x.found), limit)
    BY <1>3, <1>5 DEF Written, Size
  <2> HIDE DEF x, d, limit, k
  <2>3. IsCandidates(Nearest(d, ToSet(x.found), limit), s, d, k, limit)
    BY <1>1, <1>2, <2>1, PickedCandidates
  <2> QED
    BY <2>2, <2>3 DEF d, limit, k
<1> QED
  BY <1>4, <1>5

(* Those of a search.                                                        *)
LEMMA SearchedCandidates ==
    ASSUME DrawsAreNumbers, NEW j, IsJob(j), IsFed(j), IsWide(j.cfg),
           j.stage \in {"acquire", "refresh"}, NEW s \in 0 .. Size(j) - 1
    PROVE  IsCandidates(Expected(j, s), s, j.local[s], Size(j), CandidateK(j.cfg, Size(j)))
<1> DEFINE k == Size(j)
           new == NewScratch(k)
           d == j.local[s]
           limit == CandidateK(j.cfg, k)
           ef == SearchEf(j.cfg, k)
           own == j.input[s]
           N == 0 .. k - 1
<1>1. /\ k \in Nat /\ k >= 3 /\ j.stage \in Forked /\ d \in Distances(k)
      /\ j.cfg \in ConfigType /\ IsScratch(new, k) /\ s \in 0 .. k - 1
  BY FedFacts
<1>2. limit \in Nat /\ limit > 0 /\ ef \in Nat /\ ef > 1
  BY <1>1, BoundsPositive
<1>3. j.input \in Lists(k)
  BY FedFacts DEF Forked
<1>4. own \in Seq(N \ {s}) /\ Len(own) > 0
  <2>1. CASE j.stage = "acquire"
    <3>1. IsCandidates(own, s, d, k, InitialK(j.cfg, k))
      BY <2>1 DEF IsFed, CandidateLists
    <3>2. InitialK(j.cfg, k) \in Nat
      BY <1>1, BoundsPositive
    <3> QED
      BY <3>1, <3>2 DEF IsCandidates
  <2>2. CASE j.stage = "refresh"
    <3>1. own \in Seq(N \ {s}) /\ HasOther(own, s)
      BY <2>2 DEF IsFed, OtherLists
    <3>2. Len(own) \in Nat /\ \E i \in 1 .. Len(own) : own[i] # s
      BY <3>1 DEF HasOther
    <3>3. Len(own) > 0
      BY <3>2
    <3> QED
      BY <3>1, <3>3
  <2> QED
    BY <2>1, <2>2
<1>5. own[1] # s
  <2> HIDE DEF own, N
  <2> QED
    BY <1>4, FirstOther
<1> DEFINE x == SearchLayer(j.input, d, <<s>>, ef, new)
           q == x.found
<1>6. Computed(j, s, new) = x
  BY <1>1, ComputedIs
<1>7. Expected(j, s) = FromResults(s, q, limit)
  BY <1>6 DEF Expected, Written, Size
<1> HIDE DEF d, limit, ef, new, k
<1>8. q \in Seq(0 .. k - 1) /\ Sorted(q, d) /\ HasOther(q, s)
  BY <1>1, <1>2, <1>3, <1>4, <1>5, SearchLayerFruitful
<1> HIDE DEF q, x
<1>9. PICK y \in 1 .. Len(q) : q[y] # s
  BY <1>8 DEF HasOther
<1>10. IsCandidates(FromResults(s, q, limit), s, d, k, limit)
  BY <1>1, <1>2, <1>8, <1>9, ResultsCandidates
<1> QED
  BY <1>7, <1>10 DEF d, limit, k

(* And what the prunings of a refinement leave.                              *)
LEMMA PrunedOthers ==
    ASSUME NEW j, IsJob(j), IsFed(j), j.stage \in {"alpha forward", "alpha back"},
           NEW s \in 0 .. Size(j) - 1
    PROVE  Expected(j, s) \in Seq((0 .. Size(j) - 1) \ {s}) /\ HasOther(Expected(j, s), s)
<1> DEFINE k == Size(j)
           new == NewScratch(k)
           bound == LayerMaxDegree(j.cfg.M, j.layer)
           own == j.input[s]
           N == 0 .. k - 1
<1>1. /\ k \in Nat /\ k >= 3 /\ j.stage \in Forked /\ j.local \in Tables(k)
      /\ j.cfg \in ConfigType /\ IsScratch(new, k) /\ s \in N /\ own \in Seq(N)
  BY FedFacts DEF Forked
<1>2. bound \in Nat /\ bound > 0
  BY <1>1, DegreePositive
<1>3. HasOther(own, s)
  <2>1. CASE j.stage = "alpha forward"
    <3>1. IsCandidates(own, s, j.local[s], k, CandidateK(j.cfg, k))
      BY <2>1 DEF IsFed, CandidateLists
    <3>2. CandidateK(j.cfg, k) \in Nat
      BY <1>1, BoundsPositive
    <3> QED
      BY <3>1, <3>2, CandidatesOther
  <2>2. CASE j.stage = "alpha back"
    BY <2>2 DEF IsFed
  <2> QED
    BY <2>1, <2>2
<1>4. Computed(j, s, new).found = Alone(j, s)
  <2>1. j.stage \notin {"init", "exchange", "acquire", "refresh"}
    OBVIOUS
  <2>2. Computed(j, s, new) = [new EXCEPT !.found = Alone(j, s)]
    BY <1>1, <2>1, ComputedIs
  <2> QED
    BY <1>1, <2>2, FoundOnly
<1>5. Alone(j, s) = Prune("alpha", j.local, s, own, bound)
  BY DEF Alone
<1>6. Expected(j, s) = Prune("alpha", j.local, s, own, bound)
  BY <1>4, <1>5 DEF Expected, Written
<1> HIDE DEF own, bound, k
<1>7. /\ Prune("alpha", j.local, s, own, bound) \in Seq((0 .. k - 1) \ {s})
      /\ HasOther(Prune("alpha", j.local, s, own, bound), s)
  BY <1>1, <1>2, <1>3, PruneSome
<1> QED
  BY <1>6, <1>7 DEF k

(* From one stage of a layer to the next.                                    *)
LEMMA JobFacts ==
    ASSUME NEW c, NEW x
    PROVE  /\ JobOf(c, x).cfg = c /\ JobOf(c, x).stage = x.stage /\ JobOf(c, x).local = x.local
           /\ JobOf(c, x).input = x.input /\ Size(JobOf(c, x)) = Count(x.local)
BY DEF JobOf, Size

LEMMA FedNext ==
    ASSUME NEW c, NEW x, NEW name, NEW lists, NEW count, Size(JobOf(c, x)) >= 3,
           name \in {"exchange", "acquire"} =>
              CandidateLists(JobOf(c, x), lists, InitialK(c, Size(JobOf(c, x)))),
           name \in {"estimate", "alpha forward", "rng forward"} =>
              CandidateLists(JobOf(c, x), lists, CandidateK(c, Size(JobOf(c, x)))),
           name = "alpha back" => \A s \in 0 .. Size(JobOf(c, x)) - 1 : HasOther(lists[s], s),
           name = "refresh" => OtherLists(JobOf(c, x), lists)
    PROVE  IsFed(JobOf(c, Forking(x, name, lists, count)))
<1> DEFINE j == JobOf(c, x)
           y == Forking(x, name, lists, count)
           i == JobOf(c, y)
<1>1. y.stage = name /\ y.local = x.local /\ y.input = lists
  BY DEF Forking
<1> HIDE DEF y
<1>2. /\ i.stage = name /\ i.local = j.local /\ i.input = lists /\ i.cfg = c
      /\ Size(i) = Size(j)
  <2>1. /\ i.stage = y.stage /\ i.local = y.local /\ i.input = y.input /\ i.cfg = c
        /\ Size(i) = Count(y.local)
    BY JobFacts
  <2>2. j.local = x.local /\ Size(j) = Count(x.local)
    BY JobFacts
  <2> QED
    BY <1>1, <2>1, <2>2, Zenon
<1> HIDE DEF i, j
<1>3. \A bound : CandidateLists(j, lists, bound) => CandidateLists(i, lists, bound)
  BY <1>2 DEF CandidateLists
<1>4. OtherLists(j, lists) => OtherLists(i, lists)
  BY <1>2 DEF OtherLists
<1> QED
  BY <1>2, <1>3, <1>4 DEF IsFed, i, j, y

LEMMA HandedFacts ==
    ASSUME DrawsAreNumbers, NEW c, NEW x, IsJob(JobOf(c, x)), x.stage # "estimate"
    PROVE  /\ Handed(c, x) \in Lists(Size(JobOf(c, x)))
           /\ \A s \in 0 .. Size(JobOf(c, x)) - 1 : Handed(c, x)[s] = Expected(JobOf(c, x), s)
<1> DEFINE j == JobOf(c, x)
           k == Size(j)
<1>1. j.stage # "estimate" /\ k = Count(x.local)
  BY JobFacts
<1>2. Handed(c, x) = [s \in 0 .. k - 1 |-> Expected(j, s)]
  BY <1>1 DEF Handed
<1>3. \A s \in 0 .. k - 1 : Expected(j, s) \in Seq(0 .. k - 1)
  BY <1>1, ExpectedType
<1> HIDE DEF j, k
<1>4. Handed(c, x) \in [0 .. k - 1 -> Seq(0 .. k - 1)]
  BY <1>2, <1>3
<1> QED
  BY <1>2, <1>4 DEF Lists, j, k

LEMMA FollowFed ==
    ASSUME DrawsAreNumbers, NEW c, NEW d, NEW x, x.stage \in Forked \ {"rng back"},
           IsJob(JobOf(c, x)), IsFed(JobOf(c, x)), IsWide(c)
    PROVE  IsFed(JobOf(c, Follow(c, d, x)))
<1> DEFINE j == JobOf(c, x)
           k == Size(j)
           handed == Handed(c, x)
           y == Follow(c, d, x)
<1>1. /\ j.cfg = c /\ j.stage = x.stage /\ j.local = x.local /\ j.input = x.input
      /\ k = Count(x.local) /\ IsWide(j.cfg)
  <2>1. /\ j.cfg = c /\ j.stage = x.stage /\ j.local = x.local /\ j.input = x.input
        /\ k = Count(x.local)
    BY JobFacts
  <2> QED
    BY <2>1, Zenon
<1>2. k \in Nat /\ k >= 3
  BY DEF IsFed, IsJob
<1>3. ASSUME x.stage # "estimate"
      PROVE  handed \in Lists(k) /\ \A s \in 0 .. k - 1 : handed[s] = Expected(j, s)
  BY <1>3, HandedFacts
<1>4. CASE x.stage \in {"exact", "init", "exchange"}
  <2>1. CandidateLists(j, handed, InitialK(c, k))
    <3> SUFFICES ASSUME NEW s \in 0 .. k - 1
                 PROVE  IsCandidates(handed[s], s, j.local[s], k, InitialK(c, k))
      BY DEF CandidateLists
    <3>1. IsCandidates(Expected(j, s), s, j.local[s], k, InitialK(j.cfg, k))
      BY <1>1, <1>4, FirstCandidates
    <3>2. handed[s] = Expected(j, s)
      BY <1>3, <1>4
    <3> QED
      BY <1>1, <3>1, <3>2
  <2>2. \/ y = Forking(x, "exchange", handed, x.round + 1)
        \/ y = Forking(x, "acquire", handed, 0)
    BY <1>4 DEF Follow
  <2> HIDE DEF handed, y
  <2> QED
    BY <1>2, <2>1, <2>2, FedNext DEF y
<1>5. CASE x.stage \in {"acquire", "refresh"}
  <2>1. CandidateLists(j, handed, CandidateK(c, k))
    <3> SUFFICES ASSUME NEW s \in 0 .. k - 1
                 PROVE  IsCandidates(handed[s], s, j.local[s], k, CandidateK(c, k))
      BY DEF CandidateLists
    <3>1. IsCandidates(Expected(j, s), s, j.local[s], k, CandidateK(j.cfg, k))
      BY <1>1, <1>5, SearchedCandidates
    <3>2. handed[s] = Expected(j, s)
      BY <1>3, <1>5
    <3> QED
      BY <1>1, <3>1, <3>2
  <2>2. \/ y = Forking(x, "estimate", handed, x.round)
        \/ y = Forking(x, "estimate", handed, x.round + 1)
    BY <1>5 DEF Follow
  <2> HIDE DEF handed, y
  <2> QED
    BY <1>2, <2>1, <2>2, FedNext DEF y
<1>6. CASE x.stage = "estimate"
  <2>1. CandidateLists(j, x.input, CandidateK(c, k))
    BY <1>1, <1>6 DEF IsFed
  <2>2. \/ y = Forking(x, "alpha forward", x.input, x.round)
        \/ y = Forking(x, "rng forward", x.input, x.round)
    BY <1>6 DEF Follow, Estimated
  <2> HIDE DEF y
  <2> QED
    BY <1>2, <2>1, <2>2, FedNext DEF y
<1>7. CASE x.stage = "alpha forward"
  <2> DEFINE merged == MergeReverse(handed, Count(x.local))
  <2>1. ASSUME NEW s \in 0 .. k - 1 PROVE HasOther(merged[s], s)
    <3>1. HasOther(Expected(j, s), s)
      BY <1>1, <1>7, PrunedOthers
    <3>2. handed \in Lists(k) /\ handed[s] = Expected(j, s)
      BY <1>3, <1>7
    <3> HIDE DEF handed, k
    <3>3. HasOther(MergeReverse(handed, k)[s], s)
      BY <1>2, <3>1, <3>2, MergeSome
    <3> QED
      BY <1>1, <3>3
  <2>2. y = Forking(x, "alpha back", merged, x.round)
    BY <1>7 DEF Follow
  <2> HIDE DEF merged, y
  <2> QED
    BY <1>2, <2>1, <2>2, FedNext DEF y
<1>8. CASE x.stage = "alpha back"
  <2>1. OtherLists(j, handed)
    <3> SUFFICES ASSUME NEW s \in 0 .. k - 1
                 PROVE  handed[s] \in Seq((0 .. k - 1) \ {s}) /\ HasOther(handed[s], s)
      BY DEF OtherLists
    <3>1. Expected(j, s) \in Seq((0 .. k - 1) \ {s}) /\ HasOther(Expected(j, s), s)
      BY <1>1, <1>8, PrunedOthers
    <3>2. handed[s] = Expected(j, s)
      BY <1>3, <1>8
    <3> QED
      BY <3>1, <3>2
  <2>2. y = Forking(x, "refresh", handed, x.round)
    BY <1>8 DEF Follow
  <2> HIDE DEF handed, y
  <2> QED
    BY <1>2, <2>1, <2>2, FedNext DEF y
<1>9. CASE x.stage = "rng forward"
  <2> DEFINE merged == MergeReverse(handed, Count(x.local))
  <2>1. y = Forking(x, "rng back", merged, x.round)
    BY <1>9 DEF Follow
  <2> HIDE DEF merged, y
  <2> QED
    BY <1>2, <2>1, FedNext DEF y
<1> QED
  BY <1>4, <1>5, <1>6, <1>7, <1>8, <1>9 DEF Forked

(* And the first stage of a layer, which is too large to be complete.        *)
LEMMA StartFed ==
    ASSUME NEW c \in ConfigType, NEW d, NEW x, x.stage = "layer",
           Follow(c, d, x).stage \in Forked, IsJob(JobOf(c, Follow(c, d, x)))
    PROVE  IsFed(JobOf(c, Follow(c, d, x)))
<1> DEFINE v == LayerVectors(Layout(Levels(c, d), x.layer), d)
           y == Follow(c, d, x)
           j == JobOf(c, y)
           degree == LayerMaxDegree(c.M, x.layer)
<1>1. /\ Count(v) - 1 <= degree => y.stage = "layer"
      /\ ~ (Count(v) - 1 <= degree) => y.stage \in {"exact", "init"} /\ y.local = v
  <2>1. y \in {x, LayerStarted(c, d, x)}
    BY DEF Follow
  <2>2. y.stage # "layer"
    BY DEF Forked
  <2>3. y = LayerStarted(c, d, x)
    BY <2>1, <2>2
  <2> HIDE DEF v, degree
  <2> QED
    BY <2>3 DEF LayerStarted, v, degree
<1>2. ~ (Count(v) - 1 <= degree) /\ y.stage \in {"exact", "init"} /\ y.local = v
  BY <1>1 DEF Forked
<1> HIDE DEF v, y
<1>3. j.stage = y.stage /\ Size(j) = Count(v) /\ Count(v) \in Nat
  BY <1>2, JobFacts DEF IsJob, y
<1>4. degree \in Nat /\ degree > 0
  BY DegreePositive
<1> HIDE DEF degree
<1>5. Count(v) >= 3
  BY <1>2, <1>3, <1>4
<1> HIDE DEF j
<1> QED
  BY <1>2, <1>3, <1>5 DEF IsFed, j, y

(* The invariant of the candidates.                                          *)
CandidateInv ==
    /\ IsWide(idx.cfg)
    /\ file.kind = "whole" => IsWide(file.ix.cfg)
    /\ stage \in Forked => IsFed(job)

WideEnough == \A c \in Configs : IsWide(c)

LEMMA InitCandidates ==
    ASSUME WideEnough, Init
    PROVE  CandidateInv
<1>1. PICK c \in Configs : idx = NewIndex(c)
  BY DEF Init
<1>2. idx.cfg = c
  BY <1>1, NewIsIndex
<1>3. IsWide(idx.cfg)
  BY <1>2 DEF WideEnough
<1>4. file.kind = "none" /\ stage = "idle"
  BY DEF Init, NoFile
<1> QED
  BY <1>3, <1>4 DEF CandidateInv, Forked

(* Whenever the file stays and the index keeps the width of its searches.    *)
LEMMA WidthStays ==
    ASSUME CandidateInv, file' = file, idx'.cfg.ConstructionL = idx.cfg.ConstructionL,
           stage' \in Forked => IsFed(job')
    PROVE  CandidateInv'
BY DEF CandidateInv, IsWide

LEMMA NextCandidates ==
    ASSUME WideEnough, DrawsAreNumbers, StageInv, CandidateInv, [Next]_vars
    PROVE  CandidateInv'
<1>1. CASE \E v \in DataSets : Begins(v)
  <2>1. PICK v \in DataSets : Begins(v)
    BY <1>1
  <2>2. PICK ix : /\ IsIndex(ix) /\ Accepted(ix.cfg, v) /\ idx' = Taking(ix, v)
                  /\ ix.cfg = cfg \/ ix.cfg \in Configs
                  /\ stage' \in {"layer", "standard"} /\ file' = file
    BY <2>1, BuildBegins
  <2>3. ix.cfg \in ConfigType /\ idx'.cfg = [ix.cfg EXCEPT !.Dim = Dimension(ix.cfg, v)]
    BY <2>2, NewVectors DEF IsIndex, cfg
  <2>4. [ix.cfg EXCEPT !.Dim = Dimension(ix.cfg, v)].ConstructionL = ix.cfg.ConstructionL
    BY <2>3 DEF ConfigType
  <2>5. IsWide(ix.cfg)
    BY <2>2 DEF WideEnough, CandidateInv, cfg
  <2>6. IsWide(idx'.cfg)
    <3>1. idx'.cfg.ConstructionL = ix.cfg.ConstructionL
      BY <2>3, <2>4, Zenon
    <3> QED
      BY <2>5, <3>1 DEF IsWide
  <2>7. stage' \notin Forked
    BY <2>2 DEF Forked
  <2> QED
    BY <2>2, <2>6, <2>7 DEF CandidateInv
<1>2. CASE Caller
  <2>1. CASE Followed
    <3> DEFINE y == Follow(cfg, idx.dist, view)
    <3>1. StageInv' /\ idx' = idx /\ file' = file /\ cfg' = cfg /\ view' = y
      BY <2>1 DEF Followed, cfg
    <3>2. stage' = y.stage /\ job' = JobOf(cfg, y)
      <4>1. view'.stage = stage'
        BY DEF view
      <4>2. job' = JobOf(cfg', view')
        BY DEF view, JobOf, job
      <4> QED
        BY <3>1, <4>1, <4>2, Zenon
    <3>3. view.stage = stage /\ job = JobOf(cfg, view) /\ cfg \in ConfigType /\ IsWide(cfg)
      BY ViewFacts DEF StageInv, IsIndex, CandidateInv, cfg
    <3>4. ASSUME stage' \in Forked PROVE IsFed(job')
      <4>1. IsJob(JobOf(cfg, y))
        <5>1. IsJob(job')
          BY <3>1, <3>4 DEF StageInv, ForkInv
        <5> QED
          BY <3>2, <5>1, Zenon
      <4>2. CASE stage = "layer"
        <5> HIDE DEF y
        <5> QED
          BY <3>2, <3>3, <3>4, <4>1, <4>2, StartFed DEF y
      <4>3. CASE stage \in Forked \ {"rng back"}
        <5>1. IsJob(job) /\ IsFed(job)
          BY <4>3 DEF StageInv, ForkInv, CandidateInv
        <5>2. IsJob(JobOf(cfg, view)) /\ IsFed(JobOf(cfg, view)) /\ view.stage \in Forked \ {"rng back"}
          BY <3>3, <4>3, <5>1, Zenon
        <5>3. IsFed(JobOf(cfg, y))
          BY <3>3, <5>2, FollowFed
        <5> QED
          BY <3>2, <5>3, Zenon
      <4>4. CASE stage = "rng back"
        <5>1. y.stage = "layer"
          BY <3>3, <4>4 DEF Follow, LayerEnded
        <5> QED
          BY <3>2, <3>4, <5>1 DEF Forked
      <4>5. CASE stage \in {"idle", "standard"}
        <5>1. stage' \in {"idle", "standard"}
          BY <1>2, <4>5 DEF Caller, StartLayer, JoinKnng, JoinAcquire, JoinEstimate, JoinForward,
                            JoinAlpha, JoinRefresh, JoinFinal, Joined, Publish, InsertStandard,
                            PublishStandard, Return
        <5> QED
          BY <3>4, <5>1 DEF Forked
      <4> QED
        BY <4>2, <4>3, <4>4, <4>5 DEF StageInv, Stages
    <3> QED
      BY <3>1, <3>4, WidthStays
  <2>2. CASE Publish \/ PublishStandard
    <3>1. file' = file /\ stage' = "idle" /\ idx' = Final(Builder, cfg, idx.dist, view)
      BY <2>2, PublishStage
    <3>2. idx'.cfg = idx.cfg
      BY <3>1 DEF Final, cfg
    <3>3. stage' \notin Forked
      BY <3>1 DEF Forked
    <3> QED
      BY <3>1, <3>2, <3>3, WidthStays
  <2> QED
    BY <1>2, <2>1, <2>2, CallerFollows
<1>3. CASE \E w \in DOMAIN left : Worker(w)
  <2>1. UNCHANGED <<idx, file, stage, layer, local, input>>
    BY <1>3 DEF Worker, Scan, Write
  <2>2. job' = job
    BY <2>1 DEF job, cfg
  <2> QED
    BY <2>1, <2>2 DEF CandidateInv
<1>4. CASE Save \/ Load
  <2>1. /\ stage' = "idle"
        /\ \/ idx' = idx
              /\ (file' = [kind |-> "whole", ix |-> idx] \/ file' = [kind |-> "torn"])
           \/ idx' = file.ix /\ file' = file /\ file.kind = "whole"
    BY <1>4, FileStage
  <2>2. stage' \notin Forked
    BY <2>1 DEF Forked
  <2>3. IsWide(idx'.cfg)
    BY <2>1 DEF CandidateInv
  <2>4. file'.kind = "whole" => IsWide(file'.ix.cfg)
    BY <2>1 DEF CandidateInv
  <2> QED
    BY <2>2, <2>3, <2>4 DEF CandidateInv
<1>5. CASE UNCHANGED vars
  <2>1. UNCHANGED <<idx, file, stage, layer, local, input>>
    BY <1>5 DEF vars, work
  <2>2. job' = job
    BY <2>1 DEF job, cfg
  <2> QED
    BY <2>1, <2>2 DEF CandidateInv
<1> QED
  BY <1>1, <1>2, <1>3, <1>4, <1>5 DEF Next, Begins

LEMMA Positions ==
    ASSUME NEW S, NEW q \in Seq(S)
    PROVE  DOMAIN q = 1 .. Len(q)
OBVIOUS

LEMMA CandidateInvGives == StageInv /\ CandidateInv => CandidatesAreSound
<1> SUFFICES ASSUME StageInv, CandidateInv,
                    stage \in {"acquire", "estimate", "alpha forward", "rng forward"},
                    NEW s \in DOMAIN input
             PROVE  /\ ToSet(input[s]) \subseteq DOMAIN local \ {s}
                    /\ \A i, j \in DOMAIN input[s] :
                          i < j => Better(local[s], input[s][i], input[s][j])
                    /\ Len(input[s]) \in 1 .. (IF stage = "acquire" THEN InitialK(cfg, n)
                                                ELSE CandidateK(cfg, n))
  BY DEF CandidatesAreSound
<1> DEFINE q == input[s]
           bound == IF stage = "acquire" THEN InitialK(cfg, n) ELSE CandidateK(cfg, n)
<1>1. stage \in Forked \ {"exact", "init"} /\ IsJob(job) /\ IsFed(job)
  BY DEF StageInv, ForkInv, CandidateInv, Forked
<1>2. /\ job.stage = stage /\ job.input = input /\ job.local = local /\ job.cfg = cfg
      /\ Size(job) = n
  BY DEF job, Size, n
<1>3. n \in Nat /\ input \in Lists(n) /\ local \in Tables(n)
  BY <1>1, <1>2 DEF IsJob
<1>4. s \in 0 .. n - 1 /\ DOMAIN local = 0 .. n - 1
  BY <1>3 DEF Lists, Tables
<1>5. IsCandidates(q, s, local[s], n, bound)
  BY <1>1, <1>2, <1>4 DEF IsFed, CandidateLists
<1> HIDE DEF q, bound
<1>6. q \in Seq((0 .. n - 1) \ {s}) /\ Sorted(q, local[s]) /\ Len(q) \in 1 .. bound
  BY <1>5 DEF IsCandidates
<1>7. ToSet(q) \subseteq (0 .. n - 1) \ {s} /\ DOMAIN q = 1 .. Len(q)
  <2> DEFINE U == (0 .. n - 1) \ {s}
  <2>1. q \in Seq(U)
    BY <1>6
  <2> HIDE DEF U
  <2>2. ToSet(q) \in SUBSET U
    BY <2>1, ToSetType
  <2>3. DOMAIN q = 1 .. Len(q)
    BY <2>1, Positions
  <2> QED
    BY <2>2, <2>3 DEF U
<1>8. \A i, j \in DOMAIN q : i < j => Better(local[s], q[i], q[j])
  BY <1>6, <1>7 DEF Sorted
<1> QED
  BY <1>4, <1>6, <1>7, <1>8 DEF q, bound

(***************************************************************************)
(* As long as the searches of construction are at least two wide (the       *)
(* default ConstructionL is 200), the lists that a stage of a layer starts   *)
(* from are what normalizePruneCandidates expects, whatever the number of    *)
(* vectors and of workers, the random draws and the rounds of refinement:    *)
(* other nodes of the layer, each once, nearest first, at least one and at   *)
(* most as many as InitialK or CandidateK.  Of width one the theorem would   *)
(* not be true: a search for a node that ends as soon as it has found that   *)
(* node leaves it without candidates.                                       *)
(***************************************************************************)
THEOREM CandidatesSound == DrawsAreNumbers /\ WideEnough /\ Spec => []CandidatesAreSound
<1> SUFFICES ASSUME DrawsAreNumbers, WideEnough PROVE Spec => []CandidatesAreSound
  OBVIOUS
<1>1. Init => CandidateInv
  BY InitCandidates
<1>2. StageInv /\ CandidateInv /\ [Next]_vars => CandidateInv'
  BY NextCandidates
<1>3. Spec => []StageInv
  BY StageInvariant
<1> QED
  BY <1>1, <1>2, <1>3, CandidateInvGives, PTL DEF Spec
=============================================================================
