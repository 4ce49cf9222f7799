-------------------------- MODULE CursorListProofs --------------------------
(***************************************************************************)
(* What the two list functions preserve, for lists of any length: the      *)
(* facts every proof about a component that keeps such a list rests on.    *)
(***************************************************************************)
EXTENDS CursorList, SequenceTheorems, WellFoundedInduction, TLAPS

\* Every set of numbers that is not empty has a least one.
LEMMA LeastNat ==
    ASSUME NEW T \in SUBSET Nat, T # {}
    PROVE  \E x \in T : \A y \in T : x <= y
<1>1. IsWellFoundedOn(OpToRel(<, Nat), Nat)
  BY NatLessThanWellFounded
<1> DEFINE R == OpToRel(<, Nat)
<1>2. \A x, y \in Nat : y < x => <<y, x>> \in R
  BY DEF OpToRel
<1>3. IsWellFoundedOn(R, Nat)
  BY <1>1
<1> HIDE DEF R
<1>4. PICK x \in T : \A y \in T : ~ (<<y, x>> \in R)
  BY <1>3, WFMin
<1>5. ASSUME NEW y \in T PROVE x <= y
  <2>1. x \in Nat /\ y \in Nat
    OBVIOUS
  <2>2. ~(y < x)
    BY <1>2, <1>4, <2>1
  <2> QED BY <2>1, <2>2
<1> QED BY <1>5

\* Removing one position shifts the later elements down and changes no other.
LEMMA RemoveAtElements ==
    ASSUME NEW S, NEW s \in Seq(S), NEW k \in 1..Len(s)
    PROVE  /\ RemoveAt(s, k) \in Seq(S)
           /\ Len(RemoveAt(s, k)) = Len(s) - 1
           /\ \A j \in 1..(Len(s) - 1) :
                RemoveAt(s, k)[j] = IF j < k THEN s[j] ELSE s[j + 1]
<1> DEFINE a == SubSeq(s, 1, k - 1)
           b == SubSeq(s, k + 1, Len(s))
<1>1. /\ a \in Seq(S) /\ Len(a) = k - 1
      /\ \A j \in 1..(k - 1) : a[j] = s[j]
  BY SubSeqProperties
<1>2. /\ b \in Seq(S) /\ Len(b) = Len(s) - k
      /\ \A j \in 1..(Len(s) - k) : b[j] = s[k + j]
  BY SubSeqProperties
<1> HIDE DEF a, b
<1>3. /\ a \o b \in Seq(S) /\ Len(a \o b) = Len(a) + Len(b)
      /\ \A j \in 1..(Len(a) + Len(b)) :
           (a \o b)[j] = IF j <= Len(a) THEN a[j] ELSE b[j - Len(a)]
  BY <1>1, <1>2, ConcatProperties
<1>4. RemoveAt(s, k) = a \o b
  BY DEF RemoveAt, a, b
<1>5. Len(s) \in Nat /\ Len(a) + Len(b) = Len(s) - 1
  BY <1>1, <1>2
<1>6. ASSUME NEW j \in 1..(Len(s) - 1)
      PROVE  (a \o b)[j] = IF j < k THEN s[j] ELSE s[j + 1]
  <2>1. CASE j < k
    BY <2>1, <1>1, <1>3, <1>5
  <2>2. CASE ~(j < k)
    <3>1. (a \o b)[j] = b[j - (k - 1)] /\ j - (k - 1) \in 1..(Len(s) - k)
      BY <2>2, <1>1, <1>3, <1>5
    <3>2. k + (j - (k - 1)) = j + 1
      BY <1>5
    <3> QED BY <2>2, <3>1, <3>2, <1>2
  <2> QED BY <2>1, <2>2
<1> QED BY <1>3, <1>4, <1>5, <1>6

\* The position of a member is where the sequence holds it.
LEMMA PositionOfMember ==
    ASSUME NEW S, NEW l, IsList(l, S), NEW x \in Members(l)
    PROVE  /\ Position(l, x) \in 1..Len(l.items)
           /\ l.items[Position(l, x)] = x
           /\ x \in S
<1>1. \E i \in DOMAIN l.items : l.items[i] = x
  BY DEF Members, ToSet
<1>2. DOMAIN l.items = 1..Len(l.items) /\ l.items \in Seq(S)
  BY DEF IsList
<1> QED BY <1>1, <1>2, ElementOfSeq DEF Position

\* No other position holds it.
LEMMA PositionIsUnique ==
    ASSUME NEW S, NEW l, IsList(l, S), NEW i \in 1..Len(l.items)
    PROVE  /\ l.items[i] \in Members(l)
           /\ Position(l, l.items[i]) = i
<1>1. DOMAIN l.items = 1..Len(l.items)
  BY DEF IsList
<1>2. l.items[i] \in Members(l)
  BY <1>1 DEF Members, ToSet
<1>3. /\ Position(l, l.items[i]) \in 1..Len(l.items)
      /\ l.items[Position(l, l.items[i])] = l.items[i]
  BY <1>2, PositionOfMember
<1> QED BY <1>1, <1>2, <1>3 DEF IsList

\* dcc_list_add keeps a list a list and adds exactly the new node.
LEMMA ListAddProperties ==
    ASSUME NEW S, NEW l, IsList(l, S), NEW x \in S, x \notin Members(l)
    PROVE  /\ IsList(ListAdd(l, x), S)
           /\ Members(ListAdd(l, x)) = Members(l) \cup {x}
<1> DEFINE m == ListAdd(l, x)
           n == Len(l.items)
<1>1. l.items \in Seq(S) /\ l.head \in 0..n /\ n \in Nat
  BY DEF IsList
<1>2. /\ m.items = Append(l.items, x)
      /\ m.head = IF l.head = 0 THEN 1 ELSE l.head
      /\ m = [items |-> m.items, head |-> m.head]
  BY DEF ListAdd
<1>3. /\ m.items \in Seq(S) /\ Len(m.items) = n + 1
      /\ \A i \in 1..n : m.items[i] = l.items[i]
      /\ m.items[n + 1] = x
  BY <1>1, <1>2, AppendProperties
<1> HIDE DEF m, n
<1>4. DOMAIN m.items = 1..(n + 1) /\ DOMAIN l.items = 1..n
  BY <1>1, <1>3 DEF n
<1>5. \A i \in 1..n : l.items[i] \in Members(l)
  BY <1>4 DEF Members, ToSet
<1>6. Members(m) = Members(l) \cup {x}
  BY <1>3, <1>4, <1>1 DEF Members, ToSet
<1>7. \A i, j \in DOMAIN m.items : m.items[i] = m.items[j] => i = j
  BY <1>1, <1>3, <1>4, <1>5 DEF IsList
<1>8. m.items # << >>
  BY <1>1, <1>3, EmptySeq
<1>9. m.head \in 1..(n + 1) /\ m.head \in Nat
  BY <1>1, <1>2
<1>10. m \in [items : Seq(S), head : Nat]
  BY <1>2, <1>3, <1>9
<1>11. IsList(m, S)
  BY <1>1, <1>3, <1>7, <1>8, <1>9, <1>10 DEF IsList
<1> QED BY <1>6, <1>11 DEF m

\* dcc_list_del keeps a list a list and removes exactly the node it found.
LEMMA ListDelProperties ==
    ASSUME NEW S, NEW l, IsList(l, S), NEW x, InForward(l, x)
    PROVE  /\ IsList(ListDel(l, x), S)
           /\ Members(ListDel(l, x)) = Members(l) \ {x}
<1> DEFINE m == ListDel(l, x)
           n == Len(l.items)
           k == Position(l, x)
<1>1. /\ l.items \in Seq(S) /\ n \in Nat
      /\ DOMAIN l.items = 1..n
      /\ \A i, j \in 1..n : l.items[i] = l.items[j] => i = j
  BY DEF IsList
<1>2. k \in 1..n /\ l.items[k] = x
  BY PositionOfMember DEF InForward
<1>3. /\ m.items = RemoveAt(l.items, k)
      /\ m.head = IF k > 1 THEN k - 1 ELSE IF n > 1 THEN 1 ELSE 0
      /\ m = [items |-> m.items, head |-> m.head]
  BY DEF ListDel, RemoveNode
<1>4. /\ m.items \in Seq(S) /\ Len(m.items) = n - 1
      /\ \A j \in 1..(n - 1) :
           m.items[j] = IF j < k THEN l.items[j] ELSE l.items[j + 1]
  BY <1>1, <1>2, <1>3, RemoveAtElements
<1> HIDE DEF m, n, k
<1>5. DOMAIN m.items = 1..(n - 1)
  BY <1>1, <1>4
<1>6. Members(m) = Members(l) \ {x}
  <2>1. ASSUME NEW y \in Members(m) PROVE y \in Members(l) \ {x}
    <3>1. PICK j \in 1..(n - 1) : y = m.items[j]
      BY <1>5 DEF Members, ToSet
    <3>2. PICK i \in 1..n : i # k /\ y = l.items[i]
      BY <3>1, <1>1, <1>2, <1>4
    <3>3. QED BY <3>2, <1>1, <1>2 DEF Members, ToSet
  <2>2. ASSUME NEW y \in Members(l) \ {x} PROVE y \in Members(m)
    <3>1. PICK i \in 1..n : y = l.items[i] /\ i # k
      BY <1>1, <1>2 DEF Members, ToSet
    <3>2. CASE i < k
      <4>1. i \in 1..(n - 1) /\ m.items[i] = y
        BY <3>1, <3>2, <1>1, <1>2, <1>4
      <4>2. QED BY <4>1, <1>5 DEF Members, ToSet
    <3>3. CASE i > k
      <4>1. i - 1 \in 1..(n - 1) /\ m.items[i - 1] = y
        BY <3>1, <3>3, <1>1, <1>2, <1>4
      <4>2. QED BY <4>1, <1>5 DEF Members, ToSet
    <3>4. QED BY <3>1, <3>2, <3>3, <1>1, <1>2
  <2>3. QED BY <2>1, <2>2
<1>7. \A i, j \in DOMAIN m.items : m.items[i] = m.items[j] => i = j
  <2> DEFINE old(i) == IF i < k THEN i ELSE i + 1
  <2>1. \A i \in 1..(n - 1) : old(i) \in 1..n /\ m.items[i] = l.items[old(i)]
    BY <1>1, <1>2, <1>4
  <2>2. \A i, j \in 1..(n - 1) : old(i) = old(j) => i = j
    BY <1>1, <1>2
  <2> HIDE DEF old
  <2> QED BY <2>1, <2>2, <1>1, <1>5
<1>8. m.items = << >> <=> n = 1
  BY <1>1, <1>2, <1>4, EmptySeq
<1>9. m \in [items : Seq(S), head : Nat] /\ m.head \in 0..(n - 1)
  BY <1>1, <1>2, <1>3, <1>4
<1>10. m.head = 0 <=> n = 1
  BY <1>1, <1>2, <1>3
<1>11. IsList(m, S)
  BY <1>4, <1>7, <1>8, <1>9, <1>10 DEF IsList
<1> QED BY <1>6, <1>11 DEF m

\* A walk may go on from the successor, in the list as it is and in the list
\* that is left when its current node is deleted.
LEMMA SuccessorStaysForward ==
    ASSUME NEW S, NEW l, IsList(l, S), NEW x, InForward(l, x),
           NEW none, none \notin S
    PROVE  LET y == Successor(l, x, none)
           IN  y = none \/ /\ y # x
                           /\ InForward(l, y)
                           /\ InForward(ListDel(l, x), y)
<1> DEFINE m == ListDel(l, x)
           n == Len(l.items)
           k == Position(l, x)
           y == Successor(l, x, none)
<1> HIDE DEF m, n, k, y
<1>1. /\ l.items \in Seq(S) /\ n \in Nat /\ l.head \in 0..n
      /\ DOMAIN l.items = 1..n
      /\ \A i, j \in 1..n : l.items[i] = l.items[j] => i = j
  BY DEF IsList, n
<1>2. k \in 1..n /\ l.items[k] = x /\ l.head <= k
  BY PositionOfMember DEF InForward, k, n
<1>3. /\ m.items = RemoveAt(l.items, k)
      /\ m.head = IF k > 1 THEN k - 1 ELSE IF n > 1 THEN 1 ELSE 0
  BY DEF ListDel, RemoveNode, m, k, n
<1>4. /\ Len(m.items) = n - 1
      /\ \A j \in 1..(n - 1) :
           m.items[j] = IF j < k THEN l.items[j] ELSE l.items[j + 1]
  BY SMTT(30), <1>1, <1>2, <1>3, RemoveAtElements DEF n
<1>5. y = IF k < n THEN l.items[k + 1] ELSE none
  BY DEF Successor, y, k, n
<1>6. IsList(m, S)
  BY ListDelProperties DEF m
<1>7. SUFFICES ASSUME k < n
               PROVE  y # x /\ InForward(l, y) /\ InForward(m, y)
  BY <1>1, <1>2, <1>5 DEF m, y
<1>8. k + 1 \in 1..n /\ y = l.items[k + 1]
  BY <1>1, <1>2, <1>5, <1>7
<1>9. y \in Members(l) /\ Position(l, y) = k + 1
  BY <1>8, PositionIsUnique DEF n
<1>10. k \in 1..Len(m.items) /\ y = m.items[k]
  BY <1>1, <1>2, <1>4, <1>7, <1>8
<1>11. y \in Members(m) /\ Position(m, y) = k
  BY <1>6, <1>10, PositionIsUnique
<1>12. InForward(l, y)
  BY <1>1, <1>2, <1>9 DEF InForward
<1>13. InForward(m, y)
  BY <1>1, <1>2, <1>3, <1>7, <1>11 DEF InForward
<1> QED BY <1>1, <1>2, <1>8, <1>12, <1>13

\* A walk that starts at the kept pointer starts in the list.
LEMMA FirstIsForward ==
    ASSUME NEW S, NEW l, IsList(l, S), NEW none
    PROVE  First(l, none) = none \/ InForward(l, First(l, none))
<1>1. SUFFICES ASSUME l.head # 0 PROVE InForward(l, l.items[l.head])
  BY DEF First
<1>2. l.head \in 1..Len(l.items)
  BY <1>1 DEF IsList
<1> QED BY <1>2, PositionIsUnique DEF InForward

\* Only members are met by a walk.
LEMMA ForwardIsMember ==
    ASSUME NEW l, NEW x, InForward(l, x)
    PROVE  x \in Members(l)
BY DEF InForward

\* The empty list is a list.
LEMMA EmptyListIsList ==
    ASSUME NEW S
    PROVE  IsList(EmptyList, S) /\ Members(EmptyList) = {}
<1>1. << >> \in Seq(S) /\ Len(<< >>) = 0 /\ DOMAIN << >> = {}
  BY EmptySeq
<1> QED BY <1>1 DEF IsList, EmptyList, Members, ToSet

\* A walk from the kept pointer visits members of the list only.
LEMMA ForwardElements ==
    ASSUME NEW S, NEW l, l.items \in Seq(S), l.head \in 0..Len(l.items)
    PROVE  ToSet(Forward(l)) \subseteq Members(l)
<1>1. Len(l.items) \in Nat
  OBVIOUS
<1>2. CASE l.head = 0
  BY <1>2, EmptySeq DEF Forward, ToSet
<1>3. CASE l.head # 0
  <2> DEFINE f == SubSeq(l.items, l.head, Len(l.items))
  <2>1. /\ Len(f) = Len(l.items) - l.head + 1 /\ DOMAIN f = 1..Len(f)
        /\ \A i \in 1..(Len(l.items) - l.head + 1) : f[i] = l.items[l.head + i - 1]
    BY <1>1, <1>3, SubSeqProperties
  <2> HIDE DEF f
  <2>2. ASSUME NEW x \in ToSet(f) PROVE x \in Members(l)
    <3>1. PICK i \in 1..(Len(l.items) - l.head + 1) : x = f[i]
      BY <2>1 DEF ToSet
    <3>2. l.head + i - 1 \in 1..Len(l.items) /\ x = l.items[l.head + i - 1]
      BY <3>1, <2>1, <1>1, <1>3
    <3> QED BY <3>2, <1>1 DEF Members, ToSet
  <2> QED BY <2>2, <1>3 DEF Forward, f
<1> QED BY <1>2, <1>3
-----------------------------------------------------------------------------
\* The recursion of Picked, up to n.
PicksUpTo(p, s, I, n) ==
    p = [k \in 0..n |-> IF k = 0 THEN << >>
                        ELSE IF k \in I THEN Append(p[k - 1], s[k]) ELSE p[k - 1]]

\* It defines a function.
LEMMA PicksExist ==
    ASSUME NEW s, NEW I, NEW n \in Nat
    PROVE  \E p : PicksUpTo(p, s, I, n)
<1> DEFINE Bad == {m \in Nat : ~ \E p : PicksUpTo(p, s, I, m)}
<1> SUFFICES ASSUME Bad # {} PROVE FALSE
  OBVIOUS
<1>1. PICK m \in Bad : \A y \in Bad : m <= y
  BY LeastNat
<1>2. CASE m = 0
  <2>1. PicksUpTo([k \in 0..0 |-> << >>], s, I, 0)
    BY DEF PicksUpTo
  <2> QED BY <1>2, <2>1
<1>3. CASE m # 0
  <2>1. m - 1 \in Nat /\ m - 1 \notin Bad
    BY <1>1, <1>3
  <2>2. PICK p : PicksUpTo(p, s, I, m - 1)
    BY <2>1
  <2> DEFINE q == [k \in 0..m |-> IF k < m THEN p[k]
                                  ELSE IF m \in I THEN Append(p[m - 1], s[m]) ELSE p[m - 1]]
  <2>3. \A k \in 0..(m - 1) :
          p[k] = IF k = 0 THEN << >> ELSE IF k \in I THEN Append(p[k - 1], s[k]) ELSE p[k - 1]
    BY <2>1, <2>2 DEF PicksUpTo
  <2>4. ASSUME NEW k \in 0..m
        PROVE  q[k] = IF k = 0 THEN << >>
                      ELSE IF k \in I THEN Append(q[k - 1], s[k]) ELSE q[k - 1]
    <3>1. CASE k = m
      BY <1>3, <2>1, <3>1
    <3>2. CASE k < m
      BY <1>3, <2>1, <2>3, <3>2
    <3> QED BY <3>1, <3>2
  <2>5. q = [k \in 0..m |-> q[k]]
    OBVIOUS
  <2> HIDE DEF q
  <2>6. PicksUpTo(q, s, I, m)
    BY <2>4, <2>5 DEF PicksUpTo
  <2> QED BY <2>6
<1> QED BY <1>2, <1>3

LEMMA PickedRecursion ==
    ASSUME NEW S, NEW s \in Seq(S), NEW I
    PROVE  \E p : /\ Picked(s, I) = p[Len(s)]
                  /\ p[0] = << >>
                  /\ \A k \in 1..Len(s) :
                       p[k] = IF k \in I THEN Append(p[k - 1], s[k]) ELSE p[k - 1]
<1>0. Len(s) \in Nat
  OBVIOUS
<1>1. PICK p : PicksUpTo(p, s, I, Len(s)) /\ Picked(s, I) = p[Len(s)]
  <2> DEFINE q == CHOOSE q : PicksUpTo(q, s, I, Len(s))
  <2>1. Picked(s, I) = q[Len(s)]
    BY Zenon DEF Picked, PicksUpTo
  <2>2. \E r : PicksUpTo(r, s, I, Len(s))
    BY <1>0, PicksExist
  <2>3. PicksUpTo(q, s, I, Len(s))
    BY <2>2, Zenon
  <2> QED BY <2>1, <2>3
<1>2. p[0] = << >>
  BY <1>0, <1>1 DEF PicksUpTo
<1>3. \A k \in 1..Len(s) : p[k] = IF k \in I THEN Append(p[k - 1], s[k]) ELSE p[k - 1]
  <2>1. \A k \in 0..Len(s) :
          p[k] = IF k = 0 THEN << >> ELSE IF k \in I THEN Append(p[k - 1], s[k]) ELSE p[k - 1]
    BY <1>0, <1>1 DEF PicksUpTo
  <2> QED BY <1>0, <2>1
<1> QED BY <1>1, <1>2, <1>3

\* The sequence t holds the elements of s at the positions I up to n, in order:
\* at says where each of its own comes from.
Selects(t, s, I, n) ==
    \E at \in [1..Len(t) -> I \cap (1..n)] :
        /\ \A k \in 1..Len(t) : t[k] = s[at[k]]
        /\ \A j, k \in 1..Len(t) : j < k => at[j] < at[k]
        /\ \A i \in I \cap (1..n) : \E k \in 1..Len(t) : at[k] = i

LEMMA PickedElements ==
    ASSUME NEW S, NEW s \in Seq(S), NEW I
    PROVE  Picked(s, I) \in Seq(S) /\ Selects(Picked(s, I), s, I, Len(s))
<1>0. Len(s) \in Nat
  OBVIOUS
<1>1. PICK p : /\ Picked(s, I) = p[Len(s)]
               /\ p[0] = << >>
               /\ \A k \in 1..Len(s) :
                    p[k] = IF k \in I THEN Append(p[k - 1], s[k]) ELSE p[k - 1]
  BY PickedRecursion
<1>2. p[0] = << >>
  BY <1>1
<1>3. \A k \in 1..Len(s) : p[k] = IF k \in I THEN Append(p[k - 1], s[k]) ELSE p[k - 1]
  BY <1>1
<1> DEFINE Bad == {n \in 0..Len(s) : ~(p[n] \in Seq(S) /\ Selects(p[n], s, I, n))}
<1> SUFFICES ASSUME Bad # {} PROVE FALSE
  BY <1>0, <1>1
<1>4. PICK n \in Bad : \A y \in Bad : n <= y
  <2>1. Bad \in SUBSET Nat
    BY <1>0
  <2> HIDE DEF Bad
  <2> QED BY <2>1, LeastNat
<1>5. CASE n = 0
  <2>0. p[n] = << >>
    BY <1>2, <1>5
  <2>1. p[n] \in Seq(S) /\ Len(p[n]) = 0
    BY <2>0, EmptySeq
  <2>2. Selects(p[n], s, I, n)
    <3>1. [k \in {} |-> 0] \in [1..Len(p[n]) -> I \cap (1..n)]
      BY <2>1
    <3> QED BY <1>5, <2>1, <3>1 DEF Selects
  <2> QED BY <2>1, <2>2
<1>6. CASE n # 0
  <2> DEFINE b == p[n - 1]
  <2>1. n \in 1..Len(s) /\ n - 1 \in 0..Len(s) /\ n - 1 \notin Bad
    BY <1>0, <1>4, <1>6
  <2>2. b \in Seq(S) /\ Selects(b, s, I, n - 1)
    BY <2>1
  <2> HIDE DEF b
  <2>3. PICK at \in [1..Len(b) -> I \cap (1..(n - 1))] :
          /\ \A k \in 1..Len(b) : b[k] = s[at[k]]
          /\ \A j, k \in 1..Len(b) : j < k => at[j] < at[k]
          /\ \A i \in I \cap (1..(n - 1)) : \E k \in 1..Len(b) : at[k] = i
    BY <2>2 DEF Selects
  <2>4. CASE n \notin I
    <3>1. p[n] = b
      BY <1>3, <2>1, <2>4 DEF b
    <3>2. I \cap (1..n) = I \cap (1..(n - 1))
      BY <2>1, <2>4
    <3>3. Selects(b, s, I, n)
      BY <2>3, <3>2 DEF Selects
    <3> QED BY <2>2, <3>1, <3>3
  <2>5. CASE n \in I
    <3> DEFINE t == Append(b, s[n])
    <3>1. p[n] = t
      BY <1>3, <2>1, <2>5 DEF b
    <3>2. s[n] \in S /\ Len(b) \in Nat
      BY <2>1, <2>2, ElementOfSeq
    <3>3. /\ t \in Seq(S) /\ Len(t) = Len(b) + 1
          /\ \A k \in 1..Len(b) : t[k] = b[k]
          /\ t[Len(b) + 1] = s[n]
      BY <2>2, <3>2, AppendProperties
    <3> HIDE DEF t
    <3> DEFINE new == [k \in 1..Len(t) |-> IF k <= Len(b) THEN at[k] ELSE n]
    <3>4. \A k \in 1..Len(b) : at[k] \in I /\ at[k] \in 1..(n - 1) /\ new[k] = at[k]
      BY <2>3, <3>2, <3>3
    <3>5. new[Len(b) + 1] = n /\ n \in I \cap (1..n)
      BY <2>1, <2>5, <3>2, <3>3
    <3>6. new \in [1..Len(t) -> I \cap (1..n)]
      BY <2>1, <3>2, <3>3, <3>4, <3>5
    <3> HIDE DEF new
    <3>7. \A k \in 1..Len(t) : t[k] = s[new[k]]
      BY <2>3, <3>2, <3>3, <3>4, <3>5
    <3>8. ASSUME NEW j \in 1..Len(t), NEW k \in 1..Len(t), j < k
          PROVE  new[j] < new[k]
      <4>1. j \in 1..Len(b) /\ new[j] = at[j] /\ at[j] < n /\ at[j] \in Int
        BY <2>1, <3>2, <3>3, <3>4, <3>8
      <4>2. CASE k \in 1..Len(b)
        BY <2>3, <3>4, <3>8, <4>1, <4>2
      <4>3. CASE k = Len(b) + 1
        BY <3>5, <4>1, <4>3
      <4> QED BY <3>2, <3>3, <4>2, <4>3
    <3>9. ASSUME NEW i \in I \cap (1..n) PROVE \E k \in 1..Len(t) : new[k] = i
      <4>1. CASE i = n
        BY <3>2, <3>3, <3>5, <4>1
      <4>2. CASE i # n
        <5>1. i \in I \cap (1..(n - 1))
          BY <2>1, <4>2
        <5>2. PICK k \in 1..Len(b) : at[k] = i
          BY <2>3, <5>1
        <5> QED BY SMTT(30), <3>2, <3>3, <3>4, <5>2
      <4> QED BY <4>1, <4>2
    <3>10. Selects(t, s, I, n)
      BY <3>6, <3>7, <3>8, <3>9 DEF Selects
    <3> QED BY <3>1, <3>3, <3>10
  <2> QED BY <2>4, <2>5
<1> QED BY <1>5, <1>6

\* As sets: what is picked, and that it is picked once.
LEMMA PickedProperties ==
    ASSUME NEW S, NEW s \in Seq(S), NEW I
    PROVE  /\ Picked(s, I) \in Seq(S)
           /\ ToSet(Picked(s, I)) = {s[i] : i \in I \cap (1..Len(s))}
           /\ (\A i, j \in I \cap (1..Len(s)) : s[i] = s[j] => i = j) =>
                \A i, j \in 1..Len(Picked(s, I)) : Picked(s, I)[i] = Picked(s, I)[j] => i = j
<1> DEFINE t == Picked(s, I)
<1>1. t \in Seq(S) /\ Selects(t, s, I, Len(s))
  BY PickedElements
<1> HIDE DEF t
<1>2. PICK at \in [1..Len(t) -> I \cap (1..Len(s))] :
        /\ \A k \in 1..Len(t) : t[k] = s[at[k]]
        /\ \A j, k \in 1..Len(t) : j < k => at[j] < at[k]
        /\ \A i \in I \cap (1..Len(s)) : \E k \in 1..Len(t) : at[k] = i
  BY <1>1 DEF Selects
<1>3. DOMAIN t = 1..Len(t) /\ Len(t) \in Nat /\ Len(s) \in Nat
  BY <1>1
<1>4. ToSet(t) = {s[i] : i \in I \cap (1..Len(s))}
  <2>1. ASSUME NEW k \in 1..Len(t) PROVE \E i \in I \cap (1..Len(s)) : t[k] = s[i]
    BY <1>2
  <2>2. ASSUME NEW i \in I \cap (1..Len(s)) PROVE \E k \in 1..Len(t) : s[i] = t[k]
    <3>1. PICK k \in 1..Len(t) : at[k] = i
      BY <1>2
    <3> QED BY <1>2, <3>1
  <2> QED BY ZenonT(60), <1>3, <2>1, <2>2 DEF ToSet
<1>5. ASSUME \A i, j \in I \cap (1..Len(s)) : s[i] = s[j] => i = j,
             NEW i \in 1..Len(t), NEW j \in 1..Len(t), t[i] = t[j]
      PROVE  i = j
  <2>1. at[i] = at[j]
    BY <1>2, <1>5
  <2>2. at[i] \in 1..Len(s)
    BY <1>2
  <2> QED BY <1>2, <1>3, <2>1, <2>2
<1> QED BY <1>1, <1>4, <1>5 DEF t

\* The first n elements, when just these are picked.
LEMMA PickedFirst ==
    ASSUME NEW S, NEW s \in Seq(S), NEW I, NEW n \in 0..Len(s),
           \A i \in 1..Len(s) : i \in I <=> i <= n
    PROVE  /\ Picked(s, I) \in Seq(S) /\ Len(Picked(s, I)) = n
           /\ \A i \in 1..n : Picked(s, I)[i] = s[i]
<1> DEFINE Leads(t, k) == /\ t \in Seq(S) /\ Len(t) = IF k <= n THEN k ELSE n
                          /\ \A i \in 1..Len(t) : t[i] = s[i]
<1>0. Len(s) \in Nat /\ n \in Nat /\ n <= Len(s)
  OBVIOUS
<1>1. PICK p : /\ Picked(s, I) = p[Len(s)]
               /\ p[0] = << >>
               /\ \A k \in 1..Len(s) :
                    p[k] = IF k \in I THEN Append(p[k - 1], s[k]) ELSE p[k - 1]
  BY PickedRecursion
<1> DEFINE Bad == {k \in 0..Len(s) : ~Leads(p[k], k)}
<1>2. Bad = {}
  <2> SUFFICES ASSUME Bad # {} PROVE FALSE
    OBVIOUS
  <2>1. PICK k \in Bad : \A y \in Bad : k <= y
    <3>1. Bad \in SUBSET Nat
      BY <1>0
    <3> HIDE DEF Bad
    <3> QED BY <3>1, LeastNat
  <2>2. CASE k = 0
    <3>1. p[k] \in Seq(S) /\ Len(p[k]) = 0
      BY <1>1, <2>2, EmptySeq
    <3> QED BY <1>0, <2>1, <2>2, <3>1
  <2>3. CASE k # 0
    <3> DEFINE b == p[k - 1]
    <3>1. k \in 1..Len(s) /\ k - 1 \in 0..Len(s) /\ k - 1 \notin Bad
      BY <1>0, <2>1, <2>3
    <3>2. Leads(b, k - 1)
      BY <3>1
    <3>3. p[k] = IF k <= n THEN Append(b, s[k]) ELSE b
      BY <1>1, <3>1
    <3> HIDE DEF b
    <3>4. CASE k <= n
      <4>1. s[k] \in S /\ Len(b) = k - 1
        BY <1>0, <3>1, <3>2, <3>4, ElementOfSeq
      <4>2. /\ Append(b, s[k]) \in Seq(S) /\ Len(Append(b, s[k])) = k
            /\ \A i \in 1..(k - 1) : Append(b, s[k])[i] = b[i]
            /\ Append(b, s[k])[k] = s[k]
        BY <3>1, <3>2, <4>1, AppendProperties
      <4>3. Leads(p[k], k)
        BY <1>0, <3>1, <3>2, <3>3, <3>4, <4>1, <4>2
      <4> QED BY <2>1, <4>3
    <3>5. CASE ~(k <= n)
      <4>1. Leads(p[k], k)
        BY <1>0, <3>1, <3>2, <3>3, <3>5
      <4> QED BY <2>1, <4>1
    <3> QED BY <3>4, <3>5
  <2> QED BY <2>2, <2>3
<1>3. Leads(p[Len(s)], Len(s))
  BY <1>0, <1>2
<1> QED BY <1>0, <1>1, <1>3
=============================================================================
