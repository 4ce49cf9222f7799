--------------------------- MODULE TriggersProofs ----------------------------
(***************************************************************************)
(* What trigger_match runs, and what egg_bind and egg_unbind leave in the  *)
(* lists, for any triggers and masks and whatever the handlers do to the   *)
(* list that is walked; and, in the second half, what the matcher behind   *)
(* their masks finds, for any text and any mask.                           *)
(***************************************************************************)
EXTENDS Triggers, Matching, CursorListProofs

\* x comes before y.
Ahead(s, x, y) == \E i, j \in DOMAIN s : i < j /\ s[i] = x /\ s[j] = y

\* The order of a list.
LEMMA AheadOrders ==
    ASSUME NEW S, NEW l, IsList(l, S)
    PROVE  /\ \A x, y : Ahead(l.items, x, y) => x \in Members(l) /\ y \in Members(l) /\ x # y
           /\ \A x, y : ~(Ahead(l.items, x, y) /\ Ahead(l.items, y, x))
           /\ \A x, y, z : Ahead(l.items, x, y) /\ Ahead(l.items, y, z) => Ahead(l.items, x, z)
           /\ \A x, y \in Members(l) : x = y \/ Ahead(l.items, x, y) \/ Ahead(l.items, y, x)
<1>1. /\ l.items \in Seq(S) /\ DOMAIN l.items = 1..Len(l.items) /\ Len(l.items) \in Nat
      /\ \A i, j \in 1..Len(l.items) : l.items[i] = l.items[j] => i = j
  BY DEF IsList
<1> DEFINE s == l.items
<1>2. ASSUME NEW x, NEW y, Ahead(s, x, y)
      PROVE  x \in Members(l) /\ y \in Members(l) /\ x # y
  <2>1. PICK i \in 1..Len(s), j \in 1..Len(s) : i < j /\ s[i] = x /\ s[j] = y
    BY <1>1, <1>2 DEF Ahead
  <2>2. x \in Members(l) /\ y \in Members(l)
    BY <1>1, <2>1 DEF Members, ToSet
  <2> QED BY <1>1, <2>1, <2>2
<1>3. ASSUME NEW x, NEW y, Ahead(s, x, y), Ahead(s, y, x) PROVE FALSE
  <2>1. PICK i \in 1..Len(s), j \in 1..Len(s) : i < j /\ s[i] = x /\ s[j] = y
    BY <1>1, <1>3 DEF Ahead
  <2>2. PICK i2 \in 1..Len(s), j2 \in 1..Len(s) : i2 < j2 /\ s[i2] = y /\ s[j2] = x
    BY <1>1, <1>3 DEF Ahead
  <2>3. i = j2 /\ j = i2
    BY <1>1, <2>1, <2>2
  <2> QED BY <1>1, <2>1, <2>2, <2>3
<1>4. ASSUME NEW x, NEW y, NEW z, Ahead(s, x, y), Ahead(s, y, z) PROVE Ahead(s, x, z)
  <2>1. PICK i \in 1..Len(s), j \in 1..Len(s) : i < j /\ s[i] = x /\ s[j] = y
    BY <1>1, <1>4 DEF Ahead
  <2>2. PICK i2 \in 1..Len(s), j2 \in 1..Len(s) : i2 < j2 /\ s[i2] = y /\ s[j2] = z
    BY <1>1, <1>4 DEF Ahead
  <2>3. j = i2
    BY <1>1, <2>1, <2>2
  <2>4. i < j2
    BY <1>1, <2>1, <2>2, <2>3
  <2> QED BY <1>1, <2>1, <2>2, <2>4 DEF Ahead
<1>5. ASSUME NEW x \in Members(l), NEW y \in Members(l), x # y
      PROVE  Ahead(s, x, y) \/ Ahead(s, y, x)
  <2>1. PICK i \in 1..Len(s) : s[i] = x
    BY <1>1 DEF Members, ToSet
  <2>2. PICK j \in 1..Len(s) : s[j] = y
    BY <1>1 DEF Members, ToSet
  <2>3. i < j \/ j < i
    BY <1>1, <1>5, <2>1, <2>2
  <2> QED BY <1>1, <2>1, <2>2, <2>3 DEF Ahead
<1> QED BY <1>2, <1>3, <1>4, <1>5

\* An added node comes last, and the others stay in their order.
LEMMA AddKeepsOrder ==
    ASSUME NEW S, NEW l, IsList(l, S), NEW t \in S
    PROVE  /\ \A x, y : Ahead(l.items, x, y) => Ahead(ListAdd(l, t).items, x, y)
           /\ \A x \in Members(l) : Ahead(ListAdd(l, t).items, x, t)
<1> DEFINE s == l.items
           a == Append(l.items, t)
<1>1. s \in Seq(S) /\ DOMAIN s = 1..Len(s) /\ Len(s) \in Nat
  BY DEF IsList
<1>2. /\ DOMAIN a = 1..(Len(s) + 1) /\ a[Len(s) + 1] = t
      /\ \A i \in 1..Len(s) : a[i] = s[i]
  BY <1>1
<1>3. ListAdd(l, t).items = a
  BY DEF ListAdd
<1> HIDE DEF s, a
<1>4. ASSUME NEW x, NEW y, Ahead(s, x, y) PROVE Ahead(a, x, y)
  <2>1. PICK i \in 1..Len(s), j \in 1..Len(s) : i < j /\ s[i] = x /\ s[j] = y
    BY <1>1, <1>4 DEF Ahead
  <2>2. i \in 1..(Len(s) + 1) /\ j \in 1..(Len(s) + 1)
    BY <1>1
  <2> QED BY <1>2, <2>1, <2>2 DEF Ahead
<1>5. ASSUME NEW x \in Members(l) PROVE Ahead(a, x, t)
  <2>1. PICK i \in 1..Len(s) : s[i] = x
    BY <1>1 DEF Members, ToSet, s
  <2>2. i \in 1..(Len(s) + 1) /\ Len(s) + 1 \in 1..(Len(s) + 1) /\ i < Len(s) + 1
    BY <1>1
  <2> QED BY <1>2, <2>1, <2>2 DEF Ahead
<1> QED BY <1>3, <1>4, <1>5 DEF s

\* The nodes that a removal leaves stay in their order.
LEMMA DelKeepsOrder ==
    ASSUME NEW S, NEW l, IsList(l, S), NEW t, InForward(l, t),
           NEW x, NEW y, x # t, y # t, Ahead(l.items, x, y)
    PROVE  Ahead(ListDel(l, t).items, x, y)
<1> DEFINE s == l.items
           p == Position(l, t)
           r == RemoveAt(s, p)
<1>1. /\ s \in Seq(S) /\ DOMAIN s = 1..Len(s) /\ Len(s) \in Nat
      /\ p \in 1..Len(s) /\ s[p] = t
  BY PositionOfMember DEF IsList, InForward
<1>2. /\ r \in Seq(S) /\ Len(r) = Len(s) - 1
      /\ \A j \in 1..(Len(s) - 1) : r[j] = IF j < p THEN s[j] ELSE s[j + 1]
  BY <1>1, RemoveAtElements
<1>3. ListDel(l, t).items = r
  BY DEF ListDel, RemoveNode
<1>4. PICK i \in 1..Len(s), j \in 1..Len(s) : i < j /\ s[i] = x /\ s[j] = y
  BY <1>1 DEF Ahead
<1>5. DOMAIN r = 1..(Len(s) - 1)
  BY <1>1, <1>2
<1> HIDE DEF s, p, r
<1> DEFINE new(k) == IF k < p THEN k ELSE k - 1
<1>6. i # p /\ j # p
  BY <1>1, <1>4
<1>7. new(i) \in 1..(Len(s) - 1) /\ new(j) \in 1..(Len(s) - 1) /\ new(i) < new(j)
  BY <1>1, <1>4, <1>6
<1>8. r[new(i)] = s[i] /\ r[new(j)] = s[j]
  BY SMTT(30), <1>1, <1>2, <1>6, <1>7
<1> QED BY <1>3, <1>4, <1>5, <1>7, <1>8 DEF Ahead

\* What a node's next leads to, if anything: the first of those behind it.
LEMMA NextIsNext ==
    ASSUME NEW S, NEW l, IsList(l, S), NEW x \in Members(l), NEW none, none \notin S, NEW c,
           c = Successor(l, x, none)
    PROVE  /\ c # none => /\ c \in Members(l) /\ Ahead(l.items, x, c)
                          /\ \A y : Ahead(l.items, x, y) => y = c \/ Ahead(l.items, c, y)
           /\ c = none => \A y : ~Ahead(l.items, x, y)
<1> DEFINE s == l.items
           p == Position(l, x)
<1>1. /\ s \in Seq(S) /\ DOMAIN s = 1..Len(s) /\ Len(s) \in Nat
      /\ p \in 1..Len(s) /\ s[p] = x
      /\ \A i, j \in 1..Len(s) : s[i] = s[j] => i = j
  BY PositionOfMember DEF IsList
<1>2. c = IF p < Len(s) THEN s[p + 1] ELSE none
  BY DEF Successor
<1> HIDE DEF s, p
<1>3. ASSUME NEW y, Ahead(s, x, y)
      PROVE  p < Len(s) /\ (y = s[p + 1] \/ Ahead(s, s[p + 1], y))
  <2>1. PICK i \in 1..Len(s), j \in 1..Len(s) : i < j /\ s[i] = x /\ s[j] = y
    BY <1>1, <1>3 DEF Ahead
  <2>2. i = p
    BY <1>1, <2>1
  <2>3. p < Len(s) /\ p + 1 \in 1..Len(s) /\ (j = p + 1 \/ p + 1 < j)
    BY <1>1, <2>1, <2>2
  <2>4. CASE j = p + 1
    BY <2>1, <2>3, <2>4
  <2>5. CASE p + 1 < j
    <3>1. Ahead(s, s[p + 1], y)
      BY <1>1, <2>1, <2>3, <2>5 DEF Ahead
    <3> QED BY <2>3, <3>1
  <2> QED BY <2>3, <2>4, <2>5
<1>4. CASE p < Len(s)
  <2>1. p + 1 \in 1..Len(s) /\ p < p + 1 /\ c = s[p + 1]
    BY <1>1, <1>2, <1>4
  <2>2. c \in S /\ c \in Members(l)
    BY <1>1, <2>1 DEF Members, ToSet, s
  <2>3. Ahead(s, x, c)
    BY <1>1, <2>1 DEF Ahead
  <2> QED BY <1>3, <2>1, <2>2, <2>3 DEF s
<1>5. CASE ~(p < Len(s))
  <2>1. c = none /\ \A y : ~Ahead(s, x, y)
    BY <1>2, <1>3, <1>5
  <2> QED BY <2>1 DEF s
<1> QED BY <1>4, <1>5
-----------------------------------------------------------------------------
Types ==
    /\ TypeOK
    /\ trigs = [l \in Lists |-> trigs[l]]
    /\ walks \in Seq(Lists)
    /\ pc \in {"visit", "handler"} => walks # << >>
    /\ pc = "handler" => at # NULL
    /\ pc \in {"idle", "begin"} => at = NULL
    /\ pc = "idle" => due = << >> /\ ran = << >> /\ ~rash

\* Only a removal behind the first two takes the kept pointer from the front.
FrontIsKept == \A l \in Lists \ hidden : trigs[l].head <= 1

\* In pub and msg no two triggers have one mask.
OneEach ==
    \A l \in Unstackable \ hidden :
        \A t, u \in Members(trigs[l]) : Alike(what[t].mask, what[u].mask) => t = u

\* Where the walk goes on: from the trigger it stands on, or after the one that runs.
Cursor == IF pc = "visit" THEN at ELSE NextOf(at)

\* What is due is in the list, in its order, at the place c and behind it; what has run is in
\* the list before c.
Divides(l, c) ==
    /\ c # NULL => c \in Members(l)
    /\ \A i \in DOMAIN due :
          /\ due[i] \in Members(l) /\ what[due[i]].mask \in hits
          /\ c # NULL /\ (due[i] = c \/ Ahead(l.items, c, due[i]))
    /\ \A i, j \in DOMAIN due : i < j => Ahead(l.items, due[i], due[j])
    /\ \A i \in DOMAIN ran : ran[i] \in Members(l) /\ (c # NULL => Ahead(l.items, ran[i], c))

\* pub is due to run the first that matches, join the first trigger only.
OneIsDue(l, name) ==
    /\ name = "join" => ToSet(due) \subseteq {at}
    /\ name = "pub" =>
          \A i \in DOMAIN due : \A x \in Members(l) :
              what[x].mask \in hits /\ (x = at \/ Ahead(l.items, at, x)) =>
                  x = due[i] \/ Ahead(l.items, due[i], x)

Walking ==
    ~rash =>
        /\ IsInjective(ran)
        /\ pc = "begin" => due = << >>
        /\ pc \in {"visit", "handler"} =>
              /\ Divides(trigs[walks[1]], Cursor)
              /\ due # << >> => Wants(walks[1]) \subseteq has
        /\ pc = "visit" => OneIsDue(trigs[walks[1]], walks[1])
        /\ pc = "handler" =>
              /\ InList(at) => at \in Members(trigs[walks[1]])
              /\ walks[1] \in {"pub", "join"} => due = << >>

IInv == Types /\ FrontIsKept /\ OneEach /\ Walking
-----------------------------------------------------------------------------
\* s2 has elements of s in their order, none of X.
Thinned(s2, s, X) ==
    /\ s2 \in Seq(Trigger)
    /\ \E f \in [1..Len(s2) -> 1..Len(s)] :
          /\ \A k \in 1..Len(s2) : s2[k] = s[f[k]] /\ s2[k] \notin X
          /\ \A j, k \in 1..Len(s2) : j < k => f[j] < f[k]

LEMMA ThinnedFacts ==
    ASSUME NEW s \in Seq(Trigger), NEW X, NEW s2, Thinned(s2, s, X)
    PROVE  /\ s2 \in Seq(Trigger)
           /\ \A k \in DOMAIN s2 : s2[k] \notin X /\ \E i \in DOMAIN s : s2[k] = s[i]
           /\ \A j, k \in DOMAIN s2 : j < k =>
                \E i, m \in DOMAIN s : i < m /\ s2[j] = s[i] /\ s2[k] = s[m]
           /\ IsInjective(s) => IsInjective(s2)
           /\ s = << >> => s2 = << >>
<1>1. /\ s2 \in Seq(Trigger) /\ DOMAIN s2 = 1..Len(s2) /\ Len(s2) \in Nat
      /\ DOMAIN s = 1..Len(s) /\ Len(s) \in Nat
  BY DEF Thinned
<1>2. PICK f \in [1..Len(s2) -> 1..Len(s)] :
         /\ \A k \in 1..Len(s2) : s2[k] = s[f[k]] /\ s2[k] \notin X
         /\ \A j, k \in 1..Len(s2) : j < k => f[j] < f[k]
  BY DEF Thinned
<1>3. \A k \in 1..Len(s2) : f[k] \in 1..Len(s)
  BY <1>2
<1>4. ASSUME IsInjective(s) PROVE IsInjective(s2)
  <2> SUFFICES ASSUME NEW j \in 1..Len(s2), NEW k \in 1..Len(s2), s2[j] = s2[k] PROVE j = k
    BY <1>1 DEF IsInjective
  <2>1. f[j] = f[k]
    BY <1>1, <1>2, <1>3, <1>4 DEF IsInjective
  <2> QED BY <1>1, <1>2, <1>3, <2>1
<1>5. ASSUME s = << >> PROVE s2 = << >>
  <2>1. Len(s) = 0
    BY <1>5
  <2>2. ~(1 \in 1..Len(s2))
    BY <1>3, <2>1
  <2> QED BY <1>1, <2>2, EmptySeq
<1> QED BY <1>1, <1>2, <1>3, <1>4, <1>5

LEMMA ThinnedEmpty ==
    ASSUME NEW X, NEW s2, Thinned(s2, << >>, X)
    PROVE  s2 = << >>
<1>1. s2 \in Seq(Trigger) /\ Len(s2) \in Nat
  BY DEF Thinned
<1>2. PICK f : f \in [1..Len(s2) -> 1..Len(<< >>)]
  BY DEF Thinned
<1>3. \A k \in 1..Len(s2) : f[k] \in 1..0
  BY <1>2
<1>4. ~(1 \in 1..Len(s2))
  BY <1>3
<1> QED BY <1>1, <1>4, EmptySeq

LEMMA WithoutThins ==
    ASSUME NEW s \in Seq(Trigger), NEW t
    PROVE  Thinned(Without(s, t), s, {t})
<1> DEFINE I == {i \in DOMAIN s : s[i] # t}
           w == Picked(s, I)
<1>1. w \in Seq(Trigger) /\ Selects(w, s, I, Len(s))
  BY PickedElements
<1>2. \A i \in I : s[i] # t
  OBVIOUS
<1> HIDE DEF w, I
<1>3. PICK f \in [1..Len(w) -> I \cap (1..Len(s))] :
         /\ \A k \in 1..Len(w) : w[k] = s[f[k]]
         /\ \A j, k \in 1..Len(w) : j < k => f[j] < f[k]
  BY <1>1 DEF Selects
<1>4. f \in [1..Len(w) -> 1..Len(s)] /\ \A k \in 1..Len(w) : w[k] = s[f[k]] /\ w[k] \notin {t}
  BY <1>2, <1>3
<1>5. Thinned(w, s, {t})
  BY <1>1, <1>3, <1>4 DEF Thinned
<1> QED BY <1>5 DEF Without, w, I

LEMMA ThinnedTwice ==
    ASSUME NEW s \in Seq(Trigger), NEW X, NEW Y, NEW a, NEW b, Thinned(a, s, X), Thinned(b, a, Y)
    PROVE  Thinned(b, s, X \cup Y)
<1>1. PICK f \in [1..Len(a) -> 1..Len(s)] :
         /\ \A k \in 1..Len(a) : a[k] = s[f[k]] /\ a[k] \notin X
         /\ \A j, k \in 1..Len(a) : j < k => f[j] < f[k]
  BY DEF Thinned
<1>2. PICK g \in [1..Len(b) -> 1..Len(a)] :
         /\ \A k \in 1..Len(b) : b[k] = a[g[k]] /\ b[k] \notin Y
         /\ \A j, k \in 1..Len(b) : j < k => g[j] < g[k]
  BY DEF Thinned
<1> DEFINE h == [k \in 1..Len(b) |-> f[g[k]]]
<1>3. /\ h \in [1..Len(b) -> 1..Len(s)]
      /\ \A k \in 1..Len(b) : b[k] = s[h[k]] /\ b[k] \notin X \cup Y
  BY <1>1, <1>2
<1>4. \A j, k \in 1..Len(b) : j < k => h[j] < h[k]
  BY <1>1, <1>2
<1> HIDE DEF h
<1> QED BY <1>3, <1>4 DEF Thinned

LEMMA ThinnedNarrow ==
    ASSUME NEW s \in Seq(Trigger), NEW X, NEW a, Thinned(a, s, X)
    PROVE  Thinned(a, s, X \cup {NULL})
<1>1. PICK f \in [1..Len(a) -> 1..Len(s)] :
         /\ \A k \in 1..Len(a) : a[k] = s[f[k]] /\ a[k] \notin X
         /\ \A j, k \in 1..Len(a) : j < k => f[j] < f[k]
  BY DEF Thinned
<1>2. a \in Seq(Trigger) /\ \A k \in 1..Len(a) : a[k] \in Trigger
  BY DEF Thinned
<1>3. \A k \in 1..Len(a) : a[k] = s[f[k]] /\ a[k] \notin X \cup {NULL}
  BY <1>1, <1>2, TriggersAssumption
<1> QED BY <1>1, <1>2, <1>3 DEF Thinned
-----------------------------------------------------------------------------
\* A list from which old is taken, if any, and to which t is added, if any.
Changed(l, old, t) ==
    LET m == IF old = NULL THEN l ELSE ListDel(l, old) IN IF t = NULL THEN m ELSE ListAdd(m, t)

LEMMA ChangedList ==
    ASSUME NEW l, IsList(l, Trigger), NEW old, NEW t,
           old = NULL \/ InForward(l, old), t = NULL \/ t \in Trigger \ Members(l)
    PROVE  /\ IsList(Changed(l, old, t), Trigger)
           /\ Members(Changed(l, old, t)) = (Members(l) \ {old}) \cup ({t} \ {NULL})
           /\ \A x, y : x # old /\ y # old /\ Ahead(l.items, x, y) =>
                          Ahead(Changed(l, old, t).items, x, y)
           /\ t # NULL => \A x \in Members(l) \ {old} : Ahead(Changed(l, old, t).items, x, t)
           /\ l.head <= 1 /\ (old # NULL => Position(l, old) <= 2) => Changed(l, old, t).head <= 1
<1> DEFINE m == IF old = NULL THEN l ELSE ListDel(l, old)
<1>1. \A x \in Members(l) : x \in Trigger
  BY PositionOfMember
<1>2. NULL \notin Trigger
  BY TriggersAssumption
<1>3. /\ IsList(m, Trigger)
      /\ Members(m) = Members(l) \ {old}
      /\ \A x, y : x # old /\ y # old /\ Ahead(l.items, x, y) => Ahead(m.items, x, y)
      /\ l.head <= 1 /\ (old # NULL => Position(l, old) <= 2) => m.head <= 1
  <2>1. CASE old = NULL
    BY <1>1, <1>2, <2>1
  <2>2. CASE old # NULL
    <3>1. InForward(l, old) /\ m = ListDel(l, old)
      BY <2>2
    <3>2. IsList(ListDel(l, old), Trigger) /\ Members(ListDel(l, old)) = Members(l) \ {old}
      BY <3>1, ListDelProperties
    <3>3. \A x, y : x # old /\ y # old /\ Ahead(l.items, x, y) => Ahead(ListDel(l, old).items, x, y)
      BY <3>1, DelKeepsOrder
    <3>4. Position(l, old) <= 2 => ListDel(l, old).head <= 1
      <4>1. Position(l, old) \in Nat
        BY <3>1, PositionOfMember DEF InForward, IsList
      <4> QED BY <3>1, <4>1 DEF ListDel, RemoveNode
    <3> QED BY <2>2, <3>1, <3>2, <3>3, <3>4
  <2> QED BY <2>1, <2>2
<1>4. Changed(l, old, t) = IF t = NULL THEN m ELSE ListAdd(m, t)
  BY DEF Changed
<1> HIDE DEF m
<1>5. CASE t = NULL
  BY <1>3, <1>4, <1>5
<1>6. CASE t # NULL
  <2>1. t \in Trigger /\ t \notin Members(m) /\ Changed(l, old, t) = ListAdd(m, t)
    BY <1>3, <1>4, <1>6
  <2>2. IsList(ListAdd(m, t), Trigger) /\ Members(ListAdd(m, t)) = Members(m) \cup {t}
    BY <1>3, <2>1, ListAddProperties
  <2>3. /\ \A x, y : Ahead(m.items, x, y) => Ahead(ListAdd(m, t).items, x, y)
        /\ \A x \in Members(m) : Ahead(ListAdd(m, t).items, x, t)
    BY <1>3, <2>1, AddKeepsOrder
  <2>4. m.head <= 1 => ListAdd(m, t).head <= 1
    BY <1>3 DEF ListAdd, IsList
  <2> QED BY <1>3, <1>6, <2>1, <2>2, <2>3, <2>4
<1> QED BY <1>5, <1>6
-----------------------------------------------------------------------------
\* The lists, and what the types say of them.
LEMMA TableTypes ==
    ASSUME Types
    PROVE  /\ NULL \notin Trigger
           /\ trigs = [l \in Lists |-> trigs[l]]
           /\ \A l \in Lists : IsList(trigs[l], Trigger) /\ Members(trigs[l]) \subseteq Trigger
           /\ \A l \in Lists : \A t : t \in Members(trigs[l]) <=>
                                        t \in Trigger /\ mem[t] = "linked" /\ what[t].list = l
           /\ mem \in [Trigger -> {"free", "linked", "unlinked"}]
           /\ what \in [Trigger -> TriggerRecord]
           /\ left \in [Trigger -> Trigger \cup {NULL}]
           /\ at \in Trigger \cup {NULL}
           /\ due \in Seq(Trigger) /\ ran \in Seq(Trigger) /\ rash \in BOOLEAN
           /\ hidden \subseteq Lists /\ hits \subseteq Mask
<1>1. \A l \in Lists : IsList(trigs[l], Trigger)
  BY DEF Types, TypeOK
<1>2. \A l \in Lists : Members(trigs[l]) \subseteq Trigger
  BY <1>1, PositionOfMember
<1>3. \A l \in Lists : \A t : t \in Members(trigs[l]) <=>
                                t \in Trigger /\ mem[t] = "linked" /\ what[t].list = l
  BY <1>2 DEF Types, TypeOK
<1> QED BY <1>1, <1>2, <1>3, TriggersAssumption DEF Types, TypeOK

\* next of a trigger is one or none.
LEMMA NextTypes ==
    ASSUME Types, NEW t \in Trigger
    PROVE  /\ NextOf(t) \in Trigger \cup {NULL}
           /\ InList(t) => /\ what[t].list \in Lists /\ t \in Members(trigs[what[t].list])
                           /\ NextOf(t) = Successor(trigs[what[t].list], t, NULL)
           /\ ~InList(t) => NextOf(t) = left[t]
<1>1. what[t].list \in Lists
  BY TableTypes DEF TriggerRecord
<1>2. CASE InList(t)
  <2> DEFINE l == trigs[what[t].list]
  <2>1. t \in Members(l) /\ IsList(l, Trigger) /\ Members(l) \subseteq Trigger
    BY <1>1, <1>2, TableTypes DEF InList
  <2>2. NextOf(t) = Successor(l, t, NULL)
    BY <1>2 DEF NextOf
  <2>3. NextOf(t) # NULL => NextOf(t) \in Members(l)
    BY <2>1, <2>2, NextIsNext, TriggersAssumption
  <2> QED BY <1>1, <1>2, <2>1, <2>2, <2>3
<1>3. CASE ~InList(t)
  BY <1>3, TableTypes DEF NextOf
<1> QED BY <1>2, <1>3
-----------------------------------------------------------------------------
\* What egg_bind and egg_unbind do to the list of the name l, out of which old goes (or none
\* does) and to which t is added (or none is).
TableStep(l, old, t) ==
    /\ l \in Lists /\ (old = NULL \/ InForward(trigs[l], old))
    /\ t = NULL \/ (t \in Trigger /\ mem[t] = "free")
    /\ trigs' = [trigs EXCEPT ![l] = Changed(trigs[l], old, t)]
    /\ mem' \in [Trigger -> {"free", "linked", "unlinked"}]
    /\ \A u \in Trigger : IF u = t THEN mem'[u] = "linked"
                          ELSE IF u = old THEN mem'[u] # "linked" ELSE mem'[u] = mem[u]
    /\ what' \in [Trigger -> TriggerRecord]
    /\ t # NULL => what'[t].list = l
    /\ \A u \in Trigger : mem[u] = "linked" /\ u # old => what'[u] = what[u]
    /\ left' \in [Trigger -> Trigger \cup {NULL}]
    /\ at \in Trigger \ {t} => left'[at] = IF at = old THEN NextOf(at) ELSE left[at]
    /\ Thinned(due', due, {old, t}) /\ Thinned(ran', ran, {old, t})
    /\ rash' \in BOOLEAN
    /\ rash' <=> rash \/ (t # NULL /\ t = at) \/ (old # NULL /\ Undermines(old))
    /\ hidden' = IF old # NULL /\ Position(trigs[l], old) > 2 THEN hidden \cup {l} ELSE hidden
    /\ pc' = pc

\* The lists after it.
LEMMA TableAfter ==
    ASSUME Types, NEW l, NEW old, NEW t, TableStep(l, old, t)
    PROVE  /\ trigs' = [m \in Lists |-> trigs'[m]]
           /\ \A m \in Lists : m # l => trigs'[m] = trigs[m]
           /\ IsList(trigs'[l], Trigger)
           /\ \A u : u \in Members(trigs'[l]) <=> (u \in Members(trigs[l]) /\ u # old) \/ (u = t /\ u # NULL)
           /\ \A x, y : x # old /\ y # old /\ Ahead(trigs[l].items, x, y) => Ahead(trigs'[l].items, x, y)
           /\ t # NULL => \A x \in Members(trigs[l]) \ {old} : Ahead(trigs'[l].items, x, t)
           /\ trigs[l].head <= 1 /\ (old # NULL => Position(trigs[l], old) <= 2) => trigs'[l].head <= 1
           /\ t # NULL => \A m \in Lists : t \notin Members(trigs[m])
           /\ old # NULL => old \in Members(trigs[l])
<1>1. /\ l \in Lists /\ trigs = [m \in Lists |-> trigs[m]] /\ IsList(trigs[l], Trigger)
      /\ trigs' = [trigs EXCEPT ![l] = Changed(trigs[l], old, t)]
      /\ old = NULL \/ InForward(trigs[l], old)
      /\ t = NULL \/ (t \in Trigger /\ mem[t] = "free")
  BY TableTypes DEF TableStep
<1>2. t # NULL => \A m \in Lists : t \notin Members(trigs[m])
  BY <1>1, TableTypes
<1>3. /\ trigs' = [m \in Lists |-> trigs'[m]]
      /\ \A m \in Lists : m # l => trigs'[m] = trigs[m]
      /\ trigs'[l] = Changed(trigs[l], old, t)
  BY <1>1
<1>4. t = NULL \/ t \in Trigger \ Members(trigs[l])
  BY <1>1, <1>2
<1> DEFINE c == Changed(trigs[l], old, t)
<1>5. /\ IsList(c, Trigger)
      /\ Members(c) = (Members(trigs[l]) \ {old}) \cup ({t} \ {NULL})
      /\ \A x, y : x # old /\ y # old /\ Ahead(trigs[l].items, x, y) => Ahead(c.items, x, y)
      /\ t # NULL => \A x \in Members(trigs[l]) \ {old} : Ahead(c.items, x, t)
      /\ trigs[l].head <= 1 /\ (old # NULL => Position(trigs[l], old) <= 2) => c.head <= 1
  BY <1>1, <1>4, ChangedList
<1>6. old # NULL => old \in Members(trigs[l])
  BY <1>1, ForwardIsMember
<1> HIDE DEF c
<1>7. trigs'[l] = c
  BY <1>3 DEF c
<1> QED BY <1>2, <1>3, <1>5, <1>6, <1>7

LEMMA StepKeepsTypes ==
    ASSUME Types, NEW l, NEW old, NEW t, TableStep(l, old, t),
           UNCHANGED <<world, place>>, calls' \in 0..MaxCalls, again' \in BOOLEAN,
           pc \in {"idle", "handler"}
    PROVE  Types'
<1>1. \A m \in Lists : IsList(trigs'[m], Trigger)
  BY TableAfter, TableTypes
<1>2. ASSUME NEW u \in Trigger, NEW m \in Lists
      PROVE  u \in Members(trigs'[m]) <=> mem'[u] = "linked" /\ what'[u].list = m
  <2>1. NULL \notin Trigger /\ l \in Lists
    BY TriggersAssumption DEF TableStep
  <2>2. \A k \in Lists : u \in Members(trigs[k]) <=> mem[u] = "linked" /\ what[u].list = k
    BY TableTypes
  <2>3. CASE u = t
    <3>1. mem'[u] = "linked" /\ what'[u].list = l
      BY <2>1, <2>3 DEF TableStep
    <3>2. u \in Members(trigs'[m]) <=> m = l
      BY <2>1, <2>3, TableAfter
    <3> QED BY <3>1, <3>2
  <2>4. CASE u = old /\ u # t
    <3>1. mem'[u] # "linked"
      BY <2>4 DEF TableStep
    <3>2. u \in Members(trigs[l])
      BY <2>1, <2>4, TableAfter
    <3>3. u \notin Members(trigs'[m])
      BY <2>1, <2>2, <2>4, <3>2, TableAfter
    <3> QED BY <3>1, <3>3
  <2>5. CASE u # old /\ u # t
    <3>1. mem'[u] = mem[u] /\ (mem[u] = "linked" => what'[u] = what[u])
      BY <2>5 DEF TableStep
    <3>2. u \in Members(trigs'[m]) <=> u \in Members(trigs[m])
      BY <2>1, <2>5, TableAfter
    <3> QED BY <2>2, <3>1, <3>2
  <2> QED BY <2>3, <2>4, <2>5
<1>3. due' \in Seq(Trigger) /\ ran' \in Seq(Trigger)
  BY DEF TableStep, Thinned
<1>4. hidden' \subseteq Lists
  BY TableTypes DEF TableStep
<1>5. /\ mem' \in [Trigger -> {"free", "linked", "unlinked"}]
      /\ what' \in [Trigger -> TriggerRecord] /\ left' \in [Trigger -> Trigger \cup {NULL}]
      /\ rash' \in BOOLEAN /\ pc' = pc
  BY DEF TableStep
<1>6. /\ world' = world /\ has' = has /\ walks' = walks /\ hits' = hits /\ at' = at
  BY DEF place
<1>7. TypeOK'
  BY <1>1, <1>2, <1>3, <1>4, <1>5, <1>6 DEF Types, TypeOK
<1>8. ASSUME pc = "idle" PROVE due' = << >> /\ ran' = << >> /\ ~rash'
  <2>1. at = NULL /\ due = << >> /\ ran = << >> /\ ~rash
    BY <1>8 DEF Types
  <2>2. due' = << >>
    <3>1. Thinned(due', << >>, {old, t})
      BY <2>1 DEF TableStep
    <3> QED BY <3>1, ThinnedEmpty
  <2>3. ran' = << >>
    <3>1. Thinned(ran', << >>, {old, t})
      BY <2>1 DEF TableStep
    <3> QED BY <3>1, ThinnedEmpty
  <2>4. ~rash'
    BY <2>1 DEF TableStep, Undermines
  <2> QED BY <2>2, <2>3, <2>4
<1> QED BY <1>5, <1>6, <1>7, <1>8, TableAfter DEF Types
LEMMA StepKeepsFront ==
    ASSUME Types, FrontIsKept, NEW l, NEW old, NEW t, TableStep(l, old, t)
    PROVE  FrontIsKept'
<1> SUFFICES ASSUME NEW m \in Lists, m \notin hidden' PROVE trigs'[m].head <= 1
  BY DEF FrontIsKept
<1>1. m \notin hidden /\ trigs[m].head <= 1
  BY DEF TableStep, FrontIsKept
<1>2. CASE m # l
  BY <1>1, <1>2, TableAfter
<1>3. CASE m = l
  <2>1. old # NULL => ~(Position(trigs[l], old) > 2)
    BY <1>3 DEF TableStep
  <2>2. old # NULL => Position(trigs[l], old) \in Nat
    <3> SUFFICES ASSUME old # NULL PROVE Position(trigs[l], old) \in Nat
      OBVIOUS
    <3>1. old \in Members(trigs[l]) /\ IsList(trigs[l], Trigger)
      BY <1>3, TableAfter, TableTypes
    <3> QED BY <3>1, PositionOfMember DEF IsList
  <2>3. old # NULL => Position(trigs[l], old) <= 2
    BY <2>1, <2>2
  <2> QED BY <1>1, <1>3, <2>3, TableAfter
<1> QED BY <1>2, <1>3

\* In pub and msg egg_bind adds a trigger only when no other has its mask.
LEMMA StepKeepsOneEach ==
    ASSUME Types, OneEach, NEW l, NEW old, NEW t, TableStep(l, old, t),
           l \in Unstackable \ hidden' /\ t # NULL =>
               \A u \in Members(trigs[l]) \ {old} : ~Alike(what[u].mask, what'[t].mask),
           world' = world
    PROVE  OneEach'
<1> SUFFICES ASSUME NEW m \in Unstackable, m \notin hidden',
                    NEW u \in Members(trigs'[m]), NEW v \in Members(trigs'[m]),
                    Alike(what'[u].mask, what'[v].mask)
             PROVE  u = v
  BY DEF OneEach, Alike
<1>1. m \in Lists /\ m \notin hidden /\ NULL \notin Trigger /\ l \in Lists
  BY TriggersAssumption DEF TableStep, Unstackable, Lists
<1>2. \A x, y \in Members(trigs[m]) : Alike(what[x].mask, what[y].mask) => x = y
  BY <1>1 DEF OneEach
<1>10. Alike(what'[v].mask, what'[u].mask)
  BY DEF Alike
<1>3. \A x \in Members(trigs[m]) : x \in Trigger /\ mem[x] = "linked"
  BY <1>1, TableTypes
<1>4. \A x \in Members(trigs[m]) : x # old => what'[x] = what[x]
  BY <1>3 DEF TableStep
<1>5. CASE m # l
  <2>1. u \in Members(trigs[m]) /\ v \in Members(trigs[m])
    BY <1>1, <1>5, TableAfter
  <2>2. u # old /\ v # old
    <3>1. ASSUME NEW x \in Members(trigs[m]), x = old PROVE FALSE
      <4>1. x # NULL
        BY <1>1, <1>3
      <4>2. x \in Members(trigs[l])
        BY <3>1, <4>1, TableAfter
      <4>3. what[x].list = l /\ what[x].list = m
        BY <1>1, <3>1, <4>2, TableTypes
      <4> QED BY <1>5, <4>3
    <3> QED BY <2>1, <3>1
  <2> QED BY <1>2, <1>4, <2>1, <2>2
<1>6. CASE m = l
  <2>1. \A x \in Members(trigs'[m]) : (x \in Members(trigs[m]) /\ x # old) \/ (x = t /\ t # NULL)
    BY <1>6, TableAfter
  <2>2. \A x \in Members(trigs[m]) \ {old} : t # NULL => ~Alike(what'[x].mask, what'[t].mask)
    BY <1>1, <1>4, <1>6
  <2> QED BY <1>2, <1>4, <1>10, <2>1, <2>2
<1> QED BY <1>5, <1>6
-----------------------------------------------------------------------------
\* Around a trigger of the list: what is due is behind it, what has run is it or before it.
LEMMA DividesAt ==
    ASSUME NEW l, IsList(l, Trigger), NEW x \in Members(l), NEW c, c = Successor(l, x, NULL)
    PROVE  /\ c # NULL => c \in Members(l)
           /\ \A d : (c # NULL /\ (d = c \/ Ahead(l.items, c, d))) <=> Ahead(l.items, x, d)
           /\ \A r \in Members(l) : (c # NULL => Ahead(l.items, r, c)) <=>
                                      r = x \/ Ahead(l.items, r, x)
<1>1. /\ c # NULL => /\ c \in Members(l) /\ Ahead(l.items, x, c)
                     /\ \A y : Ahead(l.items, x, y) => y = c \/ Ahead(l.items, c, y)
      /\ c = NULL => \A y : ~Ahead(l.items, x, y)
  BY SMTT(30), NextIsNext, TriggersAssumption
<1>2. /\ \A a, b : Ahead(l.items, a, b) => a \in Members(l) /\ b \in Members(l) /\ a # b
      /\ \A a, b : ~(Ahead(l.items, a, b) /\ Ahead(l.items, b, a))
      /\ \A a, b, d : Ahead(l.items, a, b) /\ Ahead(l.items, b, d) => Ahead(l.items, a, d)
      /\ \A a, b \in Members(l) : a = b \/ Ahead(l.items, a, b) \/ Ahead(l.items, b, a)
  BY AheadOrders
<1>3. ASSUME NEW d
      PROVE  (c # NULL /\ (d = c \/ Ahead(l.items, c, d))) <=> Ahead(l.items, x, d)
  <2>1. CASE c = NULL
    BY <1>1, <2>1
  <2>2. CASE c # NULL
    BY <1>1, <1>2, <2>2
  <2> QED BY <2>1, <2>2
<1>4. ASSUME NEW r \in Members(l)
      PROVE  (c # NULL => Ahead(l.items, r, c)) <=> r = x \/ Ahead(l.items, r, x)
  <2>1. CASE c = NULL
    <3>1. r = x \/ Ahead(l.items, r, x)
      BY <1>1, <1>2, <2>1
    <3> QED BY <2>1, <3>1
  <2>2. CASE c # NULL
    <3>1. ASSUME Ahead(l.items, r, c) PROVE r = x \/ Ahead(l.items, r, x)
      <4> SUFFICES ASSUME Ahead(l.items, x, r) PROVE FALSE
        BY <1>2
      <4>1. r = c \/ Ahead(l.items, c, r)
        BY <1>1, <2>2
      <4> QED BY <1>2, <3>1, <4>1
    <3>2. ASSUME r = x \/ Ahead(l.items, r, x) PROVE Ahead(l.items, r, c)
      BY <1>1, <1>2, <2>2, <3>2
    <3> QED BY <2>2, <3>1, <3>2
  <2> QED BY <2>1, <2>2
<1> QED BY <1>1, <1>3, <1>4

\* Whatever a handler binds and unbinds, if it is not rash, divides the list as before.
LEMMA StepKeepsWalking ==
    ASSUME Types, Walking, NEW l, NEW old, NEW t, TableStep(l, old, t), UNCHANGED <<world, place>>,
           pc \in {"idle", "handler"}
    PROVE  Walking'
<1> SUFFICES ASSUME ~rash'
             PROVE  /\ IsInjective(ran')
                    /\ pc' = "begin" => due' = << >>
                    /\ pc' \in {"visit", "handler"} =>
                          /\ Divides(trigs[walks[1]], Cursor)'
                          /\ due' # << >> => Wants(walks'[1]) \subseteq has'
                    /\ pc' = "visit" => OneIsDue(trigs[walks[1]], walks[1])'
                    /\ pc' = "handler" =>
                          /\ InList(at)' => at' \in Members(trigs'[walks'[1]])
                          /\ walks'[1] \in {"pub", "join"} => due' = << >>
  BY DEF Walking
<1>1. /\ ~rash /\ (t # NULL => t # at) /\ (old # NULL => ~Undermines(old))
      /\ pc' = pc /\ at' = at /\ walks' = walks /\ hits' = hits /\ has' = has
      /\ l \in Lists
  BY DEF TableStep, place
<1>2. /\ due \in Seq(Trigger) /\ ran \in Seq(Trigger) /\ NULL \notin Trigger
      /\ Thinned(due', due, {old, t}) /\ Thinned(ran', ran, {old, t})
  BY TableTypes DEF TableStep
<1>3. IsInjective(ran')
  BY <1>1, <1>2, ThinnedFacts DEF Walking
<1>4. due = << >> => due' = << >>
  BY <1>2, ThinnedEmpty
<1>5. CASE pc = "idle"
  BY <1>1, <1>3, <1>5
<1>6. CASE pc = "handler"
  <2> DEFINE w == walks[1]
             L == trigs[w]
             M == trigs'[w]
  <2>0. /\ w \in Lists /\ at \in Trigger /\ pc' = "handler"
    <3>1. walks \in Seq(Lists) /\ walks # << >>
      BY <1>6 DEF Types
    <3> QED BY <1>1, <1>2, <1>6, <3>1, TableTypes DEF Types
  <2>1. /\ Divides(L, NextOf(at))
        /\ due # << >> => Wants(w) \subseteq has
        /\ InList(at) => at \in Members(L)
        /\ w \in {"pub", "join"} => due = << >>
    BY <1>1, <1>6 DEF Walking, Cursor
  <2>2. /\ IsList(L, Trigger) /\ IsList(M, Trigger)
        /\ \A u : u \in Members(L) /\ u # old => u \in Members(M)
        /\ \A x, y : x # old /\ y # old /\ Ahead(L.items, x, y) => Ahead(M.items, x, y)
    <3>1. CASE w = l
      <4>1. /\ IsList(trigs[l], Trigger) /\ IsList(trigs'[l], Trigger)
            /\ \A u : u \in Members(trigs[l]) /\ u # old => u \in Members(trigs'[l])
            /\ \A x, y : x # old /\ y # old /\ Ahead(trigs[l].items, x, y) =>
                           Ahead(trigs'[l].items, x, y)
        <5>1. IsList(trigs[l], Trigger)
          BY <1>1, TableTypes
        <5>2. /\ IsList(trigs'[l], Trigger)
              /\ \A u : u \in Members(trigs'[l]) <=>
                         (u \in Members(trigs[l]) /\ u # old) \/ (u = t /\ u # NULL)
              /\ \A x, y : x # old /\ y # old /\ Ahead(trigs[l].items, x, y) =>
                             Ahead(trigs'[l].items, x, y)
          BY TableAfter
        <5> QED BY <5>1, <5>2
      <4> QED BY <3>1, <4>1
    <3>2. CASE w # l
      <4>1. M = L
        BY <2>0, <3>2, TableAfter
      <4> QED BY <2>0, <4>1, TableTypes
    <3> QED BY <3>1, <3>2
  <2>3. /\ \A k \in DOMAIN due' : due'[k] # old /\ \E i \in DOMAIN due : due'[k] = due[i]
        /\ \A j, k \in DOMAIN due' : j < k =>
             \E i, m \in DOMAIN due : i < m /\ due'[j] = due[i] /\ due'[k] = due[m]
        /\ \A k \in DOMAIN ran' : ran'[k] # old /\ \E i \in DOMAIN ran : ran'[k] = ran[i]
    BY <1>2, ThinnedFacts
  <2>4. /\ \A k \in DOMAIN due' : due'[k] \in Members(L) /\ due'[k] \in Members(M)
        /\ \A k \in DOMAIN ran' : ran'[k] \in Members(L) /\ ran'[k] \in Members(M)
        /\ \A j, k \in DOMAIN due' : j < k => Ahead(M.items, due'[j], due'[k])
    BY <2>1, <2>2, <2>3 DEF Divides
  <2>5. \A k \in DOMAIN due' : what'[due'[k]].mask \in hits
    <3> SUFFICES ASSUME NEW k \in DOMAIN due' PROVE what'[due'[k]].mask \in hits
      OBVIOUS
    <3>1. what[due'[k]].mask \in hits
      BY <2>1, <2>3 DEF Divides
    <3>2. due'[k] \in Trigger /\ mem[due'[k]] = "linked" /\ due'[k] # old
      BY <2>0, <2>3, <2>4, TableTypes
    <3>3. what'[due'[k]] = what[due'[k]]
      BY <3>2 DEF TableStep
    <3> QED BY <3>1, <3>3
  <2>6. /\ InList(at)' <=> mem'[at] = "linked"
        /\ Cursor' = NextOf(at)'
    BY <1>1, <2>0 DEF InList, Cursor
  <2>7. mem'[at] = IF at = old THEN mem'[at] ELSE mem[at]
    BY <1>1, <1>2, <2>0 DEF TableStep
  <2>8. (at = old \/ ~InList(at)) => mem'[at] # "linked"
    BY <1>1, <1>2, <2>0 DEF TableStep, InList
  \* What follows from where the trigger that runs is now.
  <2> DEFINE n == NextOf(at)
             Split(c) ==
               /\ c # NULL => c \in Members(M)
               /\ \A k \in DOMAIN due' : c # NULL /\ (due'[k] = c \/ Ahead(M.items, c, due'[k]))
               /\ \A k \in DOMAIN ran' : c # NULL => Ahead(M.items, ran'[k], c)
  <2>9. CASE InList(at) /\ at # old
    <3>1. mem'[at] = "linked" /\ what'[at] = what[at] /\ what[at].list = w
      <4>1. mem[at] = "linked" /\ at # t
        BY <1>1, <1>2, <2>0, <2>9 DEF InList
      <4>2. what'[at] = what[at] /\ mem'[at] = "linked"
        BY <2>0, <2>9, <4>1 DEF TableStep
      <4> QED BY <2>0, <2>1, <2>9, <4>2, TableTypes
    <3>2. at \in Members(L) /\ at \in Members(M)
      BY <2>1, <2>2, <2>9
    <3>3. n = Successor(L, at, NULL)
      BY <2>9, <3>1 DEF NextOf
    <3>4. NextOf(at)' = Successor(M, at, NULL)
      BY <1>1, <3>1 DEF NextOf, InList
    <3>5. PICK c : c = Successor(M, at, NULL)
      OBVIOUS
    <3>6. \A k \in DOMAIN due' : Ahead(M.items, at, due'[k])
      <4>1. \A i \in DOMAIN due : Ahead(L.items, at, due[i])
        BY <2>1, <2>2, <3>2, <3>3, DividesAt DEF Divides
      <4> QED BY <2>2, <2>3, <2>9, <4>1
    <3>7. \A k \in DOMAIN ran' : ran'[k] = at \/ Ahead(M.items, ran'[k], at)
      <4>1. \A i \in DOMAIN ran : ran[i] = at \/ Ahead(L.items, ran[i], at)
        BY <2>1, <2>2, <3>2, <3>3, DividesAt DEF Divides
      <4> QED BY <2>2, <2>3, <2>9, <4>1
    <3>8. Split(c)
      <4>1. /\ c # NULL => c \in Members(M)
            /\ \A d : (c # NULL /\ (d = c \/ Ahead(M.items, c, d))) <=> Ahead(M.items, at, d)
            /\ \A r \in Members(M) : (c # NULL => Ahead(M.items, r, c)) <=>
                                       r = at \/ Ahead(M.items, r, at)
        BY <2>2, <3>2, <3>5, DividesAt
      <4> QED BY <2>4, <3>6, <3>7, <4>1
    <3>9. Cursor' = c /\ (InList(at)' => at' \in Members(M))
      BY <1>1, <2>6, <3>2, <3>4, <3>5
    <3>10. Divides(trigs[walks[1]], Cursor)'
      BY <1>1, <2>4, <2>5, <3>8, <3>9 DEF Divides
    <3> QED BY <1>1, <1>3, <1>4, <2>0, <2>1, <3>9, <3>10
  <2>10. CASE ~(InList(at) /\ at # old)
    <3>1. mem'[at] # "linked"
      BY <2>8, <2>10
    <3>2. left'[at] = n
      <4>1. at \in Trigger \ {t} /\ (left'[at] = IF at = old THEN NextOf(at) ELSE left[at])
        BY <1>1, <1>2, <2>0 DEF TableStep
      <4> QED BY <2>0, <2>10, <4>1, NextTypes
    <3>3. NextOf(at)' = n
      BY <1>1, <3>1, <3>2 DEF NextOf, InList
    <3>4. PICK c : c = n
      OBVIOUS
    <3>5. c # NULL => c \in Members(L) /\ c # old
      <4> SUFFICES ASSUME c # NULL PROVE c \in Members(L) /\ c # old
        OBVIOUS
      <4>1. c \in Members(L)
        BY <2>1, <3>4 DEF Divides
      <4>2. CASE InList(at) /\ at = old
        <5>1. at \in Members(L) /\ what[at].list = w
          BY <2>0, <2>1, <4>2, TableTypes
        <5>2. c = Successor(L, at, NULL)
          BY <3>4, <4>2, <5>1 DEF NextOf
        <5>3. Ahead(L.items, at, c)
          BY <2>2, <5>1, <5>2, NextIsNext, TriggersAssumption
        <5> QED BY <2>2, <4>1, <4>2, <5>3, AheadOrders
      <4>3. CASE ~InList(at)
        <5>1. c = left[at]
          BY <2>0, <3>4, <4>3, NextTypes
        <5> QED BY <1>1, <1>2, <2>0, <4>1, <4>3, <5>1 DEF Undermines
      <4> QED BY <2>10, <4>1, <4>2, <4>3
    <3>6. Split(c)
      <4>1. c # NULL => c \in Members(M)
        BY <2>2, <3>5
      <4>2. \A i \in DOMAIN due : c # NULL /\ (due[i] = c \/ Ahead(L.items, c, due[i]))
        BY <2>1, <3>4 DEF Divides
      <4>3. \A i \in DOMAIN ran : c # NULL => Ahead(L.items, ran[i], c)
        BY <2>1, <3>4 DEF Divides
      <4>4. \A k \in DOMAIN due' : c # NULL /\ (due'[k] = c \/ Ahead(M.items, c, due'[k]))
        BY <2>2, <2>3, <3>5, <4>2
      <4>5. \A k \in DOMAIN ran' : c # NULL => Ahead(M.items, ran'[k], c)
        BY <2>2, <2>3, <3>5, <4>3
      <4> QED BY <4>1, <4>4, <4>5
    <3>7. Cursor' = c /\ ~InList(at)'
      BY <2>6, <3>1, <3>3, <3>4
    <3>8. Divides(trigs[walks[1]], Cursor)'
      BY <1>1, <2>4, <2>5, <3>6, <3>7 DEF Divides
    <3> QED BY <1>1, <1>3, <1>4, <2>0, <2>1, <3>7, <3>8
  <2> QED BY <2>9, <2>10
<1> QED BY <1>5, <1>6
-----------------------------------------------------------------------------
\* What a walk from the kept pointer meets can be taken out by one.
LEMMA MetIsForward ==
    ASSUME NEW l, IsList(l, Trigger), NEW x \in ToSet(Forward(l))
    PROVE  InForward(l, x) /\ x \in Members(l) /\ x \in Trigger
<1>1. /\ l.items \in Seq(Trigger) /\ DOMAIN l.items = 1..Len(l.items) /\ Len(l.items) \in Nat
      /\ l.head \in 0..Len(l.items)
  BY DEF IsList
<1>2. l.head # 0
  <2> SUFFICES ASSUME l.head = 0 PROVE FALSE
    OBVIOUS
  <2>1. Forward(l) = << >>
    BY DEF Forward
  <2> QED BY <2>1 DEF ToSet
<1> DEFINE f == SubSeq(l.items, l.head, Len(l.items))
<1>3. /\ f \in Seq(Trigger) /\ Len(f) = Len(l.items) - l.head + 1
      /\ \A i \in 1..(Len(l.items) - l.head + 1) : f[i] = l.items[l.head + i - 1]
  <2>1. \A i \in l.head..Len(l.items) : l.items[i] \in Trigger
    BY <1>1, <1>2
  <2> QED BY <1>1, <1>2, <2>1, SubSeqProperties
<1> HIDE DEF f
<1>4. Forward(l) = f
  BY <1>2 DEF Forward, f
<1>5. PICK i \in 1..Len(f) : x = f[i]
  BY <1>1, <1>3, <1>4 DEF ToSet
<1> DEFINE k == l.head + i - 1
<1>6. k \in 1..Len(l.items) /\ l.head <= k /\ l.items[k] = x
  BY <1>1, <1>2, <1>3, <1>5
<1>7. x \in Members(l) /\ Position(l, x) = k
  BY <1>6, PositionIsUnique
<1>8. x \in Trigger
  BY <1>7, PositionOfMember
<1> QED BY <1>6, <1>7, <1>8 DEF InForward

\* From the front it meets all.
LEMMA FrontMeetsAll ==
    ASSUME NEW l, IsList(l, Trigger), l.head <= 1
    PROVE  ToSet(Forward(l)) = Members(l)
<1>1. /\ l.items \in Seq(Trigger) /\ l.head \in 0..Len(l.items) /\ Len(l.items) \in Nat
      /\ l.head = 0 <=> l.items = << >>
  BY DEF IsList
<1>2. CASE l.head = 0
  BY <1>1, <1>2 DEF Forward, Members
<1>3. CASE l.head = 1
  BY <1>1, <1>3, SubSeqFull DEF Forward, Members
<1> QED BY <1>1, <1>2, <1>3

\* The triggers of some masks that egg_bind and egg_unbind meet.
LEMMA WithMaskMeans ==
    ASSUME Types, NEW l \in Lists, NEW M
    PROVE  /\ WithMask(l, M) \in Seq(Trigger)
           /\ \A x : x \in ToSet(WithMask(l, M)) <=>
                       x \in ToSet(Forward(trigs[l])) /\ what[x].mask \in M
<1> DEFINE seen == Forward(trigs[l])
           I == {i \in DOMAIN seen : what[seen[i]].mask \in M}
<1>1. IsList(trigs[l], Trigger)
  BY TableTypes
<1>2. seen \in Seq(Trigger)
  <2>1. /\ trigs[l].items \in Seq(Trigger) /\ trigs[l].head \in 0..Len(trigs[l].items)
        /\ Len(trigs[l].items) \in Nat
    BY <1>1 DEF IsList
  <2>2. CASE trigs[l].head = 0
    BY <2>2 DEF Forward
  <2>3. CASE trigs[l].head # 0
    <3>1. \A i \in trigs[l].head..Len(trigs[l].items) : trigs[l].items[i] \in Trigger
      BY <2>1, <2>3
    <3>2. SubSeq(trigs[l].items, trigs[l].head, Len(trigs[l].items)) \in Seq(Trigger)
      BY <2>1, <3>1, SubSeqProperties
    <3> QED BY <2>3, <3>2 DEF Forward
  <2> QED BY <2>2, <2>3
<1>3. WithMask(l, M) = Picked(seen, I)
  BY DEF WithMask
<1>4. DOMAIN seen = 1..Len(seen) /\ \A i : i \in I <=> i \in DOMAIN seen /\ what[seen[i]].mask \in M
  BY <1>2
<1> HIDE DEF I, seen
<1>5. Picked(seen, I) \in Seq(Trigger) /\ ToSet(Picked(seen, I)) = {seen[i] : i \in I \cap (1..Len(seen))}
  BY <1>2, PickedProperties
<1>6. \A x : x \in {seen[i] : i \in I \cap (1..Len(seen))} <=> x \in ToSet(seen) /\ what[x].mask \in M
  BY <1>4 DEF ToSet
<1> QED BY <1>3, <1>5, <1>6 DEF seen

LEMMA SameMaskMeans ==
    ASSUME Types, NEW l \in Lists, NEW m
    PROVE  /\ SameMask(l, m) \in Seq(Trigger)
           /\ \A x \in ToSet(SameMask(l, m)) : x \in ToSet(Forward(trigs[l]))
BY WithMaskMeans DEF SameMask

\* Whatever its case.
LEMMA AlikeMaskMeans ==
    ASSUME Types, NEW l \in Lists, NEW m \in Mask
    PROVE  /\ AlikeMask(l, m) \in Seq(Trigger)
           /\ \A x \in ToSet(Forward(trigs[l])) :
                 x \in ToSet(AlikeMask(l, m)) <=> what[x].mask \in Mask /\ Alike(what[x].mask, m)
           /\ \A x \in ToSet(AlikeMask(l, m)) : x \in ToSet(Forward(trigs[l]))
<1> DEFINE M == {x \in Mask : Alike(x, m)}
<1>1. AlikeMask(l, m) = WithMask(l, M)
  BY DEF AlikeMask
<1>2. \A y : y \in M <=> y \in Mask /\ Alike(y, m)
  OBVIOUS
<1> HIDE DEF M
<1> QED BY <1>1, <1>2, WithMaskMeans

LEMMA FirstIsIn ==
    ASSUME NEW s \in Seq(Trigger), s # << >>
    PROVE  s[1] \in ToSet(s)
<1>1. 1 \in DOMAIN s
  OBVIOUS
<1> QED BY <1>1 DEF ToSet

LEMMA ThinsBoth ==
    ASSUME NEW s \in Seq(Trigger), NEW old, NEW t
    PROVE  /\ Thinned(Without(s, t), s, {NULL, t}) /\ Thinned(Without(s, t), s, {t, NULL})
           /\ Thinned(Without(Without(s, old), t), s, {old, t})
<1> DEFINE a == Without(s, old)
           b == Without(a, t)
           d == Without(s, t)
<1>1. Thinned(a, s, {old})
  BY WithoutThins
<1> HIDE DEF a
<1>2. Thinned(b, a, {t})
  BY <1>1, WithoutThins DEF Thinned
<1>3. Thinned(d, s, {t})
  BY WithoutThins
<1> HIDE DEF b, d
<1>4. Thinned(b, s, {old} \cup {t})
  BY <1>1, <1>2, ThinnedTwice
<1>5. Thinned(d, s, {t} \cup {NULL})
  BY <1>3, ThinnedNarrow
<1>6. {old} \cup {t} = {old, t} /\ {t} \cup {NULL} = {NULL, t} /\ {t} \cup {NULL} = {t, NULL}
  OBVIOUS
<1> QED BY <1>4, <1>5, <1>6 DEF a, b, d
-----------------------------------------------------------------------------
Record(l, m, c, g) == [list |-> l, mask |-> m, cmd |-> c, lang |-> g]

LEMMA BindNewSteps ==
    ASSUME Types, FrontIsKept, NEW l, NEW m \in Mask, NEW c \in Command, NEW g \in Language,
           NEW t \in Trigger, BindNew(l, m, c, g, t)
    PROVE  /\ TableStep(l, NULL, t)
           /\ l \in Unstackable \ hidden' =>
                \A u \in Members(trigs[l]) \ {NULL} : ~Alike(what[u].mask, what'[t].mask)
<1>1. /\ l \in Lists /\ t # NULL /\ mem[t] = "free"
      /\ what' = [what EXCEPT ![t] = Record(l, m, c, g)]
      /\ left' = [left EXCEPT ![t] = NULL]
      /\ mem' = [mem EXCEPT ![t] = "linked"]
      /\ trigs' = [trigs EXCEPT ![l] = ListAdd(trigs[l], t)]
      /\ due' = Without(due, t) /\ ran' = Without(ran, t)
      /\ rash' = (rash \/ t = at) /\ pc' = pc /\ hidden' = hidden
  BY TriggersAssumption DEF BindNew, New, Bindable, Linked, Forgets, Record
<1>2. Record(l, m, c, g) \in TriggerRecord /\ Record(l, m, c, g).list = l /\ Record(l, m, c, g).mask = m
  BY <1>1 DEF Record, TriggerRecord
<1> HIDE DEF Record
<1>3. /\ what' \in [Trigger -> TriggerRecord] /\ what'[t] = Record(l, m, c, g)
      /\ \A u \in Trigger : u # t => what'[u] = what[u] /\ left'[u] = left[u] /\ mem'[u] = mem[u]
      /\ left' \in [Trigger -> Trigger \cup {NULL}]
      /\ mem' \in [Trigger -> {"free", "linked", "unlinked"}] /\ mem'[t] = "linked"
  BY <1>1, <1>2, TableTypes
<1>4. Thinned(due', due, {NULL, t}) /\ Thinned(ran', ran, {NULL, t})
  BY <1>1, TableTypes, ThinsBoth
<1>5. Changed(trigs[l], NULL, t) = ListAdd(trigs[l], t)
  BY <1>1 DEF Changed
<1>6. rash' \in BOOLEAN /\ (rash' <=> rash \/ (t # NULL /\ t = at) \/ (NULL # NULL /\ Undermines(NULL)))
  BY <1>1, TableTypes
<1>7. \A u \in Trigger : u # NULL
  BY TriggersAssumption
<1>8. TableStep(l, NULL, t)
  BY <1>1, <1>2, <1>3, <1>4, <1>5, <1>6, <1>7 DEF TableStep
<1>9. ASSUME l \in Unstackable \ hidden', NEW u \in Members(trigs[l]), Alike(what[u].mask, what'[t].mask)
      PROVE  FALSE
  <2>1. trigs[l].head <= 1 /\ IsList(trigs[l], Trigger)
    BY <1>1, <1>9, TableTypes DEF FrontIsKept
  <2>2. u \in ToSet(Forward(trigs[l])) /\ Alike(what[u].mask, m)
    BY <1>2, <1>3, <1>9, <2>1, FrontMeetsAll
  <2>5. what[u].mask \in Mask
    BY <1>1, <1>9, TableTypes DEF TriggerRecord
  <2>3. u \in ToSet(AlikeMask(l, m))
    BY <1>1, <2>2, <2>5, AlikeMaskMeans
  <2>4. AlikeMask(l, m) = << >>
    BY <1>9 DEF BindNew, Replaced
  <2> QED BY <2>3, <2>4 DEF ToSet
<1> QED BY <1>8, <1>9

LEMMA BindReplacingSteps ==
    ASSUME Types, OneEach, NEW l, NEW m \in Mask, NEW c \in Command, NEW g \in Language,
           NEW t \in Trigger, BindReplacing(l, m, c, g, t)
    PROVE  \E old : /\ TableStep(l, old, t)
                    /\ l \in Unstackable \ hidden' =>
                         \A u \in Members(trigs[l]) \ {old} : ~Alike(what[u].mask, what'[t].mask)
<1>1. PICK old : old = Replaced(l, m)[1]
  OBVIOUS
<1>2. /\ l \in Lists /\ t # NULL /\ mem[t] = "free"
      /\ what' = [what EXCEPT ![t] = Record(l, m, c, g)]
      /\ left' = [left EXCEPT ![old] = NextOf(old), ![t] = NULL]
      /\ mem' = [mem EXCEPT ![t] = "linked", ![old] = "unlinked"]
      /\ trigs' = [trigs EXCEPT ![l] = ListAdd(IF old = NULL THEN trigs[l] ELSE ListDel(trigs[l], old), t)]
      /\ due' = Without(Without(due, old), t) /\ ran' = Without(Without(ran, old), t)
      /\ rash' = (rash \/ t = at \/ Undermines(old)) /\ pc' = pc
      /\ hidden' = IF Position(trigs[l], old) > 2 THEN hidden \cup {l} ELSE hidden
      /\ Replaced(l, m) # << >>
  BY <1>1, TriggersAssumption DEF BindReplacing, Bindable, Linked, Record, Hides
<1>3. /\ AlikeMask(l, m) = Replaced(l, m) /\ l \in Unstackable
  BY <1>2 DEF Replaced
<1>4. old \in ToSet(AlikeMask(l, m))
  BY <1>1, <1>2, <1>3, AlikeMaskMeans, FirstIsIn
<1>5. /\ InForward(trigs[l], old) /\ old \in Members(trigs[l]) /\ old \in Trigger
      /\ Alike(what[old].mask, m)
  BY <1>2, <1>4, AlikeMaskMeans, MetIsForward, TableTypes
<1>6. old # NULL /\ old # t /\ mem[old] = "linked"
  BY <1>2, <1>5, TableTypes
<1>7. Record(l, m, c, g) \in TriggerRecord /\ Record(l, m, c, g).list = l /\ Record(l, m, c, g).mask = m
  BY <1>2 DEF Record, TriggerRecord
<1> HIDE DEF Record
<1>8. NextOf(old) \in Trigger \cup {NULL}
  BY <1>5, NextTypes
<1>9. /\ what' \in [Trigger -> TriggerRecord] /\ what'[t] = Record(l, m, c, g)
      /\ \A u \in Trigger : u # t => what'[u] = what[u]
  BY <1>2, <1>7, TableTypes
<1>10. /\ left' \in [Trigger -> Trigger \cup {NULL}] /\ left'[old] = NextOf(old)
       /\ \A u \in Trigger : u # t /\ u # old => left'[u] = left[u]
  BY SMTT(30), <1>2, <1>5, <1>6, <1>8, TableTypes
<1>11. /\ mem' \in [Trigger -> {"free", "linked", "unlinked"}]
       /\ mem'[t] = "linked" /\ mem'[old] = "unlinked"
       /\ \A u \in Trigger : u # t /\ u # old => mem'[u] = mem[u]
  BY <1>2, <1>5, <1>6, TableTypes
<1>12. Thinned(due', due, {old, t}) /\ Thinned(ran', ran, {old, t})
  BY <1>2, TableTypes, ThinsBoth
<1>13. Changed(trigs[l], old, t) = ListAdd(IF old = NULL THEN trigs[l] ELSE ListDel(trigs[l], old), t)
  BY <1>2 DEF Changed
<1>14. rash' \in BOOLEAN /\ (rash' <=> rash \/ (t # NULL /\ t = at) \/ (old # NULL /\ Undermines(old)))
  BY <1>2, <1>6, TableTypes DEF Undermines
<1>15. \A u \in Trigger : mem[u] = "linked" => u # t
  BY <1>2
<1>16. TableStep(l, old, t)
  BY <1>2, <1>5, <1>6, <1>7, <1>9, <1>10, <1>11, <1>12, <1>13, <1>14, <1>15 DEF TableStep
<1>17. ASSUME l \in Unstackable \ hidden', NEW u \in Members(trigs[l]) \ {old},
              Alike(what[u].mask, what'[t].mask)
       PROVE  FALSE
  <2>1. Alike(what[u].mask, m)
    BY <1>7, <1>9, <1>17
  <2>2. Alike(what[u].mask, what[old].mask)
    BY <1>5, <2>1 DEF Alike
  <2>3. l \in Unstackable \ hidden
    BY <1>2, <1>3, <1>17
  <2> QED BY <1>5, <1>17, <2>2, <2>3 DEF OneEach
<1> QED BY <1>16, <1>17

LEMMA UnbindSteps ==
    ASSUME Types, NEW l, NEW m \in Mask, NEW c \in Command, Unbind(l, m, c)
    PROVE  \E old : TableStep(l, old, NULL)
<1> DEFINE same == SameMask(l, m)
           I == {i \in DOMAIN same : what[same[i]].cmd = c}
           found == Picked(same, I)
<1>1. PICK old : old = found[1]
  OBVIOUS
<1>2. /\ l \in Lists /\ found # << >>
      /\ trigs' = [trigs EXCEPT ![l] = ListDel(trigs[l], old)]
      /\ mem' = [mem EXCEPT ![old] = "free"]
      /\ Abandons(old)
      /\ due' = Without(due, old) /\ ran' = Without(ran, old)
      /\ rash' = (rash \/ Undermines(old)) /\ pc' = pc
      /\ hidden' = IF Position(trigs[l], old) > 2 THEN hidden \cup {l} ELSE hidden
  BY <1>1 DEF Unbind, Unbindable, Freed, Forgets, Hides
<1>3. same \in Seq(Trigger)
  BY <1>2, SameMaskMeans
<1> HIDE DEF same
<1>4. found \in Seq(Trigger) /\ ToSet(found) = {same[i] : i \in I \cap (1..Len(same))}
  BY <1>3, PickedProperties
<1>5. old \in ToSet(found)
  BY <1>1, <1>2, <1>4, FirstIsIn
<1>6. old \in ToSet(same)
  BY <1>3, <1>4, <1>5 DEF ToSet
<1> HIDE DEF found
<1>7. InForward(trigs[l], old) /\ old \in Members(trigs[l]) /\ old \in Trigger
  BY <1>2, <1>6, SameMaskMeans, MetIsForward, TableTypes DEF same
<1>8. old # NULL /\ mem[old] = "linked" /\ NULL \notin Trigger
  BY <1>2, <1>7, TableTypes
<1>9. /\ mem' \in [Trigger -> {"free", "linked", "unlinked"}] /\ mem'[old] = "free"
      /\ \A u \in Trigger : u # old => mem'[u] = mem[u]
  BY <1>2, <1>7, TableTypes
<1>10. Blank \in TriggerRecord
  BY TriggersAssumption DEF Blank, TriggerRecord, Lists
<1>11. /\ what' \in [Trigger -> TriggerRecord] /\ left' \in [Trigger -> Trigger \cup {NULL}]
       /\ \A u \in Trigger : u # old => what'[u] = what[u]
       /\ at \in Trigger => left'[at] = IF at = old THEN NextOf(at) ELSE left[at]
  <2>1. NextOf(old) \in Trigger \cup {NULL}
    BY <1>7, NextTypes
  <2>2. CASE old = at
    <3>1. left' = [left EXCEPT ![old] = NextOf(old)] /\ what' = what
      BY <1>2, <2>2 DEF Abandons
    <3> QED BY <1>7, <2>1, <2>2, <3>1, TableTypes
  <2>3. CASE old # at
    <3>1. left' = [left EXCEPT ![old] = NULL] /\ what' = [what EXCEPT ![old] = Blank]
      BY <1>2, <2>3 DEF Abandons
    <3> QED BY <1>7, <1>10, <2>3, <3>1, TableTypes
  <2> QED BY <2>2, <2>3
<1>12. Thinned(due', due, {old, NULL}) /\ Thinned(ran', ran, {old, NULL})
  BY <1>2, TableTypes, ThinsBoth
<1>13. Changed(trigs[l], old, NULL) = ListDel(trigs[l], old)
  BY <1>8 DEF Changed
<1>14. rash' \in BOOLEAN /\ (rash' <=> rash \/ (NULL # NULL /\ NULL = at) \/ (old # NULL /\ Undermines(old)))
  BY <1>2, <1>8, TableTypes DEF Undermines
<1>15. TableStep(l, old, NULL)
  BY <1>2, <1>7, <1>8, <1>9, <1>11, <1>12, <1>13, <1>14 DEF TableStep
<1> QED BY <1>15
-----------------------------------------------------------------------------
LEMMA TableStepKeeps ==
    ASSUME IInv, NEW l, NEW old, NEW t, TableStep(l, old, t),
           l \in Unstackable \ hidden' /\ t # NULL =>
               \A u \in Members(trigs[l]) \ {old} : ~Alike(what[u].mask, what'[t].mask),
           UNCHANGED <<world, place>>, calls' \in 0..MaxCalls, again' \in BOOLEAN,
           pc \in {"idle", "handler"}
    PROVE  IInv'
<1>1. Types /\ FrontIsKept /\ OneEach /\ Walking
  BY DEF IInv
<1> QED BY <1>1, StepKeepsTypes, StepKeepsFront, StepKeepsOneEach, StepKeepsWalking DEF IInv

\* A script's call, between two lines or from a handler.
LEMMA CallKeeps ==
    ASSUME IInv, Call, UNCHANGED <<world, place>>, calls' \in 0..MaxCalls, again' \in BOOLEAN,
           pc \in {"idle", "handler"}
    PROVE  IInv'
<1>1. Types /\ FrontIsKept /\ OneEach /\ Walking
  BY DEF IInv
<1>2. PICK l \in Busy, m \in Mask, c \in Command :
         \/ \E g \in world.langs, t \in Trigger : BindNew(l, m, c, g, t) \/ BindReplacing(l, m, c, g, t)
         \/ Unbind(l, m, c) \/ UnbindFails(l, m, c)
  BY DEF Call
<1>3. world.langs \subseteq Language
  BY <1>1, TriggersAssumption DEF Types, TypeOK
<1>4. ASSUME NEW g \in world.langs, NEW t \in Trigger, BindNew(l, m, c, g, t)
      PROVE  IInv'
  <2>1. /\ TableStep(l, NULL, t)
        /\ l \in Unstackable \ hidden' =>
             \A u \in Members(trigs[l]) \ {NULL} : ~Alike(what[u].mask, what'[t].mask)
    BY <1>1, <1>3, <1>4, BindNewSteps
  <2> QED BY <2>1, TableStepKeeps
<1>5. ASSUME NEW g \in world.langs, NEW t \in Trigger, BindReplacing(l, m, c, g, t)
      PROVE  IInv'
  <2>1. PICK old : /\ TableStep(l, old, t)
                   /\ l \in Unstackable \ hidden' =>
                        \A u \in Members(trigs[l]) \ {old} : ~Alike(what[u].mask, what'[t].mask)
    BY <1>1, <1>3, <1>5, BindReplacingSteps
  <2> QED BY <2>1, TableStepKeeps
<1>6. ASSUME Unbind(l, m, c) PROVE IInv'
  <2>1. PICK old : TableStep(l, old, NULL)
    BY <1>1, <1>6, UnbindSteps
  <2> QED BY <2>1, TableStepKeeps
<1>7. ASSUME UnbindFails(l, m, c) PROVE IInv'
  <2>1. /\ pc' = "fault"
        /\ UNCHANGED <<world, trigs, mem, what, left, has, walks, hits, at, due, ran, rash, hidden>>
    BY <1>7 DEF UnbindFails, table, place
  <2>2. TypeOK'
    BY <1>1, <2>1 DEF Types, TypeOK
  <2>3. Types' /\ Walking'
    BY <1>1, <2>1, <2>2 DEF Types, Walking
  <2>4. FrontIsKept' /\ OneEach'
    BY <1>1, <2>1 DEF FrontIsKept, OneEach, Alike
  <2> QED BY <2>3, <2>4 DEF IInv
<1> QED BY <1>2, <1>4, <1>5, <1>6, <1>7
-----------------------------------------------------------------------------
\* The lists of a line.
LEMMA WalksAreLists ==
    ASSUME NEW k \in Kind
    PROVE  Walks[k] \in Seq(Lists)
<1>1. k \in {"private", "public", "JOIN", "PART", "QUIT", "TOPIC", "KICK", "NOTICE", "other"}
  BY DEF Kind, Walks
<1>2. /\ Walks["private"] = <<"msg", "msgm">> /\ Walks["public"] = <<"pub", "pubm">>
      /\ Walks["JOIN"] = <<"join">> /\ Walks["PART"] = <<"part">> /\ Walks["QUIT"] = << >>
      /\ Walks["TOPIC"] = <<"topc">> /\ Walks["KICK"] = <<"kick">>
      /\ Walks["NOTICE"] = <<"notc">> /\ Walks["other"] = <<"raw">>
  BY DEF Walks
<1>3. \A l, m \in Lists : <<l>> \in Seq(Lists) /\ <<l, m>> \in Seq(Lists)
  OBVIOUS
<1>4. << >> \in Seq(Lists)
  OBVIOUS
<1>5. /\ <<"msg", "msgm">> \in Seq(Lists) /\ <<"pub", "pubm">> \in Seq(Lists)
      /\ <<"join">> \in Seq(Lists) /\ <<"part">> \in Seq(Lists) /\ <<"topc">> \in Seq(Lists)
      /\ <<"kick">> \in Seq(Lists) /\ <<"notc">> \in Seq(Lists) /\ <<"raw">> \in Seq(Lists)
  BY <1>3 DEF Lists
<1> QED BY <1>1, <1>2, <1>4, <1>5

\* What trigger_match has still to walk gets less.
LEMMA RestsShrink ==
    ASSUME NEW w \in Rests, w \in Seq(Lists), w # << >>
    PROVE  Tail(w) \in Rests /\ Tail(w) \in Seq(Lists)
<1>0. PICK k \in Kind : \E n \in 1..(Len(Walks[k]) + 1) : w = SubSeq(Walks[k], n, Len(Walks[k]))
  BY DEF Rests
<1>1. PICK n \in 1..(Len(Walks[k]) + 1) : w = SubSeq(Walks[k], n, Len(Walks[k]))
  BY <1>0
<1>2. PICK s : s = Walks[k]
  OBVIOUS
<1>3. s \in Seq(Lists)
  BY <1>2, WalksAreLists
<1>4. n \in 1..Len(s)
  <2> SUFFICES ASSUME n = Len(s) + 1 PROVE FALSE
    BY <1>1, <1>2, <1>3
  <2>1. Len(s) \in Nat
    BY <1>3
  <2>2. SubSeq(s, n, Len(s)) = << >>
    BY <2>1, SubSeqEmpty
  <2> QED BY <1>1, <1>2, <2>2
<1>5. Tail(w) = SubSeq(s, n + 1, Len(s))
  BY <1>1, <1>2, <1>3, <1>4, HeadTailOfSubSeq
<1>6. n + 1 \in 1..(Len(s) + 1)
  BY <1>3, <1>4
<1>7. Tail(w) \in Seq(Lists)
  BY HeadTailProperties
<1>8. Tail(w) = SubSeq(Walks[k], n + 1, Len(Walks[k])) /\ n + 1 \in 1..(Len(Walks[k]) + 1)
  BY <1>2, <1>5, <1>6
<1>9. Tail(w) \in {SubSeq(Walks[k], m, Len(Walks[k])) : m \in 1..(Len(Walks[k]) + 1)}
  BY <1>8
<1> QED BY <1>7, <1>9 DEF Rests

LEMMA WalksAreRests ==
    ASSUME NEW k \in Kind
    PROVE  Walks[k] \in Rests /\ Walks[k] \in Seq(Lists)
<1>1. PICK s : s = Walks[k]
  OBVIOUS
<1>2. s \in Seq(Lists)
  BY <1>1, WalksAreLists
<1>3. SubSeq(s, 1, Len(s)) = s /\ 1 \in 1..(Len(s) + 1)
  BY <1>2, SubSeqFull
<1> QED BY <1>1, <1>2, <1>3 DEF Rests

\* A step of trigger_match leaves the lists as they are.
LineStep ==
    /\ UNCHANGED <<world, table, hidden>>
    /\ has' \subseteq Whole /\ walks' \in Rests /\ walks' \in Seq(Lists)
    /\ hits' \subseteq Mask /\ at' \in Trigger \cup {NULL}
    /\ pc' \in {"idle", "begin", "visit", "handler", "fault"}
    /\ calls' \in 0..MaxCalls /\ again' \in BOOLEAN
    /\ due' \in Seq(Trigger) /\ ran' \in Seq(Trigger) /\ rash' \in BOOLEAN
    /\ pc' \in {"visit", "handler"} => walks' # << >>
    /\ pc' = "handler" => at' # NULL
    /\ pc' \in {"idle", "begin"} => at' = NULL
    /\ pc' = "idle" => due' = << >> /\ ran' = << >> /\ ~rash'

LEMMA LineKeeps ==
    ASSUME IInv, LineStep, Walking'
    PROVE  IInv'
<1>1. Types /\ FrontIsKept /\ OneEach
  BY DEF IInv
<1>2. UNCHANGED <<world, trigs, mem, what, left, hidden>>
  BY DEF LineStep, table
<1>3. TypeOK'
  BY <1>1, <1>2 DEF LineStep, Types, TypeOK
<1>4. Types'
  BY <1>1, <1>2, <1>3 DEF LineStep, Types
<1>5. FrontIsKept' /\ OneEach'
  BY <1>1, <1>2 DEF FrontIsKept, OneEach, Alike
<1> QED BY <1>4, <1>5 DEF IInv

\* What a step of trigger_match starts from.
LEMMA LineTypes ==
    ASSUME Types
    PROVE  /\ has \subseteq Whole /\ walks \in Rests /\ walks \in Seq(Lists) /\ hits \subseteq Mask
           /\ at \in Trigger \cup {NULL} /\ NULL \notin Trigger
           /\ calls \in 0..MaxCalls /\ again \in BOOLEAN /\ 0 \in 0..MaxCalls
           /\ due \in Seq(Trigger) /\ ran \in Seq(Trigger) /\ rash \in BOOLEAN
           /\ << >> \in Seq(Trigger)
           /\ pc \in {"visit", "handler"} => walks # << >> /\ walks[1] \in Lists
                                             /\ Tail(walks) \in Rests /\ Tail(walks) \in Seq(Lists)
           /\ pc = "handler" => at # NULL
           /\ at # NULL => NextOf(at) \in Trigger \cup {NULL}
<1>1. walks \in Rests /\ walks \in Seq(Lists) /\ (pc \in {"visit", "handler"} => walks # << >>)
  BY DEF Types, TypeOK
<1>2. walks # << >> => walks[1] \in Lists /\ Tail(walks) \in Rests /\ Tail(walks) \in Seq(Lists)
  <2> SUFFICES ASSUME walks # << >>
               PROVE  walks[1] \in Lists /\ Tail(walks) \in Rests /\ Tail(walks) \in Seq(Lists)
    OBVIOUS
  <2>1. Tail(walks) \in Rests /\ Tail(walks) \in Seq(Lists)
    BY <1>1, RestsShrink
  <2> QED BY <1>1, <2>1
<1>3. at # NULL => NextOf(at) \in Trigger \cup {NULL}
  BY TableTypes, NextTypes
<1>4. << >> \in Seq(Trigger) /\ 0 \in 0..MaxCalls
  BY TriggersAssumption
<1>5. /\ has \subseteq Whole /\ calls \in 0..MaxCalls /\ again \in BOOLEAN
      /\ pc = "handler" => at # NULL
  BY DEF Types, TypeOK
<1>6. /\ hits \subseteq Mask /\ at \in Trigger \cup {NULL} /\ NULL \notin Trigger
      /\ due \in Seq(Trigger) /\ ran \in Seq(Trigger) /\ rash \in BOOLEAN
  BY TableTypes
<1> QED BY <1>1, <1>2, <1>3, <1>4, <1>5, <1>6
-----------------------------------------------------------------------------
LEMMA EventKeeps ==
    ASSUME IInv, NEW k \in Kind, NEW shape \in Shapes(k), Event(k, shape)
    PROVE  IInv'
<1>1. Types /\ Walking /\ pc = "idle" /\ at = NULL /\ due = << >> /\ ran = << >> /\ ~rash
  BY DEF IInv, Event, Types
<1>2. Walks[k] \in Rests /\ Walks[k] \in Seq(Lists)
  BY WalksAreRests
<1>3. shape \subseteq Whole
  <2>1. k \in {"private", "public", "JOIN", "PART", "QUIT", "TOPIC", "KICK", "NOTICE", "other"}
    BY DEF Kind, Walks
  <2>2. Shapes(k) \subseteq SUBSET Whole
    BY <2>1 DEF Shapes, Whole
  <2> QED BY <2>2
<1>4. LineStep
  BY <1>1, <1>2, <1>3, LineTypes DEF Event, LineStep
<1>5. Walking'
  BY <1>1 DEF Event, Walking
<1> QED BY <1>4, <1>5, LineKeeps

LEMMA EventEndKeeps ==
    ASSUME IInv, EventEnd
    PROVE  IInv'
<1>1. Types /\ at = NULL
  BY DEF IInv, EventEnd, Types
<1>2. LineStep
  BY <1>1, LineTypes DEF EventEnd, LineStep
<1>3. Walking'
  BY DEF EventEnd, Walking, IsInjective
<1> QED BY <1>2, <1>3, LineKeeps

LEMMA WalkEndKeeps ==
    ASSUME IInv, WalkEnd
    PROVE  IInv'
<1>1. /\ Types /\ Walking /\ pc = "visit" /\ at = NULL
      /\ UNCHANGED <<world, table, has, hits, hidden, rash, calls, again, due, ran>>
      /\ \/ pc' = "fault" /\ at' = at /\ walks' = walks
         \/ pc' = "begin" /\ at' = NULL /\ walks' = Tail(walks)
  BY DEF IInv, WalkEnd, LeaveWalk, Visits
<1>2. LineStep
  BY <1>1, LineTypes DEF LineStep
<1>3. ASSUME ~rash PROVE due = << >>
  <2>1. Divides(trigs[walks[1]], NULL)
    BY <1>1, <1>3 DEF Walking, Cursor
  <2>2. DOMAIN due = {}
    BY <2>1 DEF Divides
  <2> QED BY <1>1, <2>2, LineTypes
<1>4. Walking'
  BY <1>1, <1>3 DEF Walking
<1> QED BY <1>2, <1>4, LineKeeps

\* Where the program stops, nothing is to be said of the walk.
LEMMA FaultKeeps ==
    ASSUME IInv, pc \in {"visit", "handler"}, pc' = "fault",
           UNCHANGED <<world, table, place, hidden, rash, due, ran>>,
           calls' \in 0..MaxCalls, again' \in BOOLEAN
    PROVE  IInv'
<1>1. Types /\ Walking
  BY DEF IInv
<1>2. LineStep
  BY <1>1, LineTypes DEF LineStep, place
<1>3. Walking'
  BY <1>1 DEF Walking
<1> QED BY <1>2, <1>3, LineKeeps

LEMMA FaultsKeeps ==
    ASSUME IInv, Faults \/ HandlerLost
    PROVE  IInv'
<1>1. /\ pc \in {"visit", "handler"} /\ pc' = "fault"
      /\ UNCHANGED <<world, table, place, hidden, rash, due, ran, calls, again>>
  BY DEF Faults, HandlerLost, Visits, place
<1>2. calls' \in 0..MaxCalls /\ again' \in BOOLEAN
  BY <1>1, LineTypes DEF IInv
<1> QED BY <1>1, <1>2, FaultKeeps

\* After the trigger it stands on the walk goes to the next, or the list is done.
LEMMA OnwardSteps ==
    ASSUME Types, pc \in {"visit", "handler"}, at # NULL, NEW matched \in BOOLEAN, Onward(matched)
    PROVE  \/ /\ pc' = "visit" /\ at' = NextOf(at) /\ walks' = walks
              /\ walks[1] # "join" /\ (walks[1] = "pub" => ~matched)
           \/ /\ pc' = "begin" /\ at' = NULL /\ walks' = Tail(walks)
              /\ \/ walks[1] = "join"
                 \/ walks[1] = "pub" /\ (matched \/ "rest" \notin has)
BY DEF Onward, Stays, LeaveWalk

LEMMA HandlerEndKeeps ==
    ASSUME IInv, HandlerEnd
    PROVE  IInv'
<1>1. /\ Types /\ Walking /\ pc = "handler" /\ at # NULL
      /\ UNCHANGED <<world, table, has, hits, hidden, rash, due, ran>>
      /\ calls' = 0 /\ again' = FALSE
  BY DEF IInv, HandlerEnd, Visits, Types
<1>2. \/ /\ pc' = "visit" /\ at' = NextOf(at) /\ walks' = walks
         /\ walks[1] # "join" /\ walks[1] # "pub"
      \/ /\ pc' = "begin" /\ at' = NULL /\ walks' = Tail(walks)
         /\ walks[1] \in {"join", "pub"}
  BY <1>1, OnwardSteps DEF HandlerEnd
<1>3. LineStep
  BY <1>1, <1>2, LineTypes DEF LineStep
<1>4. Walking'
  <2> SUFFICES ASSUME ~rash PROVE Walking'
    BY <1>1 DEF Walking
  <2>1. /\ IsInjective(ran) /\ Divides(trigs[walks[1]], NextOf(at))
        /\ due # << >> => Wants(walks[1]) \subseteq has
        /\ walks[1] \in {"pub", "join"} => due = << >>
    BY <1>1 DEF Walking, Cursor
  <2>2. UNCHANGED <<trigs, what>>
    BY <1>1 DEF table
  <2>3. CASE pc' = "visit"
    <3>1. at' = NextOf(at) /\ walks' = walks /\ walks[1] # "join" /\ walks[1] # "pub"
      BY <1>2, <2>3
    <3>2. PICK c : c = NextOf(at)
      OBVIOUS
    <3>3. Cursor' = c
      BY <2>3, <3>1, <3>2 DEF Cursor
    <3>4. Divides(trigs[walks[1]], Cursor)'
      BY <1>1, <2>1, <2>2, <3>1, <3>2, <3>3 DEF Divides
    <3>5. OneIsDue(trigs[walks[1]], walks[1])'
      BY <3>1 DEF OneIsDue
    <3> QED BY <1>1, <2>1, <2>3, <3>1, <3>4, <3>5 DEF Walking
  <2>4. CASE pc' = "begin"
    <3>1. due = << >>
      BY <1>2, <2>1, <2>4
    <3> QED BY <1>1, <2>1, <2>4, <3>1 DEF Walking
  <2> QED BY <1>2, <2>3, <2>4
<1> QED BY <1>3, <1>4, LineKeeps

LEMMA HandlerAgainKeeps ==
    ASSUME IInv, HandlerAgain
    PROVE  IInv'
<1>1. /\ Types /\ Walking /\ pc = "handler" /\ at # NULL
      /\ UNCHANGED <<world, trigs, mem, what, left, has, hits, hidden, rash, due, ran, at, walks>>
      /\ calls' = 0 /\ again' = TRUE /\ pc' \in {"fault", "handler"}
  BY DEF IInv, HandlerAgain, Visits, Types, table
<1>2. LineStep
  BY <1>1, LineTypes DEF LineStep, table
<1>3. Walking'
  <2> SUFFICES ASSUME ~rash, pc' = "handler" PROVE Walking'
    BY <1>1 DEF Walking
  <2>1. /\ IsInjective(ran) /\ Divides(trigs[walks[1]], NextOf(at))
        /\ due # << >> => Wants(walks[1]) \subseteq has
        /\ walks[1] \in {"pub", "join"} => due = << >>
        /\ InList(at) => at \in Members(trigs[walks[1]])
    BY <1>1 DEF Walking, Cursor
  <2>2. PICK c : c = NextOf(at)
    OBVIOUS
  <2>3. Cursor' = c
    BY <1>1, <2>2 DEF Cursor, NextOf, InList
  <2>4. Divides(trigs[walks[1]], Cursor)'
    BY <1>1, <2>1, <2>2, <2>3 DEF Divides
  <2>5. InList(at)' => InList(at)
    BY <1>1 DEF InList
  <2> QED BY <1>1, <2>1, <2>4, <2>5 DEF Walking
<1> QED BY <1>2, <1>3, LineKeeps
-----------------------------------------------------------------------------
\* Where a walk that is not undermined stands.
LEMMA StandsIn ==
    ASSUME IInv, pc = "visit", at # NULL, ~rash
    PROVE  LET l == trigs[walks[1]]
           IN  /\ IsList(l, Trigger) /\ at \in Members(l)
               /\ NextOf(at) = Successor(l, at, NULL)
               /\ \A i \in DOMAIN due : due[i] = at \/ Ahead(l.items, at, due[i])
               /\ \A i \in DOMAIN ran : ran[i] \in Members(l) /\ Ahead(l.items, ran[i], at)
<1>1. Types /\ Walking /\ walks[1] \in Lists
  BY LineTypes DEF IInv
<1>2. PICK l : l = trigs[walks[1]]
  OBVIOUS
<1>3. Divides(l, at)
  BY <1>1, <1>2 DEF Walking, Cursor
<1>4. IsList(l, Trigger) /\ at \in Members(l) /\ mem[at] = "linked" /\ what[at].list = walks[1]
  BY <1>1, <1>2, <1>3, TableTypes DEF Divides
<1>5. NextOf(at) = Successor(l, at, NULL)
  BY <1>2, <1>4 DEF NextOf, InList
<1>6. /\ \A i \in DOMAIN due : due[i] = at \/ Ahead(l.items, at, due[i])
      /\ \A i \in DOMAIN ran : ran[i] \in Members(l) /\ Ahead(l.items, ran[i], at)
  BY <1>3 DEF Divides
<1> QED BY <1>2, <1>4, <1>5, <1>6

\* Where one trigger at most is due, it is the one that is met.
LEMMA OneIsMet ==
    ASSUME IInv, pc = "visit", at # NULL, ~rash, walks[1] \in {"pub", "join"},
           walks[1] = "pub" => what[at].mask \in hits
    PROVE  \A i \in DOMAIN due : due[i] = at
<1>1. Types /\ Walking
  BY DEF IInv
<1>2. PICK l : l = trigs[walks[1]]
  OBVIOUS
<1>3. /\ IsList(l, Trigger) /\ at \in Members(l)
      /\ \A i \in DOMAIN due : due[i] = at \/ Ahead(l.items, at, due[i])
  BY <1>2, StandsIn
<1>4. OneIsDue(l, walks[1])
  BY <1>1, <1>2 DEF Walking
<1>5. CASE walks[1] = "join"
  BY <1>4, <1>5 DEF OneIsDue, ToSet
<1>6. CASE walks[1] = "pub"
  <2>1. \A i \in DOMAIN due : at = due[i] \/ Ahead(l.items, due[i], at)
    BY <1>3, <1>4, <1>6 DEF OneIsDue
  <2> QED BY <1>3, <2>1, AheadOrders
<1> QED BY <1>5, <1>6

LEMMA PassByKeeps ==
    ASSUME IInv, PassBy
    PROVE  IInv'
<1>1. /\ Types /\ Walking /\ pc = "visit" /\ at # NULL /\ ~Hit
      /\ UNCHANGED <<world, trigs, mem, what, left, has, hits, hidden, rash, due, ran, calls, again>>
  BY DEF IInv, PassBy, Visits, Compares, table
<1>2. \/ /\ pc' = "visit" /\ at' = NextOf(at) /\ walks' = walks /\ walks[1] # "join"
      \/ /\ pc' = "begin" /\ at' = NULL /\ walks' = Tail(walks)
         /\ walks[1] = "join" \/ (walks[1] = "pub" /\ "rest" \notin has)
  BY <1>1, OnwardSteps DEF PassBy
<1>3. LineStep
  BY <1>1, <1>2, LineTypes DEF LineStep, table
<1>4. Walking'
  <2> SUFFICES ASSUME ~rash PROVE Walking'
    BY <1>1 DEF Walking
  <2>0. PICK l, c : l = trigs[walks[1]] /\ c = NextOf(at)
    OBVIOUS
  <2>1. /\ IsInjective(ran) /\ Divides(l, at) /\ OneIsDue(l, walks[1])
        /\ due # << >> => Wants(walks[1]) \subseteq has
    BY <1>1, <2>0 DEF Walking, Cursor
  <2>2. /\ IsList(l, Trigger) /\ at \in Members(l) /\ c = Successor(l, at, NULL)
        /\ \A i \in DOMAIN due : due[i] = at \/ Ahead(l.items, at, due[i])
        /\ \A i \in DOMAIN ran : ran[i] \in Members(l) /\ Ahead(l.items, ran[i], at)
    BY <1>1, <2>0, StandsIn
  <2>3. due \in Seq(Trigger) /\ (DOMAIN due # {} => due # << >>) /\ (DOMAIN due = {} => due = << >>)
    BY <1>1, TableTypes
  <2>4. \A i \in DOMAIN due : due[i] # at
    BY <1>1, <2>1, <2>3 DEF Divides, Hit
  <2>5. /\ c # NULL => c \in Members(l)
        /\ \A d : (c # NULL /\ (d = c \/ Ahead(l.items, c, d))) <=> Ahead(l.items, at, d)
        /\ \A r \in Members(l) : (c # NULL => Ahead(l.items, r, c)) <=>
                                   r = at \/ Ahead(l.items, r, at)
    BY <2>2, DividesAt
  <2>6. CASE pc' = "visit"
    <3>1. at' = c /\ walks' = walks /\ walks[1] # "join" /\ Cursor' = c
      BY <1>2, <2>0, <2>6 DEF Cursor
    <3>2. Divides(l, c)
      BY <2>1, <2>2, <2>4, <2>5 DEF Divides
    <3>3. Divides(trigs[walks[1]], Cursor)'
      BY <1>1, <2>0, <3>1, <3>2 DEF Divides
    <3>4. ASSUME walks[1] = "pub", NEW i \in DOMAIN due, NEW x \in Members(l), what[x].mask \in hits,
                 x = c \/ Ahead(l.items, c, x)
          PROVE  x = due[i] \/ Ahead(l.items, due[i], x)
      <4>1. c # NULL
        BY <2>2, <2>4, <2>5
      <4>2. Ahead(l.items, at, x)
        BY <2>5, <3>4, <4>1
      <4> QED BY <2>1, <3>4, <4>2 DEF OneIsDue
    <3>5. OneIsDue(trigs[walks[1]], walks[1])'
      BY <1>1, <2>0, <3>1, <3>4 DEF OneIsDue
    <3> QED BY <1>1, <2>1, <2>6, <3>1, <3>3, <3>5 DEF Walking
  <2>7. CASE pc' = "begin"
    <3>1. CASE walks[1] = "join"
      <4>1. \A i \in DOMAIN due : due[i] = at
        BY <1>1, <3>1, OneIsMet
      <4> QED BY <1>1, <2>1, <2>3, <2>4, <2>7, <4>1 DEF Walking
    <3>2. CASE walks[1] = "pub" /\ "rest" \notin has
      <4>1. Wants(walks[1]) = {"rest"}
        BY <3>2 DEF Wants
      <4>2. due = << >>
        BY <2>1, <3>2, <4>1
      <4> QED BY <1>1, <2>1, <2>7, <4>2 DEF Walking
    <3> QED BY <1>2, <2>7, <3>1, <3>2
  <2> QED BY <1>2, <2>6, <2>7
<1> QED BY <1>3, <1>4, LineKeeps

\* What runs joins what has run, and what is due is behind it.
LEMMA RunHandlerKeeps ==
    ASSUME IInv, RunHandler
    PROVE  IInv'
<1>1. /\ Types /\ Walking /\ pc = "visit" /\ at # NULL /\ Hit
      /\ UNCHANGED <<world, trigs, mem, what, left, has, hits, hidden, rash, at, walks, calls, again>>
      /\ pc' \in {"fault", "handler"}
      /\ due' = IF due # << >> /\ Head(due) = at THEN Tail(due) ELSE due
      /\ ran' = Append(ran, at)
  BY DEF IInv, RunHandler, Visits, Compares, table
<1>2. /\ due \in Seq(Trigger) /\ ran \in Seq(Trigger) /\ at \in Trigger
      /\ DOMAIN due = 1..Len(due) /\ Len(due) \in Nat
  BY <1>1, TableTypes
<1>3. /\ ran' \in Seq(Trigger) /\ Len(ran') = Len(ran) + 1 /\ DOMAIN ran' = 1..(Len(ran) + 1)
      /\ Len(ran) \in Nat
      /\ ran'[Len(ran) + 1] = at /\ \A i \in 1..Len(ran) : ran'[i] = ran[i]
  BY <1>1, <1>2, AppendProperties
\* Where an element of due' was.
<1>4. PICK n \in {0, 1} :
         /\ due' \in Seq(Trigger) /\ DOMAIN due' = 1..(Len(due) - n)
         /\ \A i \in 1..(Len(due) - n) : due'[i] = due[i + n]
         /\ due # << >> => n = IF due[1] = at THEN 1 ELSE 0
  <2>1. CASE due # << >> /\ Head(due) = at
    <3>1. /\ due' = Tail(due) /\ due[1] = at
      BY <1>1, <1>2, <2>1
    <3>2. /\ Tail(due) \in Seq(Trigger) /\ Len(Tail(due)) = Len(due) - 1
          /\ \A i \in 1..Len(Tail(due)) : Tail(due)[i] = due[i + 1]
      BY <1>2, <2>1, HeadTailProperties
    <3>3. DOMAIN due' = 1..(Len(due) - 1) /\ \A i \in 1..(Len(due) - 1) : due'[i] = due[i + 1]
      BY <3>1, <3>2
    <3> WITNESS 1 \in {0, 1}
    <3> QED BY <3>1, <3>2, <3>3
  <2>2. CASE ~(due # << >> /\ Head(due) = at)
    <3>0. due' = due
      BY <1>1, <2>2
    <3>1. due # << >> => due[1] # at
      BY <1>2, <2>2
    <3>2. DOMAIN due' = 1..(Len(due) - 0) /\ \A i \in 1..(Len(due) - 0) : due'[i] = due[i + 0]
      BY <1>2, <3>0
    <3> WITNESS 0 \in {0, 1}
    <3> QED BY <1>2, <3>0, <3>1, <3>2
  <2> QED BY <2>1, <2>2
<1>5. LineStep
  BY <1>1, <1>2, <1>3, <1>4, LineTypes DEF LineStep, table
<1>6. Walking'
  <2> SUFFICES ASSUME ~rash PROVE Walking'
    BY <1>1 DEF Walking
  <2>0. PICK l, c : l = trigs[walks[1]] /\ c = NextOf(at)
    OBVIOUS
  <2>1. /\ IsInjective(ran) /\ Divides(l, at)
        /\ due # << >> => Wants(walks[1]) \subseteq has
    BY <1>1, <2>0 DEF Walking, Cursor
  <2>2. /\ IsList(l, Trigger) /\ at \in Members(l) /\ c = Successor(l, at, NULL)
        /\ \A i \in DOMAIN due : due[i] = at \/ Ahead(l.items, at, due[i])
        /\ \A i \in DOMAIN ran : ran[i] \in Members(l) /\ Ahead(l.items, ran[i], at)
    BY <1>1, <2>0, StandsIn
  <2>3. /\ c # NULL => c \in Members(l)
        /\ \A d : (c # NULL /\ (d = c \/ Ahead(l.items, c, d))) <=> Ahead(l.items, at, d)
        /\ \A r \in Members(l) : (c # NULL => Ahead(l.items, r, c)) <=>
                                   r = at \/ Ahead(l.items, r, at)
    BY <2>2, DividesAt
  <2>4. /\ \A x, y : Ahead(l.items, x, y) => x \in Members(l) /\ y \in Members(l) /\ x # y
        /\ \A x, y : ~(Ahead(l.items, x, y) /\ Ahead(l.items, y, x))
    BY <2>2, AheadOrders
  <2>5. IsInjective(ran')
    BY <1>3, <2>1, <2>2, <2>4 DEF IsInjective
  <2>6. \A i \in DOMAIN ran' : ran'[i] \in Members(l) /\ (ran'[i] = at \/ Ahead(l.items, ran'[i], at))
    BY <1>2, <1>3, <2>2
  <2>7. /\ \A i \in DOMAIN due' : i + n \in DOMAIN due /\ due'[i] = due[i + n]
        /\ \A i, j \in DOMAIN due : i < j => Ahead(l.items, due[i], due[j])
    BY <1>2, <1>4, <2>1 DEF Divides
  <2>8. ASSUME NEW i \in DOMAIN due' PROVE Ahead(l.items, at, due'[i])
    <3>1. i \in Nat /\ i + n \in 1..Len(due) /\ 1 \in 1..Len(due) /\ due'[i] = due[i + n] /\ due # << >>
      BY <1>2, <1>4, <2>7
    <3>2. CASE i + n = 1
      <4>1. n = 0 /\ due[1] # at
        BY <1>4, <3>1, <3>2
      <4> QED BY <1>2, <2>2, <3>1, <3>2, <4>1
    <3>3. CASE i + n # 1
      <4>1. Ahead(l.items, due[1], due[i + n])
        BY <1>2, <2>7, <3>1, <3>3
      <4>2. due[1] = at \/ Ahead(l.items, at, due[1])
        BY <1>2, <2>2, <3>1
      <4> QED BY <2>2, <3>1, <4>1, <4>2, AheadOrders
    <3> QED BY <3>2, <3>3
  <2>9. Divides(trigs[walks[1]], Cursor)' /\ Cursor' = c
    <3>1. Cursor' = c
      BY <1>1, <1>5, <2>0 DEF Cursor, NextOf, InList
    <3>2. /\ \A i \in DOMAIN due' : due'[i] \in Members(l) /\ what[due'[i]].mask \in hits
          /\ \A i, j \in DOMAIN due' : i < j => Ahead(l.items, due'[i], due'[j])
      <4>1. \A i, j \in DOMAIN due' : i < j => i + n < j + n
        BY <1>2, <1>4
      <4> QED BY <2>1, <2>7, <4>1 DEF Divides
    <3>3. \A i \in DOMAIN due' : c # NULL /\ (due'[i] = c \/ Ahead(l.items, c, due'[i]))
      BY <2>3, <2>8
    <3>4. \A i \in DOMAIN ran' : ran'[i] \in Members(l) /\ (c # NULL => Ahead(l.items, ran'[i], c))
      BY <2>3, <2>6
    <3> QED BY <1>1, <2>0, <2>3, <3>1, <3>2, <3>3, <3>4 DEF Divides
  <2>10. due' # << >> => Wants(walks[1]) \subseteq has
    BY <1>1 DEF Hit
  <2>11. ASSUME walks[1] \in {"pub", "join"} PROVE due' = << >>
    <3>1. \A i \in DOMAIN due : due[i] = at
      BY <1>1, <2>11, OneIsMet DEF Hit
    <3>2. \A i \in DOMAIN due' : FALSE
      BY <2>4, <2>7, <2>8, <3>1
    <3>3. DOMAIN due' = {} /\ due' \in Seq(Trigger)
      BY <1>4, <3>2
    <3> QED BY <3>3
  <2>12. pc' # "visit" /\ pc' # "begin"
    BY <1>1
  <2> QED BY <1>1, <2>0, <2>2, <2>5, <2>9, <2>10, <2>11, <2>12 DEF Walking
<1> QED BY <1>5, <1>6, LineKeeps
-----------------------------------------------------------------------------
\* From the kept pointer on.
FromFirst(l, x) == x = First(l, NULL) \/ Ahead(l.items, First(l, NULL), x)

\* A walk from the kept pointer meets the triggers from there on, in order.
LEMMA ForwardInOrder ==
    ASSUME NEW l, IsList(l, Trigger), NEW s, s = Forward(l), NEW f, f = First(l, NULL)
    PROVE  /\ s \in Seq(Trigger)
           /\ f # NULL => f \in Members(l)
           /\ s # << >> => s[1] = f /\ f # NULL
           /\ \A i \in DOMAIN s : s[i] \in Members(l) /\ FromFirst(l, s[i])
           /\ \A i, j \in DOMAIN s : i < j => Ahead(l.items, s[i], s[j])
           /\ f # NULL => \A x : FromFirst(l, x) => \E i \in DOMAIN s : s[i] = x
<1>1. /\ l.items \in Seq(Trigger) /\ DOMAIN l.items = 1..Len(l.items) /\ Len(l.items) \in Nat
      /\ l.head \in 0..Len(l.items) /\ NULL \notin Trigger
      /\ \A i, j \in 1..Len(l.items) : l.items[i] = l.items[j] => i = j
  BY TriggersAssumption DEF IsList
<1>2. CASE l.head = 0
  <2>1. s = << >> /\ f = NULL
    BY <1>2 DEF Forward, First
  <2> QED BY <2>1
<1>3. CASE l.head # 0
  <2>1. PICK n, h, it : n = Len(l.items) /\ h = l.head /\ it = l.items
    OBVIOUS
  <2>2. n \in Nat /\ h \in 1..n /\ f = it[h] /\ it \in Seq(Trigger)
    BY <1>1, <1>3, <2>1 DEF First
  <2>3. s = SubSeq(it, h, n)
    BY <1>3, <2>1 DEF Forward
  <2>4. /\ s \in Seq(Trigger) /\ Len(s) = n - h + 1
        /\ \A i \in 1..(n - h + 1) : s[i] = it[h + i - 1]
    <3>1. \A i \in h..n : it[i] \in Trigger
      BY <1>1, <2>1, <2>2
    <3> QED BY <2>2, <2>3, <3>1, SubSeqProperties
  <2>5. DOMAIN s = 1..(n - h + 1) /\ s[1] = f
    BY <2>2, <2>4
  <2>6. f \in Trigger /\ f \in Members(l) /\ f # NULL
    BY <1>1, <2>1, <2>2 DEF Members, ToSet
  <2>7. \A i \in DOMAIN s : h + i - 1 \in 1..n /\ h <= h + i - 1
    BY <2>2, <2>5
  <2>8. ASSUME NEW i \in DOMAIN s PROVE s[i] \in Members(l) /\ FromFirst(l, s[i])
    <3>1. h + i - 1 \in 1..n /\ s[i] = it[h + i - 1] /\ (h = h + i - 1 \/ h < h + i - 1)
      BY <2>2, <2>4, <2>5, <2>7
    <3>2. s[i] \in Members(l)
      BY <1>1, <2>1, <3>1 DEF Members, ToSet
    <3>3. s[i] = f \/ Ahead(it, f, s[i])
      BY <1>1, <2>1, <2>2, <3>1 DEF Ahead
    <3> QED BY <2>1, <3>2, <3>3 DEF FromFirst
  <2>9. ASSUME NEW i \in DOMAIN s, NEW j \in DOMAIN s, i < j PROVE Ahead(it, s[i], s[j])
    <3>1. /\ h + i - 1 \in 1..n /\ s[i] = it[h + i - 1] /\ h + j - 1 \in 1..n /\ s[j] = it[h + j - 1]
          /\ h + i - 1 < h + j - 1
      BY <2>2, <2>4, <2>5, <2>7, <2>9
    <3> QED BY <1>1, <2>1, <3>1 DEF Ahead
  <2>10. ASSUME NEW x, FromFirst(l, x) PROVE \E i \in DOMAIN s : s[i] = x
    <3>1. CASE x = f
      <4>1. 1 \in DOMAIN s
        BY <2>2, <2>5
      <4> QED BY <2>5, <3>1, <4>1
    <3>2. CASE Ahead(it, f, x)
      <4>1. PICK a \in 1..n, b \in 1..n : a < b /\ it[a] = f /\ it[b] = x
        BY <1>1, <2>1, <3>2 DEF Ahead
      <4>2. a = h
        BY <1>1, <2>1, <2>2, <4>1
      <4>3. b - h + 1 \in 1..(n - h + 1) /\ h + (b - h + 1) - 1 = b
        BY <2>2, <4>1, <4>2
      <4> QED BY <2>4, <2>5, <4>1, <4>3
    <3> QED BY <2>1, <2>10, <3>1, <3>2 DEF FromFirst
  <2> QED BY <2>1, <2>4, <2>5, <2>6, <2>8, <2>9, <2>10
<1> QED BY <1>2, <1>3

\* Some of them, in order: those that match.
LEMMA PickedInOrder ==
    ASSUME NEW s \in Seq(Trigger), NEW I \in SUBSET DOMAIN s
    PROVE  LET p == Picked(s, I)
           IN  /\ p \in Seq(Trigger)
               /\ \A k \in DOMAIN p : \E i \in I : p[k] = s[i]
               /\ \A j, k \in DOMAIN p : j < k => \E a, b \in I : a < b /\ p[j] = s[a] /\ p[k] = s[b]
               /\ \A i \in I : p # << >> /\ \E a \in I : p[1] = s[a] /\ a <= i
<1>0. PICK p : p = Picked(s, I)
  OBVIOUS
<1>1. p \in Seq(Trigger) /\ Selects(p, s, I, Len(s))
  BY <1>0, PickedElements
<1>2. DOMAIN s = 1..Len(s) /\ DOMAIN p = 1..Len(p) /\ Len(s) \in Nat /\ Len(p) \in Nat
  BY <1>1
<1>3. PICK f \in [1..Len(p) -> I \cap (1..Len(s))] :
         /\ \A k \in 1..Len(p) : p[k] = s[f[k]]
         /\ \A j, k \in 1..Len(p) : j < k => f[j] < f[k]
         /\ \A i \in I \cap (1..Len(s)) : \E k \in 1..Len(p) : f[k] = i
  BY <1>1 DEF Selects
<1>4. \A k \in 1..Len(p) : f[k] \in I /\ f[k] \in Nat
  BY <1>3
<1>5. ASSUME NEW i \in I PROVE p # << >> /\ \E a \in I : p[1] = s[a] /\ a <= i
  <2>1. PICK k \in 1..Len(p) : f[k] = i
    BY <1>2, <1>3
  <2>2. 1 \in 1..Len(p) /\ (k = 1 \/ 1 < k) /\ p # << >>
    BY <1>1, <1>2
  <2>3. f[1] <= i
    BY <1>3, <1>4, <2>1, <2>2
  <2> QED BY <1>3, <1>4, <2>2, <2>3
<1>6. \A k \in DOMAIN p : \E i \in I : p[k] = s[i]
  BY <1>2, <1>3, <1>4
<1>7. ASSUME NEW j \in DOMAIN p, NEW k \in DOMAIN p, j < k
      PROVE  \E a, b \in I : a < b /\ p[j] = s[a] /\ p[k] = s[b]
  <2>1. f[j] \in I /\ f[k] \in I /\ f[j] < f[k] /\ p[j] = s[f[j]] /\ p[k] = s[f[k]]
    BY <1>2, <1>3, <1>4, <1>7
  <2> QED BY <2>1
<1> QED BY <1>0, <1>1, <1>5, <1>6, <1>7

\* What is due when a walk begins.
LEMMA DueFacts ==
    ASSUME Types, NEW w \in Lists, NEW h, NEW l, l = trigs[w], NEW f, f = First(l, NULL),
           NEW d, d = Due(w, h)
    PROVE  /\ d \in Seq(Trigger)
           /\ f # NULL => f \in Members(l)
           /\ \A i \in DOMAIN d : /\ d[i] \in Members(l) /\ what[d[i]].mask \in h
                                  /\ f # NULL /\ FromFirst(l, d[i])
           /\ \A i, j \in DOMAIN d : i < j => Ahead(l.items, d[i], d[j])
           /\ d # << >> => Wants(w) \subseteq has
           /\ w = "join" => ToSet(d) \subseteq {f}
           /\ w = "pub" => \A i \in DOMAIN d : \A x \in Members(l) :
                             what[x].mask \in h /\ FromFirst(l, x) =>
                                x = d[i] \/ Ahead(l.items, d[i], x)
<1>1. PICK s : s = Forward(l)
  OBVIOUS
<1>2. /\ s \in Seq(Trigger)
      /\ f # NULL => f \in Members(l)
      /\ s # << >> => s[1] = f /\ f # NULL
      /\ \A i \in DOMAIN s : s[i] \in Members(l) /\ FromFirst(l, s[i])
      /\ \A i, j \in DOMAIN s : i < j => Ahead(l.items, s[i], s[j])
      /\ f # NULL => \A x : FromFirst(l, x) => \E i \in DOMAIN s : s[i] = x
  BY <1>1, TableTypes, ForwardInOrder
<1>3. PICK met : met = IF w = "join" /\ s # << >> THEN <<s[1]>> ELSE s
  OBVIOUS
<1>4. /\ met \in Seq(Trigger) /\ DOMAIN met \subseteq DOMAIN s /\ DOMAIN met \subseteq Nat
      /\ \A i \in DOMAIN met : met[i] = s[i]
      /\ w = "join" => \A i \in DOMAIN met : met[i] = f
      /\ w # "join" => met = s
  <2>1. CASE w = "join" /\ s # << >>
    <3>1. met = <<s[1]>> /\ s[1] \in Trigger /\ 1 \in DOMAIN s
      BY <1>2, <1>3, <2>1
    <3>2. DOMAIN met = {1} /\ met[1] = s[1] /\ met \in Seq(Trigger)
      BY <3>1
    <3> QED BY <1>2, <2>1, <3>1, <3>2
  <2>2. CASE ~(w = "join" /\ s # << >>)
    <3>1. met = s
      BY <1>3, <2>2
    <3>2. w = "join" => DOMAIN met = {}
      BY <2>2, <3>1
    <3> QED BY <1>2, <3>1, <3>2
  <2> QED BY <2>1, <2>2
<1>5. PICK I : I = {i \in DOMAIN met : what[met[i]].mask \in h}
  OBVIOUS
<1>6. PICK all : all = Picked(met, I)
  OBVIOUS
<1>7. d = IF ~(Wants(w) \subseteq has) THEN << >>
          ELSE IF w = "pub" /\ all # << >> THEN <<all[1]>> ELSE all
  BY <1>1, <1>3, <1>5, <1>6 DEF Due
<1>8. I \in SUBSET DOMAIN met
  BY <1>5
<1>9. /\ all \in Seq(Trigger)
      /\ \A k \in DOMAIN all : \E i \in I : all[k] = met[i]
      /\ \A j, k \in DOMAIN all : j < k => \E a, b \in I : a < b /\ all[j] = met[a] /\ all[k] = met[b]
      /\ \A i \in I : all # << >> /\ \E a \in I : all[1] = met[a] /\ a <= i
  <2>1. met \in Seq(Trigger)
    BY <1>4
  <2> QED BY SMTT(30), <2>1, <1>6, <1>8, PickedInOrder
<1>10. \A i \in I : i \in DOMAIN s /\ met[i] = s[i] /\ what[s[i]].mask \in h /\ i \in Nat
  BY <1>4, <1>5
<1>11. /\ \A k \in DOMAIN all : /\ all[k] \in Members(l) /\ what[all[k]].mask \in h
                                /\ f # NULL /\ FromFirst(l, all[k])
       /\ \A j, k \in DOMAIN all : j < k => Ahead(l.items, all[j], all[k])
       /\ w = "join" => \A k \in DOMAIN all : all[k] = f
  <2>1. \A i \in I : f # NULL
    <3>1. \A i \in I : s # << >>
      BY <1>10
    <3> QED BY <1>2, <3>1
  <2>2. \A i \in I : s[i] \in Members(l) /\ FromFirst(l, s[i]) /\ what[s[i]].mask \in h /\ met[i] = s[i]
    BY <1>2, <1>10
  <2>3. \A k \in DOMAIN all : /\ all[k] \in Members(l) /\ what[all[k]].mask \in h
                               /\ f # NULL /\ FromFirst(l, all[k])
    BY <1>9, <2>1, <2>2
  <2>4. ASSUME NEW j \in DOMAIN all, NEW k \in DOMAIN all, j < k
        PROVE  Ahead(l.items, all[j], all[k])
    <3>1. PICK a \in I, b \in I : a < b /\ all[j] = met[a] /\ all[k] = met[b]
      BY <1>9, <2>4
    <3> QED BY <1>2, <1>10, <3>1
  <2>5. w = "join" => \A k \in DOMAIN all : all[k] = f
    BY <1>4, <1>8, <1>9
  <2> QED BY <2>3, <2>4, <2>5
<1>12. /\ d \in Seq(Trigger) /\ DOMAIN d \subseteq DOMAIN all
       /\ \A i \in DOMAIN d : d[i] = all[i]
       /\ d # << >> => Wants(w) \subseteq has
       /\ w = "pub" => \A i \in DOMAIN d : i = 1
  <2>1. CASE ~(Wants(w) \subseteq has)
    BY <1>7, <2>1
  <2>2. CASE Wants(w) \subseteq has /\ w = "pub" /\ all # << >>
    <3>1. d = <<all[1]>> /\ 1 \in DOMAIN all /\ all[1] \in Trigger
      BY <1>7, <1>9, <2>2
    <3>2. DOMAIN d = {1} /\ d[1] = all[1] /\ d \in Seq(Trigger)
      BY <3>1
    <3> QED BY <2>2, <3>1, <3>2
  <2>3. CASE Wants(w) \subseteq has /\ ~(w = "pub" /\ all # << >>)
    <3>1. d = all
      BY <1>7, <2>3
    <3>2. w = "pub" => DOMAIN d = {}
      BY <2>3, <3>1
    <3> QED BY <1>9, <2>3, <3>1, <3>2
  <2> QED BY <2>1, <2>2, <2>3
<1>13. ASSUME w = "pub", NEW i \in DOMAIN d, NEW x \in Members(l), what[x].mask \in h, FromFirst(l, x)
       PROVE  x = d[i] \/ Ahead(l.items, d[i], x)
  <2>1. f # NULL /\ d[i] = all[1]
    BY <1>11, <1>12, <1>13
  <2>2. PICK k \in DOMAIN s : s[k] = x
    BY <1>2, <1>13, <2>1
  <2>3. k \in I
    BY <1>4, <1>5, <1>13, <2>2
  <2>4. PICK a \in I : all[1] = met[a] /\ a <= k
    BY <1>9, <2>3
  <2>5. all[1] = s[a] /\ a \in DOMAIN s /\ (a = k \/ a < k)
    BY <1>10, <2>3, <2>4
  <2> QED BY <1>2, <2>1, <2>2, <2>5
<1>14. w = "join" => ToSet(d) \subseteq {f}
  BY <1>11, <1>12 DEF ToSet
<1> QED BY <1>2, <1>11, <1>12, <1>13, <1>14

LEMMA BeginWalkKeeps ==
    ASSUME IInv, NEW h \in SUBSET Mask, BeginWalk(h)
    PROVE  IInv'
<1>1. /\ Types /\ walks # << >> /\ walks \in Seq(Lists)
      /\ UNCHANGED <<world, trigs, mem, what, left, has, walks, calls, again, hidden>>
      /\ hits' = h /\ at' = First(trigs[walks[1]], NULL) /\ due' = Due(walks[1], h)
      /\ ran' = << >> /\ ~rash' /\ rash' \in BOOLEAN /\ pc' = "visit"
  BY DEF IInv, BeginWalk, table, Types
<1>2. walks[1] \in Lists
  BY <1>1
<1>3. PICK l, f, d : l = trigs[walks[1]] /\ f = First(l, NULL) /\ d = Due(walks[1], h)
  OBVIOUS
<1>4. /\ d \in Seq(Trigger)
      /\ f # NULL => f \in Members(l)
      /\ \A i \in DOMAIN d : /\ d[i] \in Members(l) /\ what[d[i]].mask \in h
                             /\ f # NULL /\ FromFirst(l, d[i])
      /\ \A i, j \in DOMAIN d : i < j => Ahead(l.items, d[i], d[j])
      /\ d # << >> => Wants(walks[1]) \subseteq has
      /\ walks[1] = "join" => ToSet(d) \subseteq {f}
      /\ walks[1] = "pub" => \A i \in DOMAIN d : \A x \in Members(l) :
                               what[x].mask \in h /\ FromFirst(l, x) =>
                                  x = d[i] \/ Ahead(l.items, d[i], x)
  BY <1>1, <1>2, <1>3, DueFacts
<1>5. f \in Trigger \cup {NULL} /\ at' = f /\ due' = d
  BY <1>1, <1>2, <1>3, <1>4, TableTypes
<1>6. LineStep
  BY <1>1, <1>4, <1>5, LineTypes DEF LineStep, table
<1>7. Walking'
  <2>1. Cursor' = f /\ IsInjective(ran')
    BY <1>1, <1>5 DEF Cursor, IsInjective
  <2>2. Divides(trigs[walks[1]], Cursor)'
    BY <1>1, <1>3, <1>4, <1>5, <2>1 DEF Divides, FromFirst
  <2>3. OneIsDue(trigs[walks[1]], walks[1])'
    BY <1>1, <1>3, <1>4, <1>5 DEF OneIsDue, FromFirst
  <2> QED BY <1>1, <1>4, <1>5, <2>1, <2>2, <2>3 DEF Walking
<1> QED BY <1>6, <1>7, LineKeeps
-----------------------------------------------------------------------------
LEMMA InitHolds ==
    ASSUME Init
    PROVE  IInv
<1>0. PICK n, given : given = world.builtin /\ n = Len(given)
  OBVIOUS
<1>1. /\ \A i, j \in 1..n : /\ given[i].list = given[j].list
                              /\ Alike(given[i].mask, given[j].mask)
                              => i = j
      /\ n \in Nat /\ DOMAIN given = 1..n
      /\ \A i \in 1..n : given[i] \in [list : BuiltInLists, mask : Mask]
  <2>1. PICK R : R = [list : BuiltInLists, mask : Mask]
    OBVIOUS
  <2>2. world \in World
    BY DEF Init
  <2>3. World \subseteq [kinds : SUBSET Kind, builtin : Seq(R), langs : SUBSET Language,
                         lower : [Mask -> Mask]]
    BY <2>1, TriggersAssumption
  <2>4. given \in Seq(R)
    BY <1>0, <2>2, <2>3
  <2>5. DOMAIN given = 1..n /\ n \in Nat /\ \A i \in 1..n : given[i] \in R
    BY <1>0, <2>4
  <2>6. \A i, j \in 1..n : /\ given[i].list = given[j].list
                           /\ Alike(given[i].mask, given[j].mask)
                           => i = j
    BY <1>0, <2>2, <2>5, TriggersAssumption DEF Alike
  <2> QED BY <2>1, <2>5, <2>6
<1>2. PICK b \in [1..n -> Trigger] :
         /\ IsInjective(b)
         /\ what = Described(b)
         /\ trigs = [l \in Lists |-> Default(l, b)]
         /\ mem = [t \in Trigger |-> IF t \in Range(b) THEN "linked" ELSE "free"]
  BY <1>0, <1>1 DEF Init
<1>3. /\ b \in Seq(Trigger) /\ Len(b) = n /\ DOMAIN b = 1..n
      /\ \A i, j \in 1..n : b[i] = b[j] => i = j
      /\ \A i \in 1..n : b[i] \in Trigger /\ b[i] \in Range(b)
  BY <1>1, <1>2 DEF IsInjective, Range
\* What the default triggers are.
<1>4. \A i \in 1..n : what[b[i]].list = given[i].list /\ what[b[i]].mask = given[i].mask
  <2> SUFFICES ASSUME NEW i \in 1..n
               PROVE  what[b[i]].list = given[i].list /\ what[b[i]].mask = given[i].mask
    OBVIOUS
  <2>1. (CHOOSE k \in DOMAIN b : b[k] = b[i]) = i
    BY <1>3
  <2>2. what[b[i]] = [Blank EXCEPT !.list = given[i].list, !.mask = given[i].mask]
    BY <1>0, <1>2, <1>3, <2>1 DEF Described
  <2> QED BY <2>2 DEF Blank
<1>5. what \in [Trigger -> TriggerRecord]
  <2>1. Blank \in TriggerRecord
    BY TriggersAssumption DEF Blank, TriggerRecord, Lists
  <2>2. ASSUME NEW d \in [list : BuiltInLists, mask : Mask]
        PROVE  [Blank EXCEPT !.list = d.list, !.mask = d.mask] \in TriggerRecord
    BY <2>1 DEF TriggerRecord, BuiltInLists, Lists
  <2>3. ASSUME NEW t \in Range(b)
        PROVE  given[CHOOSE k \in DOMAIN b : b[k] = t] \in [list : BuiltInLists, mask : Mask]
    <3>1. \E k \in DOMAIN b : b[k] = t
      BY <2>3 DEF Range
    <3>2. (CHOOSE k \in DOMAIN b : b[k] = t) \in 1..n
      BY <1>3, <3>1
    <3> QED BY <1>1, <3>2
  <2>4. ASSUME NEW t \in Trigger PROVE Described(b)[t] \in TriggerRecord
    <3>1. CASE t \notin Range(b)
      BY <2>1, <3>1 DEF Described
    <3>2. CASE t \in Range(b)
      <4>1. PICK d : d = given[CHOOSE k \in DOMAIN b : b[k] = t]
        OBVIOUS
      <4>2. d \in [list : BuiltInLists, mask : Mask]
        BY <2>3, <3>2, <4>1
      <4>3. Described(b)[t] = [Blank EXCEPT !.list = d.list, !.mask = d.mask]
        BY <1>0, <3>2, <4>1 DEF Described
      <4> QED BY <2>2, <4>2, <4>3
    <3> QED BY <3>1, <3>2
  <2> QED BY <1>2, <2>4 DEF Described
\* The lists they are in.
<1>6. ASSUME NEW l \in Lists
      PROVE  /\ IsList(trigs[l], Trigger) /\ trigs[l].head <= 1
             /\ \A t : t \in Members(trigs[l]) <=> \E i \in 1..n : t = b[i] /\ given[i].list = l
  <2>1. PICK I : I = {i \in DOMAIN b : what[b[i]].list = l}
    OBVIOUS
  <2>2. PICK p : p = Picked(b, I)
    OBVIOUS
  <2>3. trigs[l] = [items |-> p, head |-> IF p = << >> THEN 0 ELSE 1]
    BY <1>2, <2>1, <2>2 DEF Default
  <2>4. /\ p \in Seq(Trigger)
        /\ ToSet(p) = {b[i] : i \in I \cap (1..n)}
        /\ \A i, j \in 1..Len(p) : p[i] = p[j] => i = j
    BY <1>3, <2>2, PickedProperties
  <2>5. /\ DOMAIN p = 1..Len(p) /\ Len(p) \in Nat /\ (p # << >> => Len(p) # 0)
    BY <2>4
  <2>6. IsList(trigs[l], Trigger) /\ trigs[l].head <= 1
    BY <2>3, <2>4, <2>5 DEF IsList
  <2>7. Members(trigs[l]) = {b[i] : i \in I \cap (1..n)}
    BY <2>3, <2>4 DEF Members
  <2> QED BY <1>3, <1>4, <2>1, <2>6, <2>7
<1>7. ASSUME NEW t \in Trigger, NEW l \in Lists
      PROVE  t \in Members(trigs[l]) <=> mem[t] = "linked" /\ what[t].list = l
  <2>1. mem[t] = "linked" <=> \E i \in 1..n : t = b[i]
    BY <1>2, <1>3 DEF Range
  <2>2. t \in Members(trigs[l]) <=> \E i \in 1..n : t = b[i] /\ given[i].list = l
    BY <1>6
  <2>3. \A i \in 1..n : what[b[i]].list = given[i].list
    BY <1>4
  <2> QED BY SMTT(60), <2>1, <2>2, <2>3
<1>8. << >> \in Rests
  <2>1. "QUIT" \in Kind /\ Walks["QUIT"] = << >>
    BY DEF Kind, Walks
  <2> QED BY <2>1, WalksAreRests
<1>9. TypeOK
  <2>1. mem \in [Trigger -> {"free", "linked", "unlinked"}]
    BY <1>2
  <2>2. left \in [Trigger -> Trigger \cup {NULL}]
    BY DEF Init
  <2>3. /\ world \in World /\ pc = "idle" /\ has = {} /\ walks = << >> /\ hits = {} /\ at = NULL
        /\ calls = 0 /\ again = FALSE /\ due = << >> /\ ran = << >> /\ rash = FALSE /\ hidden = {}
    BY DEF Init
  <2>4. 0 \in 0..MaxCalls /\ << >> \in Seq(Trigger)
    BY TriggersAssumption
  <2> QED BY <1>5, <1>6, <1>7, <1>8, <2>1, <2>2, <2>3, <2>4 DEF TypeOK
<1>10. Types
  <2>1. trigs = [l \in Lists |-> trigs[l]] /\ << >> \in Seq(Lists)
    BY <1>2
  <2> QED BY <1>9, <2>1 DEF Init, Types
<1>11. FrontIsKept
  BY <1>6 DEF FrontIsKept
<1>12. OneEach
  <2> SUFFICES ASSUME NEW l \in Unstackable, NEW t \in Members(trigs[l]), NEW u \in Members(trigs[l]),
                      Alike(what[t].mask, what[u].mask)
               PROVE  t = u
    BY DEF OneEach
  <2>1. l \in Lists
    BY DEF Unstackable, Lists
  <2>10. \A x \in Members(trigs[l]) : \E i \in 1..n : x = b[i] /\ given[i].list = l
    BY <1>6, <2>1
  <2>11. PICK i \in 1..n : t = b[i] /\ given[i].list = l
    BY <2>10
  <2>12. PICK j \in 1..n : u = b[j] /\ given[j].list = l
    BY <2>10
  <2>2. t = b[i] /\ given[i].list = l /\ u = b[j] /\ given[j].list = l
    BY <2>11, <2>12
  <2>3. Alike(given[i].mask, given[j].mask)
    BY <1>4, <2>2
  <2>4. given[i].list = given[j].list
    BY <2>2
  <2>5. i = j
    BY <1>1, <2>3, <2>4
  <2> QED BY <2>2, <2>5
<1>13. Walking
  BY DEF Init, Walking, IsInjective
<1> QED BY <1>10, <1>11, <1>12, <1>13 DEF IInv

LEMMA StepKeeps ==
    ASSUME IInv, [Next]_vars
    PROVE  IInv'
<1>0. /\ world \in World /\ calls \in 0..MaxCalls /\ again \in BOOLEAN /\ MaxCalls \in Nat
  BY TriggersAssumption DEF IInv, Types, TypeOK
<1>1. CASE IdleCall
  BY <1>0, <1>1, CallKeeps DEF IdleCall
<1>2. CASE HandlerCall
  <2>1. /\ pc = "handler" /\ Call /\ UNCHANGED <<world, place>>
        /\ calls' \in 0..MaxCalls /\ again' \in BOOLEAN
    BY <1>0, <1>2 DEF HandlerCall
  <2> QED BY <2>1, CallKeeps
<1>3. CASE \E k \in Kind : \E shape \in Shapes(k) : Event(k, shape)
  BY <1>3, EventKeeps
<1>4. CASE \E h \in SUBSET Mask : BeginWalk(h)
  BY <1>4, BeginWalkKeeps
<1>5. CASE EventEnd
  BY <1>5, EventEndKeeps
<1>6. CASE WalkEnd
  BY <1>6, WalkEndKeeps
<1>7. CASE Faults \/ HandlerLost
  BY <1>7, FaultsKeeps
<1>8. CASE PassBy
  BY <1>8, PassByKeeps
<1>9. CASE RunHandler
  BY <1>9, RunHandlerKeeps
<1>10. CASE HandlerAgain
  BY <1>10, HandlerAgainKeeps
<1>11. CASE HandlerEnd
  BY <1>11, HandlerEndKeeps
<1>12. CASE UNCHANGED vars
  <2>1. /\ UNCHANGED <<world, trigs, mem, what, left, pc, has, walks, hits, at, calls, again>>
        /\ UNCHANGED <<due, ran, rash, hidden>>
    BY <1>12 DEF vars, table, place
  <2>2. Types' /\ FrontIsKept' /\ OneEach'
    BY <2>1 DEF IInv, Types, TypeOK, FrontIsKept, OneEach, Alike
  <2>3. (Cursor = Cursor)' /\ Cursor' = Cursor
    BY <2>1 DEF Cursor, NextOf, InList
  <2>4. Walking'
    BY <2>1, <2>3 DEF IInv, Walking, Divides, OneIsDue, InList
  <2> QED BY <2>2, <2>4 DEF IInv
<1> QED BY <1>1, <1>2, <1>3, <1>4, <1>5, <1>6, <1>7, <1>8, <1>9, <1>10, <1>11, <1>12 DEF Next

\* The inductive invariant.
LEMMA IInvHolds == Spec => []IInv
BY InitHolds, StepKeeps, PTL DEF Spec
-----------------------------------------------------------------------------
\* The lists of triggers, the blocks and the place of trigger_match have their types, and
\* every trigger that is linked is in the list it is for and in no other.
THEOREM TriggerTypes == Spec => []TypeOK
<1>1. IInv => TypeOK
  BY DEF IInv, Types
<1> QED BY <1>1, IInvHolds, PTL

\* trigger_match runs the triggers that matched when it began, each once, in their order and
\* from their list, whatever their handlers bind and unbind meanwhile, as long as none removes
\* its own trigger and then the next.
THEOREM WalkRunsWhatIsDue == Spec => []DueTriggersRun
<1>1. ASSUME IInv PROVE DueTriggersRun
  <2> SUFFICES ASSUME ~rash PROVE DueTriggersRun
    BY DEF DueTriggersRun
  <2>1. Types /\ Walking
    BY <1>1 DEF IInv
  <2>2. IsInjective(ran) /\ (pc = "begin" => due = << >>)
    BY <2>1 DEF Walking
  <2>3. ASSUME pc = "visit"
        PROVE  /\ ToSet(due) \subseteq Members(trigs[walks[1]])
               /\ at # NULL => InList(at) /\ what[at].list = walks[1]
    <3>1. Divides(trigs[walks[1]], at) /\ walks[1] \in Lists
      BY <2>1, <2>3, LineTypes DEF Walking, Cursor
    <3>2. ToSet(due) \subseteq Members(trigs[walks[1]])
      BY <3>1 DEF Divides, ToSet
    <3>3. at # NULL => InList(at) /\ what[at].list = walks[1]
      BY <2>1, <3>1, TableTypes DEF Divides, InList
    <3> QED BY <3>2, <3>3
  <2> QED BY <2>2, <2>3 DEF DueTriggersRun, IsInjective
<1> QED BY <1>1, IInvHolds, PTL

\* egg_bind and egg_unbind leave one trigger for a mask in pub and msg, and what a script or
\* the partyline is shown of the list is all of it, until a removal behind its first two
\* triggers takes the kept pointer from the front.
THEOREM PubAndMsgAreUnstackable == Spec => []OneTriggerPerMask
<1>1. ASSUME IInv PROVE OneTriggerPerMask
  <2> SUFFICES ASSUME NEW l \in Unstackable \ hidden
               PROVE  /\ \A t, u \in Members(trigs[l]) : Alike(what[t].mask, what[u].mask) => t = u
                      /\ ToSet(Shown[l]) = Members(trigs[l])
                      /\ Counted({}, {l}) = Members(trigs[l])
    BY DEF OneTriggerPerMask
  <2>1. Types /\ FrontIsKept /\ OneEach /\ l \in Lists
    BY <1>1 DEF IInv, Unstackable, Lists
  <2>2. IsList(trigs[l], Trigger) /\ trigs[l].head <= 1
    BY <2>1, TableTypes DEF FrontIsKept
  <2>3. ToSet(Forward(trigs[l])) = Members(trigs[l])
    BY <2>2, FrontMeetsAll
  <2>4. Shown[l] = Forward(trigs[l])
    BY DEF Shown, Unstackable
  <2>5. Counted({}, {l}) = ToSet(Forward(trigs[l]))
    BY <2>1 DEF Counted
  <2>6. \A t, u \in Members(trigs[l]) : Alike(what[t].mask, what[u].mask) => t = u
    BY <2>1 DEF OneEach
  <2> QED BY <2>3, <2>4, <2>5, <2>6
<1> QED BY <1>1, IInvHolds, PTL
-----------------------------------------------------------------------------
\* The first p symbols of the mask stand for the first e characters of the
\* text; no backslash at the end of them waits for its character.
PartlyCovers(E, cut, p, e) ==
    /\ E \in SUBSET (1..(p - 1))
    /\ \A i \in 1..p : i \in E <=> mask[i] = "\\" /\ i - 1 \notin E
    /\ cut \in [0..Len(mask) -> 0..Len(hay)]
    /\ Covers(mask, E, p, hay, cut, e)

PartlyMatches(p, e) == \E E, cut : PartlyCovers(E, cut, p, e)

\* A star at p whose skip has begun behind the first e characters, or before.
StarAfter(p, e) ==
    /\ p \in DOMAIN mask /\ mask[p] = "*"
    /\ \E f \in 0..e : PartlyMatches(p - 1, f)

\* What has been read of the mask stands for what has been read of the text,
\* but that the matcher may have come back to a star further on in the text;
\* the star it remembers is one it can come back to; escaped is only set there.
MatchInv ==
    /\ LocalsOK
    /\ result = "running" =>
         /\ \/ PartlyMatches(needle - 1, haystack - 1)
            \/ StarAfter(needle, haystack - 1)
         /\ escaped => needle \in DOMAIN mask /\ mask[needle] = "*"
         /\ lastneedle # 0 => StarAfter(lastneedle, lasthay - 2)
    /\ result = "match" => PartlyMatches(Len(mask), Len(hay))

\* The strings of a call, and what a position in them is.
LEMMA Strings ==
    ASSUME LocalsOK
    PROVE  /\ mask \in Seq(Char) /\ Len(mask) \in Nat /\ DOMAIN mask = 1..Len(mask)
           /\ hay \in Seq(Char) /\ Len(hay) \in Nat /\ DOMAIN hay = 1..Len(hay)
           /\ haystack \in Nat \ {0} /\ needle \in Nat \ {0}
           /\ \A i \in 1..Len(hay) : hay[i] \in Char /\ hay[i] # "NUL"
<1>1. mask \in Seq(Char) /\ hay \in Seq(Char)
  BY MatchingAssumption DEF LocalsOK
<1>2. \A i \in 1..Len(hay) : hay[i] \in Char
  BY <1>1
<1> QED BY <1>1, <1>2, MatchingAssumption DEF LocalsOK

\* How one symbol that is no backslash stands for the characters e + 1 .. f.
Stands(c, e, f) ==
    \/ c \notin Wild /\ f = e + 1 /\ hay[f] = c
    \/ c = "?" /\ f = e + 1
    \/ c = "*" /\ e <= f
    \/ c = "%" /\ e <= f /\ \A k \in (e + 1)..f : hay[k] \notin Space
    \/ c = "~" /\ e < f /\ \A k \in (e + 1)..f : hay[k] \in Space

\* One more symbol of the mask.
LEMMA OneMore ==
    ASSUME LocalsOK, NEW p \in 1..Len(mask), NEW e \in 0..Len(hay), NEW f \in 0..Len(hay),
           PartlyMatches(p - 1, e), mask[p] # "\\", Stands(mask[p], e, f)
    PROVE  PartlyMatches(p, f)
<1>1. Len(mask) \in Nat /\ Len(hay) \in Nat
  BY Strings
<1>2. PICK E, cut : PartlyCovers(E, cut, p - 1, e)
  BY DEF PartlyMatches
<1>3. /\ E \in SUBSET (1..(p - 2)) /\ p \notin E /\ p - 1 \notin E
      /\ \A i \in 1..(p - 1) : i \in E <=> mask[i] = "\\" /\ i - 1 \notin E
      /\ cut \in [0..Len(mask) -> 0..Len(hay)] /\ cut[0] = 0 /\ cut[p - 1] = e
      /\ \A i \in 1..(p - 1) : StandsFor(mask, E, i, hay, cut[i - 1], cut[i])
  BY <1>1, <1>2 DEF PartlyCovers, Covers
<1> DEFINE new == [cut EXCEPT ![p] = f]
<1>4. /\ new \in [0..Len(mask) -> 0..Len(hay)] /\ new[p] = f
      /\ \A i \in 0..(p - 1) : new[i] = cut[i]
  BY <1>1, <1>3
<1> HIDE DEF new
<1>5. StandsFor(mask, E, p, hay, e, f)
  BY <1>3 DEF StandsFor, Stands, Wild
<1>6. ASSUME NEW i \in 1..p PROVE StandsFor(mask, E, i, hay, new[i - 1], new[i])
  <2>1. CASE i = p
    <3>1. new[i - 1] = e /\ new[i] = f
      BY <1>1, <1>3, <1>4, <2>1
    <3> QED BY <1>5, <2>1, <3>1
  <2>2. CASE i \in 1..(p - 1)
    <3>1. new[i - 1] = cut[i - 1] /\ new[i] = cut[i]
      BY <1>4, <2>2
    <3> QED BY <1>3, <2>2, <3>1
  <2> QED BY <2>1, <2>2
<1>7. E \in SUBSET (1..(p - 1)) /\ new[0] = 0
  BY <1>1, <1>3, <1>4
<1>8. \A i \in 1..p : i \in E <=> mask[i] = "\\" /\ i - 1 \notin E
  BY <1>3
<1> QED BY <1>4, <1>6, <1>7, <1>8 DEF PartlyMatches, PartlyCovers, Covers

\* A backslash and the character that it makes literal.
LEMMA OneEscaped ==
    ASSUME LocalsOK, NEW p \in Nat, p + 2 <= Len(mask), NEW e \in Nat, e + 1 <= Len(hay),
           PartlyMatches(p, e), mask[p + 1] = "\\", hay[e + 1] = mask[p + 2]
    PROVE  PartlyMatches(p + 2, e + 1)
<1>1. Len(mask) \in Nat /\ Len(hay) \in Nat
  BY Strings
<1>2. PICK E, cut : PartlyCovers(E, cut, p, e)
  BY DEF PartlyMatches
<1>3. /\ E \in SUBSET (1..(p - 1))
      /\ \A i \in 1..p : i \in E <=> mask[i] = "\\" /\ i - 1 \notin E
      /\ cut \in [0..Len(mask) -> 0..Len(hay)] /\ cut[0] = 0 /\ cut[p] = e
      /\ \A i \in 1..p : StandsFor(mask, E, i, hay, cut[i - 1], cut[i])
  BY <1>2 DEF PartlyCovers, Covers
<1> DEFINE new == [cut EXCEPT ![p + 1] = e, ![p + 2] = e + 1]
           F == E \cup {p + 1}
<1>4. /\ new \in [0..Len(mask) -> 0..Len(hay)] /\ new[p + 1] = e /\ new[p + 2] = e + 1
      /\ \A i \in 0..p : new[i] = cut[i]
  BY <1>1, <1>3
<1> HIDE DEF new
<1>5. /\ F \in SUBSET (1..(p + 1)) /\ p + 1 \in F /\ p + 2 \notin F
      /\ \A i \in 0..p : i \in F <=> i \in E
      /\ p \notin E
  BY <1>3
<1> HIDE DEF F
<1>6. ASSUME NEW i \in 1..(p + 2) PROVE StandsFor(mask, F, i, hay, new[i - 1], new[i])
  <2>1. CASE i = p + 1
    <3>1. new[i - 1] = e /\ new[i] = e /\ i \in F
      BY <1>3, <1>4, <1>5, <2>1
    <3> QED BY <3>1 DEF StandsFor
  <2>2. CASE i = p + 2
    <3>1. new[i - 1] = e /\ new[i] = e + 1 /\ i \notin F /\ i - 1 \in F /\ hay[e + 1] = mask[i]
      BY <1>4, <1>5, <2>2
    <3> QED BY <3>1 DEF StandsFor
  <2>3. CASE i \in 1..p
    <3>1. new[i - 1] = cut[i - 1] /\ new[i] = cut[i]
      BY <1>4, <2>3
    <3>2. (i \in F <=> i \in E) /\ (i - 1 \in F <=> i - 1 \in E)
      BY <1>5, <2>3
    <3>3. StandsFor(mask, E, i, hay, cut[i - 1], cut[i])
      BY <1>3, <2>3
    <3> QED BY <3>1, <3>2, <3>3 DEF StandsFor
  <2> QED BY <2>1, <2>2, <2>3
<1>7. \A i \in 1..(p + 2) : i \in F <=> mask[i] = "\\" /\ i - 1 \notin F
  <2> SUFFICES ASSUME NEW i \in 1..(p + 2) PROVE i \in F <=> mask[i] = "\\" /\ i - 1 \notin F
    OBVIOUS
  <2>1. CASE i = p + 1
    BY <1>5, <2>1
  <2>2. CASE i = p + 2
    BY <1>5, <2>2
  <2>3. CASE i \in 1..p
    <3>1. (i \in F <=> i \in E) /\ (i - 1 \in F <=> i - 1 \in E)
      BY <1>5, <2>3
    <3> QED BY <1>3, <2>3, <3>1
  <2> QED BY <2>1, <2>2, <2>3
<1>8. new[0] = 0 /\ F \in SUBSET (1..((p + 2) - 1))
  BY <1>3, <1>4, <1>5
<1>9. PartlyCovers(F, new, p + 2, e + 1)
  BY <1>4, <1>6, <1>7, <1>8 DEF PartlyCovers, Covers
<1> QED BY <1>9 DEF PartlyMatches

\* All of the mask for all of the text is a match.
LEMMA WholeMatches ==
    ASSUME LocalsOK, PartlyMatches(Len(mask), Len(hay))
    PROVE  Matches(hay, mask)
<1>1. Len(mask) \in Nat /\ DOMAIN mask = 1..Len(mask)
  BY Strings
<1>2. PICK E, cut : PartlyCovers(E, cut, Len(mask), Len(hay))
  BY DEF PartlyMatches
<1>3. E \in SUBSET (1..Len(mask)) /\ IsEscapes(E, mask)
  BY <1>1, <1>2 DEF PartlyCovers, IsEscapes
<1> QED BY <1>2, <1>3 DEF PartlyCovers, Matches

\* Where a skip ends.
LEMMA SkipEnds ==
    ASSUME LocalsOK, NEW stops
    PROVE  /\ SkipTo(stops) \in haystack..(Len(hay) + 1)
           /\ SkipTo(stops) = Len(hay) + 1 \/ SkipTo(stops) \in stops
           /\ \A j \in haystack..(SkipTo(stops) - 1) : j \notin stops
<1>1. haystack \in Nat /\ Len(hay) \in Nat /\ haystack <= Len(hay) + 1
  BY Strings DEF LocalsOK
<1> DEFINE ends == {k \in haystack..(Len(hay) + 1) : k = Len(hay) + 1 \/ k \in stops}
<1>2. ends \in SUBSET Nat /\ Len(hay) + 1 \in ends
  BY <1>1
<1>3. PICK k \in ends : \A y \in ends : k <= y
  BY <1>2, LeastNat
<1>4. ASSUME NEW j \in haystack..(k - 1) PROVE j \notin stops
  <2>1. j \in haystack..(Len(hay) + 1) /\ ~(k <= j)
    BY <1>1, <1>3
  <2> QED BY <1>3, <2>1
<1>5. \E i \in haystack..(Len(hay) + 1) :
        /\ i = Len(hay) + 1 \/ i \in stops
        /\ \A j \in haystack..(i - 1) : j \notin stops
  BY <1>3, <1>4
<1> QED BY <1>5 DEF SkipTo

\* The empty mask for the empty text.
LEMMA NothingMatches == ASSUME LocalsOK PROVE PartlyMatches(0, 0)
<1> DEFINE cut == [i \in 0..Len(mask) |-> 0]
<1>1. Len(mask) \in Nat /\ Len(hay) \in Nat
  BY Strings
<1>2. cut \in [0..Len(mask) -> 0..Len(hay)] /\ cut[0] = 0
  BY <1>1
<1> HIDE DEF cut
<1>3. PartlyCovers({}, cut, 0, 0)
  BY <1>1, <1>2 DEF PartlyCovers, Covers
<1> QED BY <1>3 DEF PartlyMatches

\* A call begins with nothing read.
LEMMA CalledMatchInv == Called => MatchInv
<1> SUFFICES ASSUME Called PROVE MatchInv
  OBVIOUS
<1>1. Len(mask) \in Nat /\ Len(hay) \in Nat
  BY MatchingAssumption DEF Called
<1>2. LocalsOK
  <2>1. haystack \in 1..(Len(hay) + 1) /\ needle \in 1..(Len(mask) + 1)
    BY <1>1 DEF Called
  <2>2. lasthay = 0 /\ lastneedle = 0 /\ 0 \in 0..(Len(hay) + 2) /\ 0 \in 0..Len(mask)
        /\ Len(hay) + 2 # 0
    BY <1>1 DEF Called
  <2> QED BY <2>1, <2>2 DEF Called, LocalsOK
<1>3. PartlyMatches(needle - 1, haystack - 1)
  BY <1>2, NothingMatches DEF Called
<1> QED BY <1>2, <1>3 DEF Called, MatchInv

\* A symbol that is no star stands for what follows what has been read.
LEMMA InOrder ==
    ASSUME MatchInv, Comparing, mask[needle] # "*"
    PROVE  /\ PartlyMatches(needle - 1, haystack - 1) /\ ~escaped
           /\ needle \in 1..Len(mask) /\ haystack \in 1..Len(hay)
           /\ haystack - 1 \in 0..Len(hay) /\ LocalsOK
<1>1. LocalsOK /\ result = "running"
  BY DEF MatchInv, Comparing
<1>2. needle \in 1..Len(mask) /\ haystack \in 1..Len(hay) /\ haystack - 1 \in 0..Len(hay)
  BY <1>1, Strings DEF Comparing
<1> QED BY <1>1, <1>2 DEF MatchInv, StarAfter

\* What has been read when the matcher is at a star.
LEMMA AtStar ==
    ASSUME MatchInv, result = "running", needle \in DOMAIN mask, mask[needle] = "*"
    PROVE  StarAfter(needle, haystack - 1)
<1>1. haystack - 1 \in Nat
  BY Strings DEF MatchInv
<1>2. haystack - 1 \in 0..(haystack - 1)
  BY <1>1
<1> QED BY <1>2 DEF MatchInv, StarAfter

\* A star stands for all that follows what had been read before it.
LEMMA StarTakes ==
    ASSUME LocalsOK, NEW p \in 1..Len(mask), NEW e \in 0..Len(hay), StarAfter(p, e),
           NEW f \in e..Len(hay)
    PROVE  PartlyMatches(p, f)
<1>1. Len(hay) \in Nat
  BY Strings
<1>2. PICK g \in 0..e : PartlyMatches(p - 1, g)
  BY DEF StarAfter
<1>3. g \in 0..Len(hay) /\ g <= f /\ mask[p] = "*"
  BY <1>1, <1>2 DEF StarAfter
<1>4. mask[p] # "\\" /\ Stands(mask[p], g, f) /\ f \in 0..Len(hay)
  BY <1>1, <1>3 DEF Stands
<1> QED BY <1>2, <1>3, <1>4, OneMore

\* The strings of the call stay as they are, and so does what they say.
LEMMA SameStrings ==
    ASSUME UNCHANGED <<hay, mask>>
    PROVE  /\ \A p, e : PartlyMatches(p, e)' <=> PartlyMatches(p, e)
           /\ \A p, e : StarAfter(p, e)' <=> StarAfter(p, e)
<1>1. ASSUME NEW p, NEW e PROVE PartlyMatches(p, e)' <=> PartlyMatches(p, e)
  BY DEF PartlyMatches, PartlyCovers, Covers, StandsFor
<1>2. ASSUME NEW p, NEW e PROVE StarAfter(p, e)' <=> StarAfter(p, e)
  BY DEF StarAfter, PartlyMatches, PartlyCovers, Covers, StandsFor
<1> QED BY <1>1, <1>2

\* A call that is decided: nothing moves.
LEMMA DecidingKeepsMatchInv == ASSUME MatchInv, NeedleEnds \/ HaystackEnds PROVE MatchInv'
<1>1. LocalsOK /\ result = "running" /\ UNCHANGED <<args, haystack, needle, escaped, last>>
  BY DEF MatchInv, NeedleEnds, HaystackEnds, Return
<1>2. result' \in {"match", "fail"}
  BY DEF NeedleEnds, HaystackEnds, Return
<1>3. LocalsOK'
  BY <1>1, <1>2 DEF LocalsOK, args, last
<1>4. Len(mask) \in Nat /\ Len(hay) \in Nat /\ DOMAIN mask = 1..Len(mask)
  BY <1>1, Strings
<1>5. ASSUME result' = "match" PROVE PartlyMatches(Len(mask), Len(hay))
  <2>1. CASE NeedleEnds
    <3>1. needle = Len(mask) + 1 /\ haystack = Len(hay) + 1
      BY <1>5, <2>1 DEF NeedleEnds, Return
    <3>2. ~StarAfter(needle, haystack - 1)
      BY <1>4, <3>1 DEF StarAfter
    <3>3. needle - 1 = Len(mask) /\ haystack - 1 = Len(hay)
      BY <1>4, <3>1
    <3> QED BY <1>1, <3>2, <3>3 DEF MatchInv
  <2>2. CASE HaystackEnds
    <3>1. needle = Len(mask) /\ needle <= Len(mask) /\ mask[needle] = "*" /\ haystack = Len(hay) + 1
      BY <1>5, <2>2 DEF HaystackEnds, Return
    <3>2. needle \in 1..Len(mask) /\ haystack - 1 = Len(hay)
      BY <1>1, <1>4, <3>1, Strings
    <3>3. StarAfter(needle, Len(hay))
      BY <1>1, <1>4, <3>1, <3>2, AtStar
    <3>4. Len(hay) \in 0..Len(hay) /\ Len(hay) \in Len(hay)..Len(hay)
      BY <1>4
    <3> QED BY <1>1, <3>1, <3>2, <3>3, <3>4, StarTakes
  <2> QED BY <2>1, <2>2
<1>6. UNCHANGED <<hay, mask>>
  BY <1>1 DEF args
<1>7. result' = "match" => PartlyMatches(Len(mask), Len(hay))'
  BY <1>5, <1>6, SameStrings
<1> QED BY <1>2, <1>3, <1>7 DEF MatchInv

\* The step of a symbol that is no star and has stood for what it should.
LEMMA AdvancingKeepsMatchInv ==
    ASSUME MatchInv, result = "running", UNCHANGED <<args, last, result>>, LocalsOK',
           escaped' = FALSE, PartlyMatches(needle' - 1, haystack' - 1)
    PROVE  MatchInv'
<1>1. UNCHANGED <<hay, mask>> /\ UNCHANGED <<lasthay, lastneedle>>
  BY DEF args, last
<1>2. PartlyMatches(needle - 1, haystack - 1)'
  BY <1>1, SameStrings
<1>3. lastneedle' # 0 => StarAfter(lastneedle, lasthay - 2)'
  BY <1>1, SameStrings DEF MatchInv
<1> QED BY <1>2, <1>3 DEF MatchInv

\* Where the pointers may be after a step.
LEMMA PointersStay ==
    ASSUME LocalsOK, haystack <= Len(hay), UNCHANGED <<args, last, result>>, escaped' \in BOOLEAN,
           haystack' \in 1..(Len(hay) + 1), needle' \in 1..(Len(mask) + 1)
    PROVE  LocalsOK'
<1>1. lasthay # Len(hay) + 2
  BY Strings DEF LocalsOK
<1> QED BY <1>1 DEF LocalsOK, args, last

LEMMA AnyCharacterKeepsMatchInv == ASSUME MatchInv, AnyCharacter PROVE MatchInv'
<1>1. /\ Comparing /\ mask[needle] = "?" /\ haystack' = haystack + 1 /\ needle' = needle + 1
      /\ UNCHANGED <<args, escaped, last, result>> /\ result = "running" /\ haystack <= Len(hay)
  BY DEF AnyCharacter, Comparing
<1>2. /\ PartlyMatches(needle - 1, haystack - 1) /\ ~escaped
      /\ needle \in 1..Len(mask) /\ haystack \in 1..Len(hay)
      /\ haystack - 1 \in 0..Len(hay) /\ LocalsOK
  BY <1>1, InOrder
<1>3. haystack \in 0..Len(hay) /\ haystack = (haystack - 1) + 1
  BY <1>2, Strings
<1>4. PartlyMatches(needle, haystack)
  <2>1. Stands(mask[needle], haystack - 1, haystack)
    BY <1>1, <1>3 DEF Stands
  <2> QED BY <1>1, <1>2, <1>3, <2>1, OneMore
<1>5. needle' - 1 = needle /\ haystack' - 1 = haystack
  BY <1>1, <1>2
<1>6. escaped' = FALSE
  BY <1>1, <1>2 DEF LocalsOK
<1>7. haystack' \in 1..(Len(hay) + 1) /\ needle' \in 1..(Len(mask) + 1)
  BY <1>1, <1>2, Strings
<1>8. LocalsOK'
  BY <1>1, <1>2, <1>6, <1>7, PointersStay
<1> QED BY <1>1, <1>4, <1>5, <1>6, <1>8, AdvancingKeepsMatchInv

LEMMA NonSpacesKeepsMatchInv == ASSUME MatchInv, NonSpaces PROVE MatchInv'
<1> DEFINE stops == {j \in DOMAIN hay : hay[j] \in Space \cup {At(needle + 1)}}
<1>1. /\ Comparing /\ mask[needle] = "%" /\ haystack' = SkipTo(stops) /\ needle' = needle + 1
      /\ UNCHANGED <<args, escaped, last, result>> /\ result = "running" /\ haystack <= Len(hay)
  BY DEF NonSpaces, Comparing
<1>2. /\ PartlyMatches(needle - 1, haystack - 1) /\ ~escaped
      /\ needle \in 1..Len(mask) /\ haystack \in 1..Len(hay)
      /\ haystack - 1 \in 0..Len(hay) /\ LocalsOK
  BY <1>1, InOrder
<1>3. /\ SkipTo(stops) \in haystack..(Len(hay) + 1)
      /\ \A j \in haystack..(SkipTo(stops) - 1) : j \notin stops
  BY <1>2, SkipEnds
<1>4. \A j \in 1..Len(hay) : j \notin stops => hay[j] \notin Space
  BY <1>2, Strings
<1> HIDE DEF stops
<1>5. PICK k : k = SkipTo(stops)
  OBVIOUS
<1>6. /\ k - 1 \in 0..Len(hay) /\ haystack - 1 <= k - 1
      /\ \A j \in ((haystack - 1) + 1)..(k - 1) : j \in 1..Len(hay) /\ j \notin stops
  BY <1>2, <1>3, <1>5, Strings
<1>7. PartlyMatches(needle, k - 1)
  <2>1. Stands(mask[needle], haystack - 1, k - 1)
    BY <1>1, <1>4, <1>6 DEF Stands
  <2> QED BY <1>1, <1>2, <1>6, <2>1, OneMore
<1>8. needle' - 1 = needle /\ haystack' = k
  BY <1>1, <1>2, <1>5
<1>9. escaped' = FALSE
  BY <1>1, <1>2 DEF LocalsOK
<1>10. haystack' \in 1..(Len(hay) + 1) /\ needle' \in 1..(Len(mask) + 1)
  BY <1>1, <1>2, <1>3, Strings
<1>11. LocalsOK'
  BY <1>1, <1>2, <1>9, <1>10, PointersStay
<1> QED BY <1>1, <1>7, <1>8, <1>9, <1>11, AdvancingKeepsMatchInv

LEMMA SpacesKeepsMatchInv == ASSUME MatchInv, Spaces PROVE MatchInv'
<1> DEFINE stops == {j \in DOMAIN hay : hay[j] \notin Space}
<1>1. /\ Comparing /\ mask[needle] = "~" /\ result = "running" /\ haystack <= Len(hay)
      /\ UNCHANGED <<args, escaped, last>>
  BY DEF Spaces, Comparing, Return
<1>2. /\ PartlyMatches(needle - 1, haystack - 1) /\ ~escaped
      /\ needle \in 1..Len(mask) /\ haystack \in 1..Len(hay)
      /\ haystack - 1 \in 0..Len(hay) /\ LocalsOK
  BY <1>1, InOrder
<1>3. CASE hay[haystack] \in Space
  <2>1. haystack' = SkipTo(stops) /\ needle' = needle + 1 /\ result' = result
    BY <1>3 DEF Spaces
  <2>2. /\ SkipTo(stops) \in haystack..(Len(hay) + 1)
        /\ SkipTo(stops) = Len(hay) + 1 \/ SkipTo(stops) \in stops
        /\ \A j \in haystack..(SkipTo(stops) - 1) : j \notin stops
    BY <1>2, SkipEnds
  <2>3. /\ haystack \notin stops
        /\ \A j \in 1..Len(hay) : j \notin stops => hay[j] \in Space
    BY <1>2, <1>3, Strings
  <2> HIDE DEF stops
  <2>4. PICK k : k = SkipTo(stops)
    OBVIOUS
  <2>5. /\ k - 1 \in 0..Len(hay) /\ haystack - 1 < k - 1
        /\ \A j \in ((haystack - 1) + 1)..(k - 1) : j \in 1..Len(hay) /\ j \notin stops
    BY <1>2, <2>2, <2>3, <2>4, Strings
  <2>6. PartlyMatches(needle, k - 1)
    <3>1. Stands(mask[needle], haystack - 1, k - 1)
      BY <1>1, <2>3, <2>5 DEF Stands
    <3> QED BY <1>1, <1>2, <2>5, <3>1, OneMore
  <2>7. needle' - 1 = needle /\ haystack' = k
    BY <1>2, <2>1, <2>4
  <2>8. escaped' = FALSE
    BY <1>1, <1>2 DEF LocalsOK
  <2>9. haystack' \in 1..(Len(hay) + 1) /\ needle' \in 1..(Len(mask) + 1)
    BY <1>2, <2>1, <2>2, Strings
  <2>10. LocalsOK'
    BY <1>1, <1>2, <2>1, <2>8, <2>9, PointersStay
  <2> QED BY <1>1, <2>1, <2>6, <2>7, <2>8, <2>10, AdvancingKeepsMatchInv
<1>4. CASE hay[haystack] \notin Space
  <2>1. result' = "fail" /\ UNCHANGED <<args, haystack, needle, escaped, last>>
    BY <1>4 DEF Spaces, Return
  <2>2. LocalsOK'
    BY <1>2, <2>1 DEF LocalsOK, args, last
  <2> QED BY <2>1, <2>2 DEF MatchInv
<1> QED BY <1>3, <1>4

LEMMA StarKeepsMatchInv == ASSUME MatchInv, Star PROVE MatchInv'
<1> DEFINE stops == {j \in DOMAIN hay : hay[j] = At(needle + 1)}
<1>1. /\ Comparing /\ mask[needle] = "*" /\ haystack' = SkipTo(stops) /\ needle' = needle + 1
      /\ IF retries THEN lasthay' = SkipTo(stops) + 1 /\ lastneedle' = needle ELSE UNCHANGED last
      /\ UNCHANGED <<args, escaped, result>> /\ result = "running"
      /\ haystack <= Len(hay) /\ needle <= Len(mask) /\ ~escaped /\ LocalsOK
  BY DEF MatchInv, Star, Comparing, Literal
<1>2. /\ Len(mask) \in Nat /\ Len(hay) \in Nat /\ DOMAIN mask = 1..Len(mask)
      /\ needle \in 1..Len(mask) /\ haystack \in 1..Len(hay) /\ haystack - 1 \in 0..Len(hay)
  BY <1>1, Strings
<1>3. SkipTo(stops) \in haystack..(Len(hay) + 1)
  BY <1>1, SkipEnds
<1> HIDE DEF stops
<1>4. PICK k : k = SkipTo(stops)
  OBVIOUS
<1>5. k - 1 \in (haystack - 1)..Len(hay) /\ k \in 1..(Len(hay) + 1) /\ haystack - 1 <= k - 1
  BY <1>2, <1>3, <1>4
<1>6. StarAfter(needle, haystack - 1)
  BY <1>1, <1>2, AtStar
<1>7. PartlyMatches(needle, k - 1)
  BY <1>1, <1>2, <1>5, <1>6, StarTakes
<1>8. StarAfter(needle, k - 1)
  <2>1. PICK f \in 0..(haystack - 1) : PartlyMatches(needle - 1, f)
    BY <1>6 DEF StarAfter
  <2>2. f \in 0..(k - 1)
    BY <1>2, <1>5, <2>1
  <2> QED BY <1>1, <1>2, <2>1, <2>2 DEF StarAfter
<1>9. UNCHANGED <<hay, mask>> /\ UNCHANGED <<retries, result, escaped>>
  BY <1>1 DEF args
<1>10. escaped' = FALSE
  BY <1>1 DEF LocalsOK
<1>11. needle' - 1 = needle /\ haystack' = k /\ needle' \in 1..(Len(mask) + 1)
  BY <1>1, <1>2, <1>4
<1>12. /\ lasthay' \in 0..(Len(hay) + 2) /\ lastneedle' \in 0..Len(mask)
       /\ lasthay' = Len(hay) + 2 => k = Len(hay) + 1
       /\ lasthay' = 0 <=> lastneedle' = 0
       /\ lastneedle' # 0 => StarAfter(lastneedle', lasthay' - 2)
  <2>1. CASE retries
    <3>1. lasthay' = k + 1 /\ lastneedle' = needle /\ lasthay' - 2 = k - 1
      BY <1>1, <1>4, <1>5, <2>1
    <3> QED BY <1>2, <1>5, <1>8, <3>1
  <2>2. CASE ~retries
    <3>1. lasthay' = lasthay /\ lastneedle' = lastneedle
      BY <1>1, <2>2 DEF last
    <3>2. lasthay # Len(hay) + 2
      BY <1>1, <1>2 DEF LocalsOK
    <3> QED BY <1>1, <3>1, <3>2 DEF MatchInv, LocalsOK
  <2> QED BY <2>1, <2>2
<1>13. LocalsOK'
  BY <1>1, <1>5, <1>9, <1>10, <1>11, <1>12 DEF LocalsOK
<1>14. lastneedle' # 0 => StarAfter(lastneedle, lasthay - 2)'
  BY <1>9, <1>12, SameStrings
<1>15. PartlyMatches(needle - 1, haystack - 1)'
  BY <1>7, <1>9, <1>11, SameStrings
<1> QED BY <1>1, <1>9, <1>10, <1>13, <1>14, <1>15 DEF MatchInv

LEMMA DifferKeepsMatchInv == ASSUME MatchInv, Differ PROVE MatchInv'
<1>1. /\ LocalsOK /\ result = "running" /\ haystack <= Len(hay)
  BY DEF MatchInv, Differ, Plain, Comparing
<1>2. Len(mask) \in Nat /\ Len(hay) \in Nat /\ haystack # Len(hay) + 1
  BY <1>1, Strings
<1>3. CASE lasthay # 0
  <2>1. /\ haystack' = lasthay /\ needle' = lastneedle /\ lasthay' = 0 /\ lastneedle' = 0
        /\ escaped' = Literal /\ UNCHANGED <<args, result>>
    BY <1>3 DEF Differ
  <2>2. UNCHANGED <<hay, mask>> /\ UNCHANGED <<retries, result>>
    BY <2>1 DEF args
  <2>3. lasthay \in 1..(Len(hay) + 1) /\ lastneedle \in 1..Len(mask)
    BY <1>1, <1>2, <1>3 DEF LocalsOK
  <2>4. StarAfter(lastneedle, lasthay - 2)
    BY <1>1, <2>3 DEF MatchInv
  <2>5. StarAfter(lastneedle, lasthay - 1)
    <3>1. PICK f \in 0..(lasthay - 2) : PartlyMatches(lastneedle - 1, f)
      BY <2>4 DEF StarAfter
    <3>2. f \in 0..(lasthay - 1)
      BY <2>3, <3>1
    <3> QED BY <2>4, <3>1, <3>2 DEF StarAfter
  <2>6. StarAfter(needle', haystack' - 1)
    BY <2>1, <2>5
  <2>7. StarAfter(needle, haystack - 1)'
    BY <2>2, <2>6, SameStrings
  <2>8. needle' \in DOMAIN mask' /\ mask'[needle'] = "*"
    BY <2>1, <2>2, <2>5 DEF StarAfter
  <2>9. escaped' \in BOOLEAN
    BY <2>1 DEF Literal
  <2>10. /\ haystack' \in 1..(Len(hay) + 1) /\ needle' \in 1..(Len(mask) + 1)
         /\ lasthay' \in 0..(Len(hay) + 2) /\ lastneedle' \in 0..Len(mask)
         /\ lasthay' # Len(hay) + 2
    BY <1>2, <2>1, <2>3
  <2>11. LocalsOK'
    BY <1>1, <2>1, <2>2, <2>9, <2>10 DEF LocalsOK
  <2> QED BY <1>1, <2>1, <2>7, <2>8, <2>11 DEF MatchInv
<1>4. CASE lasthay = 0
  <2>1. result' = "fail" /\ UNCHANGED <<args, haystack, needle, escaped, last>>
    BY <1>4 DEF Differ, Return
  <2>2. LocalsOK'
    BY <1>1, <2>1 DEF LocalsOK, args, last
  <2> QED BY <2>1, <2>2 DEF MatchInv
<1> QED BY <1>3, <1>4

LEMMA AgreeKeepsMatchInv == ASSUME MatchInv, Agree PROVE MatchInv'
<1>1. /\ Comparing /\ (Literal \/ mask[needle] \notin Wild) /\ At(Compared) = hay[haystack]
      /\ haystack' = haystack + 1 /\ needle' = Compared + 1 /\ escaped' = FALSE
      /\ UNCHANGED <<args, last, result>> /\ result = "running"
      /\ haystack <= Len(hay) /\ needle <= Len(mask) /\ LocalsOK
  BY DEF MatchInv, Agree, Plain, Comparing
<1>2. /\ Len(mask) \in Nat /\ Len(hay) \in Nat /\ DOMAIN mask = 1..Len(mask)
      /\ needle \in 1..Len(mask) /\ haystack \in 1..Len(hay) /\ haystack - 1 \in 0..Len(hay)
      /\ haystack \in 0..Len(hay) /\ (haystack - 1) + 1 = haystack /\ hay[haystack] # "NUL"
  BY <1>1, Strings
<1>3. haystack' \in 1..(Len(hay) + 1) /\ haystack' - 1 = haystack
  BY <1>1, <1>2
<1>4. /\ needle' \in 1..(Len(mask) + 1)
      /\ PartlyMatches(needle' - 1, haystack)
  <2>1. CASE mask[needle] = "\\"
    <3>1. needle + 1 <= Len(mask) /\ mask[needle + 1] = hay[haystack] /\ needle' = needle + 2
      BY <1>1, <1>2, <2>1 DEF At, Compared
    <3>2. PartlyMatches(needle - 1, haystack - 1)
      BY <1>1, <2>1, InOrder
    <3>3. PICK p \in Nat, e \in Nat : p = needle - 1 /\ e = haystack - 1
      BY <1>2
    <3>4. /\ p + 1 = needle /\ p + 2 = needle + 1 /\ e + 1 = haystack /\ p + 2 <= Len(mask)
          /\ needle' \in 1..(Len(mask) + 1) /\ needle' - 1 = p + 2
      BY <1>2, <3>1, <3>3
    <3>5. PartlyMatches(p + 2, e + 1)
      BY <1>1, <2>1, <3>1, <3>2, <3>3, <3>4, OneEscaped
    <3> QED BY <3>4, <3>5
  <2>2. CASE mask[needle] = "*"
    <3>1. needle' = needle + 1
      BY <1>1, <2>2 DEF Compared
    <3>2. StarAfter(needle, haystack - 1)
      BY <1>1, <1>2, <2>2, AtStar
    <3>3. haystack \in (haystack - 1)..Len(hay) /\ needle' - 1 = needle /\ needle' \in 1..(Len(mask) + 1)
      BY <1>2, <3>1
    <3>4. PartlyMatches(needle, haystack)
      BY <1>1, <1>2, <3>2, <3>3, StarTakes
    <3> QED BY <3>3, <3>4
  <2>3. CASE mask[needle] \notin {"\\", "*"}
    <3>1. PartlyMatches(needle - 1, haystack - 1) /\ ~escaped
      BY <1>1, <2>3, InOrder
    <3>2. mask[needle] \notin Wild
      BY <1>1, <2>3, <3>1 DEF Literal
    <3>3. needle' = needle + 1 /\ mask[needle] = hay[haystack]
      BY <1>1, <1>2, <2>3 DEF At, Compared
    <3>4. Stands(mask[needle], haystack - 1, haystack)
      BY <1>2, <3>2, <3>3 DEF Stands
    <3>5. PartlyMatches(needle, haystack)
      BY <1>1, <1>2, <2>3, <3>1, <3>4, OneMore
    <3>6. needle' - 1 = needle /\ needle' \in 1..(Len(mask) + 1)
      BY <1>2, <3>3
    <3> QED BY <3>5, <3>6
  <2> QED BY <2>1, <2>2, <2>3
<1>5. escaped' \in BOOLEAN
  BY <1>1
<1>6. LocalsOK'
  BY <1>1, <1>3, <1>4, <1>5, PointersStay
<1> QED BY <1>1, <1>3, <1>4, <1>6, AdvancingKeepsMatchInv

LEMMA MatchInvHolds == Matcher => []MatchInv
<1>1. MatchInv /\ [Iteration]_locals => MatchInv'
  <2> SUFFICES ASSUME MatchInv, [Iteration]_locals PROVE MatchInv'
    OBVIOUS
  <2>1. CASE UNCHANGED locals
    <3>1. UNCHANGED <<hay, mask>> /\ UNCHANGED <<needle, haystack, lasthay, lastneedle, escaped, result, retries>>
      BY <2>1 DEF locals
    <3>2. LocalsOK'
      BY <3>1 DEF MatchInv, LocalsOK
    <3>3. /\ PartlyMatches(needle - 1, haystack - 1)' <=> PartlyMatches(needle - 1, haystack - 1)
          /\ StarAfter(needle, haystack - 1)' <=> StarAfter(needle, haystack - 1)
          /\ StarAfter(lastneedle, lasthay - 2)' <=> StarAfter(lastneedle, lasthay - 2)
          /\ PartlyMatches(Len(mask), Len(hay))' <=> PartlyMatches(Len(mask), Len(hay))
      BY <3>1, SameStrings
    <3> QED BY <3>1, <3>2, <3>3 DEF MatchInv
  <2>2. CASE Iteration
    BY <2>2, DecidingKeepsMatchInv, AnyCharacterKeepsMatchInv, StarKeepsMatchInv,
       NonSpacesKeepsMatchInv, SpacesKeepsMatchInv, DifferKeepsMatchInv, AgreeKeepsMatchInv
    DEF Iteration
  <2> QED BY <2>1, <2>2
<1> QED BY CalledMatchInv, <1>1, PTL DEF Matcher

\* Whatever mask and text are passed, the two matchers read no character past the end
\* of either, wherever they return to (troll_matchwilds, matchwilds).
THEOREM PositionsStayInside == Matcher => []LocalsOK
<1>1. MatchInv => LocalsOK
  BY DEF MatchInv
<1> QED BY <1>1, MatchInvHolds, PTL

\* For texts and masks of any length: what a mask is said to match, it matches by the
\* rules of the comment, with every backslash, and after a return to a star.
THEOREM NoFalseMatch == Matcher => []MatchesAreReal
<1>1. MatchInv => MatchesAreReal
  BY WholeMatches DEF MatchInv, MatchesAreReal
<1> QED BY <1>1, MatchInvHolds, PTL
-----------------------------------------------------------------------------
\* Masks that must match: without a backslash, cut by cut.
FullCover(cut) ==
    /\ cut \in [0..Len(mask) -> 0..Len(hay)]
    /\ Covers(mask, {}, Len(mask), hay, cut, Len(hay))

LEMMA FullCoverExists ==
    ASSUME LocalsOK, Matches(hay, mask), \A i \in DOMAIN mask : mask[i] # "\\"
    PROVE  \E cut : FullCover(cut)
<1>1. DOMAIN mask = 1..Len(mask)
  BY Strings
<1>2. PICK E \in SUBSET (1..Len(mask)) :
        /\ IsEscapes(E, mask)
        /\ \E cut \in [0..Len(mask) -> 0..Len(hay)] : Covers(mask, E, Len(mask), hay, cut, Len(hay))
  BY DEF Matches
<1>3. E = {}
  BY <1>1, <1>2 DEF IsEscapes
<1> QED BY <1>2, <1>3 DEF FullCover

\* The symbols of a full cover, one by one.
LEMMA CoverStep ==
    ASSUME LocalsOK, NEW cut, FullCover(cut)
    PROVE  /\ cut[0] = 0 /\ cut[Len(mask)] = Len(hay)
           /\ \A i \in 0..Len(mask) : cut[i] \in 0..Len(hay)
           /\ \A i \in 1..Len(mask) : Stands(mask[i], cut[i - 1], cut[i])
<1>1. Len(mask) \in Nat
  BY Strings
<1>2. \A i \in 1..Len(mask) : Stands(mask[i], cut[i - 1], cut[i])
  BY DEF FullCover, Covers, StandsFor, Stands, Wild
<1> QED BY <1>1, <1>2 DEF FullCover, Covers

\* On a clear mask the matcher is where each cover says, and so never fails.
ClearInv ==
    Clear(hay, mask) => \A cut : FullCover(cut) =>
        /\ result # "fail"
        /\ result = "running" => ~escaped /\ cut[needle - 1] = haystack - 1

\* What a symbol of a clear mask is, and what it leaves to the rest of the text.
LEMMA ClearSymbol ==
    ASSUME LocalsOK, Clear(hay, mask), NEW cut, FullCover(cut), NEW i \in 1..Len(mask)
    PROVE  /\ mask[i] # "\\"
           /\ mask[i] \in {"*", "%"} =>
                \/ mask[i] = "*" /\ i = Len(mask)
                \/ /\ i + 1 \in 1..Len(mask) /\ cut[i] + 1 \in 1..Len(hay)
                   /\ hay[cut[i] + 1] = mask[i + 1]
                   /\ \A j \in 1..Len(hay) : hay[j] = mask[i + 1] => j = cut[i] + 1
           /\ mask[i] = "~" =>
                \/ i = Len(mask)
                \/ /\ cut[i] + 1 \in 1..Len(hay) /\ hay[cut[i] + 1] \notin Space
<1>1. /\ Len(mask) \in Nat /\ DOMAIN mask = 1..Len(mask) /\ Len(hay) \in Nat /\ DOMAIN hay = 1..Len(hay)
  BY Strings
<1>2. ASSUME i < Len(mask), mask[i + 1] \notin Wild
      PROVE  cut[i] + 1 \in 1..Len(hay) /\ hay[cut[i] + 1] = mask[i + 1] /\ i + 1 \in 1..Len(mask)
  <2>1. i + 1 \in 1..Len(mask) /\ (i + 1) - 1 = i /\ i \in 0..Len(mask) /\ i + 1 \in 0..Len(mask)
    BY <1>1, <1>2
  <2>2. Stands(mask[i + 1], cut[i], cut[i + 1]) /\ cut[i] \in 0..Len(hay) /\ cut[i + 1] \in 0..Len(hay)
    BY <2>1, CoverStep
  <2>3. cut[i + 1] = cut[i] + 1 /\ hay[cut[i] + 1] = mask[i + 1]
    BY <1>2, <2>2 DEF Stands, Wild
  <2> QED BY <1>1, <2>1, <2>2, <2>3
<1>3. mask[i] # "\\"
  BY <1>1 DEF Clear
<1>4. ASSUME mask[i] \in {"*", "%"}, ~(mask[i] = "*" /\ i = Len(mask))
      PROVE  /\ i + 1 \in 1..Len(mask) /\ cut[i] + 1 \in 1..Len(hay)
             /\ hay[cut[i] + 1] = mask[i + 1]
             /\ \A j \in 1..Len(hay) : hay[j] = mask[i + 1] => j = cut[i] + 1
  <2>1. /\ i < Len(mask) /\ mask[i + 1] \notin Wild
        /\ \A j, k \in 1..Len(hay) : hay[j] = mask[i + 1] /\ hay[k] = mask[i + 1] => j = k
    BY <1>1, <1>4 DEF Clear
  <2> QED BY <1>2, <2>1
<1>5. ASSUME mask[i] = "~", i # Len(mask)
      PROVE  cut[i] + 1 \in 1..Len(hay) /\ hay[cut[i] + 1] \notin Space
  <2>1. mask[i + 1] \notin Wild /\ mask[i + 1] \notin Space
    BY <1>1, <1>5 DEF Clear
  <2>2. i < Len(mask)
    <3>1. i <= Len(mask) /\ i \in Int /\ Len(mask) \in Int
      BY <1>1
    <3> QED BY <1>5, <3>1
  <2>3. cut[i] + 1 \in 1..Len(hay) /\ hay[cut[i] + 1] = mask[i + 1]
    BY <1>2, <2>1, <2>2
  <2> QED BY <2>1, <2>3
<1> QED BY <1>3, <1>4, <1>5

LEMMA ClearStep ==
    ASSUME MatchInv, Iteration, Clear(hay, mask), NEW cut, FullCover(cut),
           result = "running", ~escaped, cut[needle - 1] = haystack - 1
    PROVE  /\ result' # "fail"
           /\ result' = "running" => ~escaped' /\ cut[needle' - 1] = haystack' - 1
<1>1. /\ LocalsOK /\ Len(mask) \in Nat /\ DOMAIN mask = 1..Len(mask)
      /\ Len(hay) \in Nat /\ DOMAIN hay = 1..Len(hay)
      /\ haystack \in 1..(Len(hay) + 1) /\ needle \in 1..(Len(mask) + 1)
  BY Strings DEF MatchInv, LocalsOK
<1>2. /\ cut[Len(mask)] = Len(hay)
      /\ \A i \in 0..Len(mask) : cut[i] \in 0..Len(hay)
      /\ \A i \in 1..Len(mask) : Stands(mask[i], cut[i - 1], cut[i])
  BY <1>1, CoverStep
<1>3. needle <= Len(mask) =>
        /\ needle \in 1..Len(mask) /\ Stands(mask[needle], haystack - 1, cut[needle])
        /\ cut[needle] \in 0..Len(hay) /\ ~Literal
  <2> SUFFICES ASSUME needle <= Len(mask)
               PROVE  /\ needle \in 1..Len(mask) /\ Stands(mask[needle], haystack - 1, cut[needle])
                      /\ cut[needle] \in 0..Len(hay) /\ ~Literal
    OBVIOUS
  <2>1. needle \in 1..Len(mask) /\ needle \in 0..Len(mask)
    BY <1>1
  <2>2. mask[needle] # "\\"
    BY <1>1, <2>1, ClearSymbol
  <2> QED BY <1>2, <2>1, <2>2 DEF Literal
<1>4. CASE NeedleEnds
  <2>0. needle - 1 = Len(mask)
    BY <1>1, <1>4 DEF NeedleEnds
  <2>1. haystack = Len(hay) + 1
    BY <1>1, <1>2, <2>0
  <2> QED BY <1>4, <2>1 DEF NeedleEnds, Return
<1>5. CASE HaystackEnds
  <2>0. needle <= Len(mask) /\ haystack = Len(hay) + 1
    BY <1>5 DEF HaystackEnds
  <2>1. needle <= Len(mask) /\ haystack - 1 = Len(hay)
    BY <1>1, <2>0
  <2>2. cut[needle] = Len(hay) /\ mask[needle] \in {"*", "%"}
    BY <1>1, <1>3, <2>1 DEF Stands
  <2>3. mask[needle] = "*" /\ needle = Len(mask)
    <3>1. cut[needle] + 1 \notin 1..Len(hay)
      BY <1>1, <2>2
    <3> QED BY <1>1, <1>3, <2>1, <2>2, <3>1, ClearSymbol
  <2> QED BY <1>5, <2>3 DEF HaystackEnds, Return
<1>6. CASE AnyCharacter
  <2>1. /\ needle <= Len(mask) /\ mask[needle] = "?" /\ haystack' = haystack + 1 /\ needle' = needle + 1
        /\ escaped' = escaped /\ result' = result
    BY <1>6 DEF AnyCharacter, Comparing
  <2>2. cut[needle] = haystack /\ needle' - 1 = needle /\ haystack' - 1 = haystack
    BY <1>1, <1>3, <2>1 DEF Stands, Wild
  <2> QED BY <2>1, <2>2
<1>7. CASE Star
  <2> DEFINE stops == {j \in DOMAIN hay : hay[j] = At(needle + 1)}
  <2>1. /\ needle <= Len(mask) /\ mask[needle] = "*" /\ haystack' = SkipTo(stops) /\ needle' = needle + 1
        /\ escaped' = escaped /\ result' = result
    BY <1>7 DEF Star, Comparing
  <2>2. /\ SkipTo(stops) \in haystack..(Len(hay) + 1)
        /\ SkipTo(stops) = Len(hay) + 1 \/ SkipTo(stops) \in stops
        /\ \A j \in haystack..(SkipTo(stops) - 1) : j \notin stops
    BY <1>1, SkipEnds
  <2>3. haystack - 1 <= cut[needle] /\ needle' - 1 = needle
    BY <1>1, <1>3, <2>1 DEF Stands, Wild
  <2>4. CASE needle = Len(mask)
    <3>1. \A j \in 1..Len(hay) : hay[j] # At(needle + 1)
      BY <1>1, <2>4, Strings DEF At
    <3>2. SkipTo(stops) = Len(hay) + 1
      BY <2>2, <3>1
    <3> QED BY <1>1, <1>2, <2>1, <2>3, <2>4, <3>2
  <2>5. CASE needle # Len(mask)
    <3>1. /\ needle + 1 \in 1..Len(mask) /\ cut[needle] + 1 \in 1..Len(hay)
          /\ hay[cut[needle] + 1] = mask[needle + 1]
          /\ \A j \in 1..Len(hay) : hay[j] = mask[needle + 1] => j = cut[needle] + 1
      BY <1>1, <1>3, <2>1, <2>5, ClearSymbol
    <3>2. At(needle + 1) = mask[needle + 1]
      BY <3>1 DEF At
    <3>3. stops = {cut[needle] + 1}
      BY <1>1, <3>1, <3>2
    <3> HIDE DEF stops
    <3>4. PICK k : k = SkipTo(stops)
      OBVIOUS
    <3>5. cut[needle] + 1 \notin haystack..(k - 1) /\ (k = Len(hay) + 1 \/ k = cut[needle] + 1)
      BY <2>2, <3>3, <3>4
    <3>6. k = cut[needle] + 1
      BY <1>1, <1>3, <2>1, <2>2, <2>3, <3>1, <3>4, <3>5
    <3> QED BY <1>1, <1>3, <2>1, <2>3, <3>4, <3>6
  <2> QED BY <2>4, <2>5
<1>8. CASE NonSpaces
  <2> DEFINE stops == {j \in DOMAIN hay : hay[j] \in Space \cup {At(needle + 1)}}
  <2>1. /\ needle <= Len(mask) /\ mask[needle] = "%" /\ haystack' = SkipTo(stops) /\ needle' = needle + 1
        /\ escaped' = escaped /\ result' = result
    BY <1>8 DEF NonSpaces, Comparing
  <2>2. /\ SkipTo(stops) \in haystack..(Len(hay) + 1)
        /\ SkipTo(stops) = Len(hay) + 1 \/ SkipTo(stops) \in stops
        /\ \A j \in haystack..(SkipTo(stops) - 1) : j \notin stops
    BY <1>1, SkipEnds
  <2>3. /\ haystack - 1 <= cut[needle] /\ needle' - 1 = needle
        /\ \A j \in haystack..cut[needle] : hay[j] \notin Space
    BY <1>1, <1>3, <2>1 DEF Stands, Wild
  <2>4. /\ needle + 1 \in 1..Len(mask) /\ cut[needle] + 1 \in 1..Len(hay)
        /\ hay[cut[needle] + 1] = mask[needle + 1]
        /\ \A j \in 1..Len(hay) : hay[j] = mask[needle + 1] => j = cut[needle] + 1
    BY <1>1, <1>3, <2>1, ClearSymbol
  <2>5. At(needle + 1) = mask[needle + 1]
    BY <2>4 DEF At
  <2>6. /\ cut[needle] + 1 \in stops
        /\ \A j \in stops : hay[j] \in Space \/ j = cut[needle] + 1
    BY <1>1, <2>4, <2>5
  <2> HIDE DEF stops
  <2>7. PICK k : k = SkipTo(stops)
    OBVIOUS
  <2>8. k <= cut[needle] + 1
    BY <1>1, <1>3, <2>1, <2>2, <2>3, <2>4, <2>6, <2>7
  <2>9. k = cut[needle] + 1
    BY SMTT(60), <1>1, <1>3, <2>1, <2>2, <2>3, <2>4, <2>6, <2>7, <2>8
  <2> QED BY <1>1, <1>3, <2>1, <2>3, <2>7, <2>9
<1>9. CASE Spaces
  <2> DEFINE stops == {j \in DOMAIN hay : hay[j] \notin Space}
  <2>0. needle <= Len(mask) /\ mask[needle] = "~"
    BY <1>9 DEF Spaces, Comparing
  <2>1. /\ haystack - 1 < cut[needle]
        /\ \A j \in haystack..cut[needle] : hay[j] \in Space
    BY <1>1, <1>3, <2>0 DEF Stands, Wild
  <2>2. hay[haystack] \in Space
    BY <1>1, <1>3, <2>0, <2>1
  <2>3. /\ haystack' = SkipTo(stops) /\ needle' = needle + 1
        /\ escaped' = escaped /\ result' = result
    BY <1>9, <2>2 DEF Spaces
  <2>4. /\ SkipTo(stops) \in haystack..(Len(hay) + 1)
        /\ SkipTo(stops) = Len(hay) + 1 \/ SkipTo(stops) \in stops
        /\ \A j \in haystack..(SkipTo(stops) - 1) : j \notin stops
    BY <1>1, SkipEnds
  <2>5. \/ needle = Len(mask) /\ cut[needle] = Len(hay)
        \/ cut[needle] + 1 \in stops
    BY <1>1, <1>2, <1>3, <2>0, ClearSymbol
  <2>6. \A j \in stops : j \notin haystack..cut[needle]
    BY <2>1
  <2> HIDE DEF stops
  <2>7. PICK k : k = SkipTo(stops)
    OBVIOUS
  <2>8. k <= cut[needle] + 1
    <3>1. k \in haystack..(Len(hay) + 1) /\ \A j \in haystack..(k - 1) : j \notin stops
      BY <2>4, <2>7
    <3>2. CASE cut[needle] + 1 \in stops
      <4>1. cut[needle] + 1 \in haystack..(k - 1) \/ k <= cut[needle] + 1
        BY <1>1, <1>3, <2>0, <2>1, <3>1
      <4> QED BY <3>1, <3>2, <4>1
    <3>3. CASE cut[needle] = Len(hay)
      BY <1>1, <3>1, <3>3
    <3> QED BY <2>5, <3>2, <3>3
  <2>9. k = cut[needle] + 1
    BY SMTT(60), <1>1, <1>3, <2>0, <2>1, <2>4, <2>6, <2>7, <2>8
  <2>10. needle' - 1 = needle
    BY <1>1, <2>3
  <2> QED BY <1>1, <1>3, <2>0, <2>3, <2>7, <2>9, <2>10
<1>10. ASSUME Plain
       PROVE  /\ Compared = needle /\ needle <= Len(mask) /\ cut[needle] = haystack
              /\ At(Compared) = hay[haystack]
  <2>1. needle <= Len(mask) /\ mask[needle] \notin Wild
    BY <1>3, <1>10 DEF Plain, Comparing
  <2>2. mask[needle] # "\\"
    BY <1>1, <1>3, <2>1, ClearSymbol
  <2>3. cut[needle] = haystack /\ hay[haystack] = mask[needle]
    BY <1>1, <1>3, <2>1 DEF Stands, Wild
  <2> QED BY <2>1, <2>2, <2>3 DEF Compared, At
<1>11. CASE Differ
  BY <1>10, <1>11 DEF Differ
<1>12. CASE Agree
  <2>1. /\ haystack' = haystack + 1 /\ needle' = needle + 1 /\ escaped' = FALSE /\ result' = result
        /\ cut[needle] = haystack
    BY <1>10, <1>12 DEF Agree
  <2>2. needle' - 1 = needle /\ haystack' - 1 = haystack
    BY <1>1, <2>1
  <2> QED BY <2>1, <2>2
<1> QED BY <1>4, <1>5, <1>6, <1>7, <1>8, <1>9, <1>11, <1>12 DEF Iteration

\* Where a position of a string with more than two characters may be.
LEMMA Between ==
    ASSUME NEW L \in Nat, L > 2, NEW p \in 1..(L + 1)
    PROVE  /\ p = 1 \/ p \in 2..(L - 1) \/ p = L \/ p = L + 1
           /\ p = 1 => p \notin 2..(L - 1) /\ p # L /\ p # L + 1
           /\ p \in 2..(L - 1) =>
                /\ p # 1 /\ p # L /\ p # L + 1 /\ p <= L
                /\ p + 1 \in 2..(L - 1) \/ p + 1 = L
           /\ p = L => p \notin 2..(L - 1) /\ p # L + 1
           /\ p = L + 1 => p \notin 2..(L - 1) /\ ~(p <= L)
<1>1. p = 1 \/ p \in 2..(L - 1) \/ p = L \/ p = L + 1
  OBVIOUS
<1>2. p \in 2..(L - 1) => p + 1 \in 2..(L - 1) \/ p + 1 = L
  OBVIOUS
<1> QED BY <1>1, <1>2

\* The word of a mask *word* is in the text from q on.
WordAt(q) ==
    \A i \in 2..(Len(mask) - 1) : q + (i - 2) \in 1..Len(hay) /\ hay[q + (i - 2)] = mask[i]

LEMMA WordMask ==
    ASSUME LocalsOK, WordBetweenStars(mask)
    PROVE  /\ Len(mask) \in Nat /\ Len(mask) > 2 /\ mask[1] = "*" /\ mask[Len(mask)] = "*"
           /\ \A i \in 2..(Len(mask) - 1) : mask[i] \notin Wild /\ mask[i] # "\\"
           /\ \A i \in DOMAIN mask : mask[i] # "\\"
<1>1. Len(mask) \in Nat /\ DOMAIN mask = 1..Len(mask)
  BY Strings
<1>2. \A i \in 2..(Len(mask) - 1) : mask[i] \notin Wild /\ mask[i] # "\\"
  BY DEF WordBetweenStars
<1>3. \A i \in 1..Len(mask) : i \in 2..(Len(mask) - 1) \/ i = 1 \/ i = Len(mask)
  <2> SUFFICES ASSUME NEW i \in 1..Len(mask)
               PROVE  i \in 2..(Len(mask) - 1) \/ i = 1 \/ i = Len(mask)
    OBVIOUS
  <2>1. Len(mask) > 2
    BY DEF WordBetweenStars
  <2>2. i \in 1..(Len(mask) + 1) /\ i # Len(mask) + 1
    BY <1>1
  <2> QED BY <1>1, <2>1, <2>2, Between
<1> QED BY <1>1, <1>2, <1>3 DEF WordBetweenStars

\* A text that such a mask matches has the word.
LEMMA WordIsThere ==
    ASSUME LocalsOK, WordBetweenStars(mask), Matches(hay, mask)
    PROVE  \E q \in 1..Len(hay) : WordAt(q)
<1>1. /\ Len(mask) \in Nat /\ Len(mask) > 2 /\ Len(hay) \in Nat
      /\ \A i \in 2..(Len(mask) - 1) : mask[i] \notin Wild
      /\ \A i \in DOMAIN mask : mask[i] # "\\"
  BY WordMask, Strings
<1>2. PICK cut : FullCover(cut)
  BY <1>1, FullCoverExists
<1>3. /\ \A i \in 0..Len(mask) : cut[i] \in 0..Len(hay)
      /\ \A i \in 1..Len(mask) : Stands(mask[i], cut[i - 1], cut[i])
  BY <1>2, CoverStep
<1>4. \A i \in 2..(Len(mask) - 1) :
        /\ cut[i - 1] \in 0..Len(hay) /\ cut[i] \in 0..Len(hay)
        /\ cut[i] = cut[i - 1] + 1 /\ hay[cut[i]] = mask[i]
  <2> SUFFICES ASSUME NEW i \in 2..(Len(mask) - 1)
               PROVE  /\ cut[i - 1] \in 0..Len(hay) /\ cut[i] \in 0..Len(hay)
                      /\ cut[i] = cut[i - 1] + 1 /\ hay[cut[i]] = mask[i]
    OBVIOUS
  <2>1. i \in 1..Len(mask) /\ i \in 0..Len(mask) /\ i - 1 \in 0..Len(mask) /\ mask[i] \notin Wild
    BY <1>1
  <2>2. Stands(mask[i], cut[i - 1], cut[i])
    BY <1>3, <2>1
  <2> QED BY <1>3, <2>1, <2>2 DEF Stands, Wild
\* The first symbol of the word that would be out of place is not.
<1> DEFINE astray == {i \in Nat : i \in 1..(Len(mask) - 1) /\ cut[i] # cut[1] + (i - 1)}
<1>5. astray = {}
  <2>1. SUFFICES ASSUME astray # {} PROVE FALSE
    OBVIOUS
  <2>2. astray \in SUBSET Nat
    OBVIOUS
  <2>3. PICK i \in astray : \A y \in astray : i <= y
    BY <2>1, <2>2, LeastNat
  <2>4. i \in 1..(Len(mask) - 1) /\ cut[i] # cut[1] + (i - 1)
    BY <2>3
  <2>5. 1 \in 0..Len(mask) /\ cut[1] \in 0..Len(hay)
    BY <1>1, <1>3
  <2>6. i # 1
    BY <2>4, <2>5
  <2>7. i \in 2..(Len(mask) - 1) /\ i - 1 \in 1..(Len(mask) - 1) /\ i - 1 \in Nat /\ ~(i <= i - 1)
    BY <1>1, <2>4, <2>6
  <2>8. cut[i - 1] = cut[1] + ((i - 1) - 1)
    BY <2>3, <2>7
  <2>9. cut[i] = cut[i - 1] + 1
    BY <1>4, <2>7
  <2> QED BY <2>4, <2>5, <2>7, <2>8, <2>9
<1>6. \A i \in 2..(Len(mask) - 1) : cut[i] = cut[1] + (i - 1)
  <2> SUFFICES ASSUME NEW i \in 2..(Len(mask) - 1) PROVE cut[i] = cut[1] + (i - 1)
    OBVIOUS
  <2>1. i \in Nat /\ i \in 1..(Len(mask) - 1)
    BY <1>1
  <2> QED BY <1>5, <2>1
<1> HIDE DEF astray
<1>7. PICK q : q = cut[1] + 1
  OBVIOUS
<1>8. 1 \in 0..Len(mask) /\ cut[1] \in 0..Len(hay)
  BY <1>1, <1>3
<1>9. ASSUME NEW i \in 2..(Len(mask) - 1)
      PROVE  q + (i - 2) = cut[i] /\ cut[i] \in 1..Len(hay) /\ hay[cut[i]] = mask[i]
  <2>1. cut[i] = cut[1] + (i - 1) /\ cut[i] \in 0..Len(hay) /\ hay[cut[i]] = mask[i]
    BY <1>4, <1>6
  <2> QED BY <1>7, <1>8, <2>1
<1>10. WordAt(q)
  BY <1>9 DEF WordAt
<1>11. q \in 1..Len(hay)
  <2>1. 2 \in 2..(Len(mask) - 1)
    BY <1>1
  <2>2. cut[2] = cut[1] + (2 - 1) /\ cut[2] \in 0..Len(hay)
    BY <1>4, <1>6, <2>1
  <2> QED BY <1>7, <1>8, <2>2
<1> QED BY <1>10, <1>11

\* While it looks for the word, the matcher that retries has passed by no place where
\* the word is: at the first star, or with a part of the word that it has just found.
Searching(q) ==
    /\ ~escaped
    /\ \/ needle = 1 /\ haystack <= q
       \/ /\ needle \in 2..(Len(mask) - 1) /\ lastneedle = 1
          /\ lasthay \in 1..(q + 1) /\ haystack = (lasthay - 1) + (needle - 2)
       \/ needle = Len(mask)
       \/ needle = Len(mask) + 1 /\ haystack = Len(hay) + 1

WordInv ==
    retries /\ WordBetweenStars(mask) => \A q \in 1..Len(hay) : WordAt(q) =>
        /\ result # "fail"
        /\ result = "running" => Searching(q)

LEMMA WordStep ==
    ASSUME MatchInv, Iteration, retries, WordBetweenStars(mask),
           NEW q \in 1..Len(hay), WordAt(q), result = "running", Searching(q)
    PROVE  result' # "fail" /\ (result' = "running" => Searching(q)')
<1>1. /\ LocalsOK /\ Len(mask) \in Nat /\ DOMAIN mask = 1..Len(mask)
      /\ Len(hay) \in Nat /\ DOMAIN hay = 1..Len(hay)
      /\ haystack \in 1..(Len(hay) + 1) /\ needle \in 1..(Len(mask) + 1)
      /\ \A i \in 1..Len(hay) : hay[i] # "NUL"
  BY Strings DEF MatchInv, LocalsOK
<1>2. /\ Len(mask) > 2 /\ mask[1] = "*" /\ mask[Len(mask)] = "*"
      /\ \A i \in 2..(Len(mask) - 1) : mask[i] \notin Wild /\ mask[i] # "\\"
      /\ \A i \in 1..Len(mask) : mask[i] # "\\"
  BY <1>1, WordMask
<1>3. /\ hay[q] = mask[2]
      /\ \A i \in 2..(Len(mask) - 1) : q + (i - 2) <= Len(hay) /\ hay[q + (i - 2)] = mask[i]
  <2>1. 2 \in 2..(Len(mask) - 1) /\ q + (2 - 2) = q
    BY <1>1, <1>2
  <2> QED BY <2>1 DEF WordAt
<1>4. ~escaped /\ (needle <= Len(mask) => ~Literal)
  <2>1. needle <= Len(mask) => needle \in 1..Len(mask)
    BY <1>1
  <2> QED BY <1>2, <2>1 DEF Searching, Literal
\* Where the matcher is, and what that says.
<1>5. /\ \/ needle = 1 \/ needle = Len(mask) \/ needle = Len(mask) + 1
         \/ needle \in 2..(Len(mask) - 1)
      /\ needle = 1 => haystack <= q /\ needle + 1 = 2 /\ needle <= Len(mask)
      /\ needle \in 2..(Len(mask) - 1) =>
           /\ needle # 1 /\ needle # Len(mask) /\ needle # Len(mask) + 1 /\ needle <= Len(mask)
           /\ needle + 1 \in 2..(Len(mask) - 1) \/ needle + 1 = Len(mask)
           /\ lastneedle = 1 /\ lasthay \in 1..(q + 1)
           /\ haystack = (lasthay - 1) + (needle - 2)
      /\ needle = Len(mask) + 1 => haystack = Len(hay) + 1 /\ ~(needle <= Len(mask))
  <2>1. /\ needle = 1 \/ needle \in 2..(Len(mask) - 1) \/ needle = Len(mask) \/ needle = Len(mask) + 1
        /\ needle = 1 => needle \notin 2..(Len(mask) - 1) /\ needle # Len(mask) /\ needle # Len(mask) + 1
        /\ needle \in 2..(Len(mask) - 1) =>
             /\ needle # 1 /\ needle # Len(mask) /\ needle # Len(mask) + 1 /\ needle <= Len(mask)
             /\ needle + 1 \in 2..(Len(mask) - 1) \/ needle + 1 = Len(mask)
        /\ needle = Len(mask) => needle \notin 2..(Len(mask) - 1) /\ needle # Len(mask) + 1
        /\ needle = Len(mask) + 1 => needle \notin 2..(Len(mask) - 1) /\ ~(needle <= Len(mask))
    BY <1>1, <1>2, Between
  <2>2. needle = 1 => needle + 1 = 2 /\ needle <= Len(mask)
    BY <1>1, <1>2
  <2> QED BY ZenonT(30), <2>1, <2>2 DEF Searching
<1>6. CASE NeedleEnds
  <2>1. needle = Len(mask) + 1
    BY <1>6 DEF NeedleEnds
  <2>2. haystack = Len(hay) + 1
    BY <1>5, <2>1
  <2> QED BY <1>6, <2>2 DEF NeedleEnds, Return
<1>7. CASE HaystackEnds
  <2>1. needle <= Len(mask) /\ haystack = Len(hay) + 1
    BY <1>7 DEF HaystackEnds
  <2>2. needle # 1
    <3>1. ~(haystack <= q)
      BY <1>1, <2>1
    <3> QED BY <1>5, <3>1
  <2>3. needle \notin 2..(Len(mask) - 1)
    <3>1. SUFFICES ASSUME needle \in 2..(Len(mask) - 1) PROVE FALSE
      OBVIOUS
    <3>2. lasthay \in 1..(q + 1) /\ haystack = (lasthay - 1) + (needle - 2)
      BY <1>5, <3>1
    <3>3. q + (needle - 2) <= Len(hay)
      BY <1>3, <3>1
    <3> QED BY <1>1, <2>1, <3>1, <3>2, <3>3
  <2>4. needle = Len(mask)
    BY <1>5, <2>1, <2>2, <2>3
  <2> QED BY <1>2, <1>4, <1>7, <2>4 DEF HaystackEnds, Return
<1>9. CASE Star
  <2> DEFINE stops == {j \in DOMAIN hay : hay[j] = At(needle + 1)}
  <2>1. /\ needle <= Len(mask) /\ mask[needle] = "*" /\ haystack' = SkipTo(stops) /\ needle' = needle + 1
        /\ lasthay' = SkipTo(stops) + 1 /\ lastneedle' = needle
        /\ escaped' = escaped /\ result' = result /\ hay' = hay /\ mask' = mask
    BY <1>9 DEF Star, Comparing, args
  <2>2. /\ SkipTo(stops) \in haystack..(Len(hay) + 1)
        /\ SkipTo(stops) = Len(hay) + 1 \/ SkipTo(stops) \in stops
        /\ \A j \in haystack..(SkipTo(stops) - 1) : j \notin stops
    BY <1>1, SkipEnds
  <2>3. CASE needle = 1
    <3>1. haystack <= q /\ At(needle + 1) = mask[2]
      BY <1>1, <1>2, <1>5, <2>3 DEF At
    <3>2. q \in stops
      BY <1>1, <1>3, <3>1
    <3> HIDE DEF stops
    <3>3. PICK k : k = SkipTo(stops)
      OBVIOUS
    <3>4. k \in haystack..(Len(hay) + 1) /\ q \notin haystack..(k - 1)
      BY <2>2, <3>2, <3>3
    <3>5. k \in 1..q
      BY <1>1, <3>1, <3>4
    <3>6. needle' = 2 /\ haystack' = k /\ lasthay' = k + 1 /\ lastneedle' = 1
      BY <2>1, <2>3, <3>3
    <3>7. /\ needle' \in 2..(Len(mask) - 1) /\ lasthay' \in 1..(q + 1)
          /\ haystack' = (lasthay' - 1) + (needle' - 2)
      BY <1>1, <1>2, <3>5, <3>6
    <3> QED BY <1>1, <1>4, <2>1, <3>6, <3>7 DEF Searching
  <2>4. CASE needle = Len(mask)
    <3>1. At(needle + 1) = "NUL"
      BY <1>1, <2>4 DEF At
    <3>2. stops = {}
      BY <1>1, <3>1
    <3>3. haystack' = Len(hay) + 1 /\ needle' = Len(mask) + 1
      BY <2>1, <2>2, <2>4, <3>2
    <3> QED BY <1>1, <1>4, <2>1, <3>3 DEF Searching
  <2>5. needle \notin 2..(Len(mask) - 1)
    BY <1>2, <2>1 DEF Wild
  <2>6. needle # Len(mask) + 1
    BY <1>5, <2>1
  <2> QED BY <1>5, <2>3, <2>4, <2>5, <2>6
<1>10. ASSUME Plain
       PROVE  /\ needle \in 2..(Len(mask) - 1) /\ Compared = needle /\ At(Compared) = mask[needle]
              /\ haystack \in 1..Len(hay)
              /\ lasthay \in 1..(q + 1) /\ haystack = (lasthay - 1) + (needle - 2) /\ lastneedle = 1
              /\ hay[q + (needle - 2)] = mask[needle]
  <2>1. needle <= Len(mask) /\ haystack \in 1..Len(hay) /\ mask[needle] \notin Wild
    BY <1>1, <1>4, <1>10 DEF Plain, Comparing
  <2>2. needle \in 2..(Len(mask) - 1)
    <3>1. "*" \in Wild
      BY DEF Wild
    <3> QED BY <1>2, <1>5, <2>1, <3>1
  <2>3. Compared = needle /\ At(Compared) = mask[needle]
    BY <1>2, <2>1, <2>2 DEF Compared, At
  <2>4. lasthay \in 1..(q + 1) /\ haystack = (lasthay - 1) + (needle - 2) /\ lastneedle = 1
    BY <1>5, <2>2
  <2> QED BY <1>3, <2>1, <2>2, <2>3, <2>4
<1>11. CASE Differ
  <2>1. /\ needle \in 2..(Len(mask) - 1) /\ lasthay \in 1..(q + 1) /\ lastneedle = 1
        /\ haystack = (lasthay - 1) + (needle - 2)
        /\ hay[q + (needle - 2)] = mask[needle] /\ hay[haystack] # mask[needle]
    BY <1>10, <1>11 DEF Differ
  <2>2. lasthay # 0 /\ lasthay <= q
    BY <1>1, <2>1
  <2>3. /\ haystack' = lasthay /\ needle' = lastneedle /\ escaped' = Literal
        /\ result' = result /\ hay' = hay /\ mask' = mask
    BY <1>11, <2>2 DEF Differ, args
  <2>4. ~Literal
    BY <1>1, <1>4, <2>1
  <2> QED BY <2>1, <2>2, <2>3, <2>4 DEF Searching
<1>12. CASE Agree
  <2>1. /\ needle \in 2..(Len(mask) - 1) /\ lasthay \in 1..(q + 1) /\ lastneedle = 1
        /\ haystack = (lasthay - 1) + (needle - 2) /\ haystack \in 1..Len(hay)
        /\ haystack' = haystack + 1 /\ needle' = needle + 1 /\ escaped' = FALSE
        /\ lasthay' = lasthay /\ lastneedle' = lastneedle
        /\ result' = result /\ hay' = hay /\ mask' = mask
    BY <1>10, <1>12 DEF Agree, args, last
  <2>2. haystack' = (lasthay' - 1) + (needle' - 2)
    BY <1>1, <2>1
  <2>3. needle' \in 2..(Len(mask') - 1) \/ needle' = Len(mask')
    BY <1>5, <2>1
  <2> QED BY <2>1, <2>2, <2>3 DEF Searching
<1>13. ~AnyCharacter /\ ~NonSpaces /\ ~Spaces
  <2>1. SUFFICES ASSUME needle <= Len(mask) PROVE mask[needle] \notin {"?", "%", "~"}
    BY DEF AnyCharacter, NonSpaces, Spaces, Comparing
  <2>2. needle \in 2..(Len(mask) - 1) => mask[needle] \notin Wild
    BY <1>2
  <2>3. {"?", "%", "~"} \subseteq Wild /\ "*" \notin {"?", "%", "~"}
    BY DEF Wild
  <2> QED BY <1>2, <1>5, <2>1, <2>2, <2>3
<1> QED BY <1>6, <1>7, <1>9, <1>11, <1>12, <1>13 DEF Iteration

\* Both hold from the call to its end.
LEMMA NoMissHolds == Matcher => [](ClearInv /\ WordInv)
<1>1. Called => ClearInv /\ WordInv
  <2> SUFFICES ASSUME Called PROVE ClearInv /\ WordInv
    OBVIOUS
  <2>1. LocalsOK
    BY CalledMatchInv DEF MatchInv
  <2>2. ClearInv
    BY <2>1, CoverStep DEF Called, ClearInv
  <2>3. WordInv
    BY <2>1, Strings DEF Called, WordInv, Searching
  <2> QED BY <2>2, <2>3
<1>2. MatchInv /\ ClearInv /\ WordInv /\ [Iteration]_locals => (ClearInv /\ WordInv)'
  <2> SUFFICES ASSUME MatchInv, ClearInv, WordInv, [Iteration]_locals
               PROVE  ClearInv' /\ WordInv'
    OBVIOUS
  <2>1. UNCHANGED <<hay, mask, retries>>
    BY DEF locals, args, Iteration, NeedleEnds, HaystackEnds, AnyCharacter, Star, NonSpaces, Spaces,
       Differ, Agree, Return
  <2>2. Iteration => result = "running"
    BY DEF Iteration, NeedleEnds, HaystackEnds, AnyCharacter, Star, NonSpaces, Spaces,
       Differ, Agree, Plain, Comparing
  <2>3. ClearInv'
    <3> SUFFICES ASSUME Clear(hay, mask), NEW cut, FullCover(cut)
                 PROVE  /\ result' # "fail"
                        /\ result' = "running" => ~escaped' /\ cut[needle' - 1] = haystack' - 1
      BY SMTT(60), <2>1 DEF ClearInv, Clear, FullCover, Covers, StandsFor
    <3>1. /\ result # "fail"
          /\ result = "running" => ~escaped /\ cut[needle - 1] = haystack - 1
      BY DEF ClearInv
    <3>2. CASE Iteration
      BY <2>2, <3>1, <3>2, ClearStep
    <3>3. CASE UNCHANGED locals
      BY <3>1, <3>3 DEF locals
    <3> QED BY <3>2, <3>3
  <2>4. WordInv'
    <3> SUFFICES ASSUME retries, WordBetweenStars(mask), NEW q \in 1..Len(hay), WordAt(q)
                 PROVE  result' # "fail" /\ (result' = "running" => Searching(q)')
      BY <2>1 DEF WordInv, WordBetweenStars, WordAt
    <3>1. result # "fail" /\ (result = "running" => Searching(q))
      BY DEF WordInv
    <3>2. CASE Iteration
      BY <2>2, <3>1, <3>2, WordStep
    <3>3. CASE UNCHANGED locals
      BY <3>1, <3>3 DEF locals, Searching
    <3> QED BY <3>2, <3>3
  <2> QED BY <2>3, <2>4
<1> QED BY <1>1, <1>2, MatchInvHolds, PTL DEF Matcher

\* For texts and masks of any length: where a mask leaves no choice of where its
\* wildcards end, neither matcher misses what it should match; and matchwilds, which goes
\* back to the star, misses no *word*, wherever and however often it is begun in the text.
THEOREM NoClearMiss == Matcher => []ClearMasksMatch
<1>1. MatchInv /\ ClearInv /\ WordInv => ClearMasksMatch
  <2> SUFFICES ASSUME MatchInv, ClearInv, WordInv, result = "fail", Matches(hay, mask),
                      Clear(hay, mask) \/ (retries /\ WordBetweenStars(mask))
               PROVE  FALSE
    BY DEF ClearMasksMatch
  <2>1. LocalsOK
    BY DEF MatchInv
  <2>2. CASE Clear(hay, mask)
    <3>1. \A i \in DOMAIN mask : mask[i] # "\\"
      BY <2>2 DEF Clear
    <3>2. PICK cut : FullCover(cut)
      BY <2>1, <3>1, FullCoverExists
    <3> QED BY <2>2, <3>2 DEF ClearInv
  <2>3. CASE retries /\ WordBetweenStars(mask)
    <3>1. PICK q \in 1..Len(hay) : WordAt(q)
      BY <2>1, <2>3, WordIsThere
    <3> QED BY <2>3, <3>1 DEF WordInv
  <2> QED BY <2>2, <2>3
<1> QED BY <1>1, MatchInvHolds, NoMissHolds, PTL
=============================================================================
