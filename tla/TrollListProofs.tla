--------------------------- MODULE TrollListProofs --------------------------
(***************************************************************************)
(* The pointer code of the linked lists keeps its links consistent and     *)
(* implements the abstract list, for any set of addresses.                 *)
(***************************************************************************)
EXTENDS TrollList, CursorListProofs

\* Where the running function's pointers are: a find or del walk is at or
\* after the kept pointer, and a del walk has not passed its argument.
WalkInv ==
    /\ op = "idle" => tmp = NULL
    /\ op = "add" => /\ tmp \in Listed
                     /\ arg \in Node \ Listed
                     /\ next[arg] = NULL
                     /\ prev[arg] = NULL
    /\ op = "find" /\ tmp # NULL =>
         \E h, i \in DOMAIN order : order[h] = head /\ order[i] = tmp /\ h <= i
    /\ op = "del" =>
         \E h, i, j \in DOMAIN order :
            /\ order[h] = head /\ order[i] = tmp /\ order[j] = arg
            /\ h <= i /\ i <= j

\* A node that is allocated is in the list, but for the one being added.
AllocInv == alive = Listed \cup (IF op = "add" THEN {arg} ELSE {})

IInv == TypeOK /\ LinksRepresentOrder /\ AllocInv /\ WalkInv

USE NullAssumption

\* Facts about the history sequence used at every step.
LEMMA OrderFacts ==
    ASSUME TypeOK
    PROVE  /\ Len(order) \in Nat
           /\ DOMAIN order = 1..Len(order)
           /\ \A i \in 1..Len(order) : order[i] \in Node /\ order[i] \in Listed
           /\ \A n \in Listed : \E i \in 1..Len(order) : order[i] = n
BY ElementOfSeq DEF TypeOK, Listed, ToSet

LEMMA InitIInv == Init => IInv
<1> SUFFICES ASSUME Init PROVE IInv
  OBVIOUS
<1>1. order = << >> /\ Len(order) = 0 /\ DOMAIN order = {} /\ order \in Seq(Node)
  BY EmptySeq DEF Init
<1>2. Listed = {}
  BY <1>1 DEF Listed, ToSet
<1> QED BY <1>1, <1>2 DEF Init, IInv, TypeOK, Link, LinksRepresentOrder, AllocInv, WalkInv

LEMMA AddFirstIInv == ASSUME IInv, NEW n \in Node, AddFirst(n) PROVE IInv'
<1>1. order = << >> /\ Listed = {} /\ alive = {}
  BY EmptySeq DEF IInv, LinksRepresentOrder, AddFirst, AllocInv, Listed, ToSet
<1>2. /\ order' = <<n>> /\ Len(order') = 1 /\ DOMAIN order' = 1..1
      /\ order'[1] = n /\ order' \in Seq(Node)
  BY DEF AddFirst
<1>3. Listed' = {n}
  BY <1>2 DEF Listed, ToSet
<1>4. TypeOK'
  BY <1>2 DEF IInv, TypeOK, Link, AddFirst
<1>5. next'[n] = NULL /\ prev'[n] = NULL /\ head' = n /\ op' = op /\ tmp' = tmp /\ arg' = arg
  BY DEF IInv, TypeOK, AddFirst
<1>6. LinksRepresentOrder'
  BY <1>2, <1>3, <1>5 DEF LinksRepresentOrder
<1>7. AllocInv' /\ WalkInv'
  BY <1>1, <1>3, <1>5 DEF AllocInv, WalkInv, AddFirst, IInv
<1> QED BY <1>4, <1>6, <1>7 DEF IInv

LEMMA AddBeginIInv == ASSUME IInv, NEW n \in Node, AddBegin(n) PROVE IInv'
<1>1. n \notin Listed /\ alive = Listed
  BY DEF IInv, AllocInv, AddBegin
<1>2. TypeOK'
  BY DEF IInv, TypeOK, Link, AddBegin
<1>3. /\ \A m \in Listed : next'[m] = next[m] /\ prev'[m] = prev[m]
      /\ next'[n] = NULL /\ prev'[n] = NULL
  BY <1>1, OrderFacts DEF IInv, TypeOK, AddBegin
<1>4. order' = order /\ Listed' = Listed /\ head' = head
  BY DEF AddBegin, Listed
<1>5. LinksRepresentOrder'
  BY <1>3, <1>4, OrderFacts DEF IInv, LinksRepresentOrder
<1>6. AllocInv'
  BY <1>1, <1>4 DEF AllocInv, AddBegin
<1>7. WalkInv'
  BY <1>1, <1>3, <1>4 DEF WalkInv, AddBegin, IInv, LinksRepresentOrder
<1> QED BY <1>2, <1>5, <1>6, <1>7 DEF IInv

LEMMA AddWalkIInv == ASSUME IInv, AddWalk PROVE IInv'
<1>1. PICK i \in 1..Len(order) : order[i] = tmp
  BY OrderFacts DEF IInv, WalkInv, AddWalk
<1>2. next[tmp] = IF i < Len(order) THEN order[i + 1] ELSE NULL
  BY <1>1, OrderFacts DEF IInv, LinksRepresentOrder
<1>3. next[tmp] = order[i + 1] /\ i + 1 \in 1..Len(order)
  BY <1>1, <1>2, OrderFacts DEF AddWalk, IInv
<1>4. TypeOK' /\ LinksRepresentOrder' /\ AllocInv'
  BY <1>3, OrderFacts DEF IInv, TypeOK, Link, LinksRepresentOrder, AllocInv, Listed, AddWalk
<1>5. WalkInv'
  BY <1>3, OrderFacts DEF IInv, WalkInv, Listed, AddWalk
<1> QED BY <1>4, <1>5 DEF IInv

LEMMA AddLinkIInv == ASSUME IInv, AddLink PROVE IInv'
<1> DEFINE n == Len(order)
<1>1. /\ n \in Nat /\ DOMAIN order = 1..n
      /\ \A i \in 1..n : order[i] \in Node /\ order[i] \in Listed
      /\ \A m \in Listed : \E i \in 1..n : order[i] = m
  BY OrderFacts DEF IInv
<1>2. /\ arg \in Node /\ arg \notin Listed /\ tmp \in Listed
      /\ next[arg] = NULL /\ prev[arg] = NULL
  BY DEF IInv, WalkInv, AddLink
<1>3. n \in 1..n /\ tmp = order[n]
  <2>1. PICK i \in 1..n : order[i] = tmp
    BY <1>1, <1>2
  <2>2. next[tmp] = IF i < n THEN order[i + 1] ELSE NULL
    BY <2>1, <1>1 DEF IInv, LinksRepresentOrder
  <2>3. next[tmp] = NULL
    BY DEF AddLink
  <2>4. i + 1 \in 1..n => order[i + 1] \in Node
    BY <1>1
  <2> QED BY <2>1, <2>2, <2>3, <2>4, <1>1
<1>4. /\ order' \in Seq(Node) /\ Len(order') = n + 1 /\ DOMAIN order' = 1..(n + 1)
      /\ \A i \in 1..n : order'[i] = order[i]
      /\ order'[n + 1] = arg
  BY <1>2, AppendProperties DEF IInv, TypeOK, AddLink
<1>5. Listed' = Listed \cup {arg}
  BY SMTT(30), <1>1, <1>4 DEF Listed, ToSet
<1>6. /\ next' = [next EXCEPT ![tmp] = arg] /\ prev' = [prev EXCEPT ![arg] = tmp]
      /\ head' = head /\ alive' = alive /\ op' = "idle" /\ tmp' = NULL /\ arg' = NULL
  BY DEF AddLink
<1>7. TypeOK'
  BY <1>2, <1>4, <1>6 DEF IInv, TypeOK, Link
<1> HIDE DEF n
<1>8. \A i, j \in 1..(n + 1) : order'[i] = order'[j] => i = j
  <2>1. \A i, j \in 1..n : order[i] = order[j] => i = j
    BY <1>1 DEF IInv, LinksRepresentOrder, n
  <2>2. \A i \in 1..n : order[i] # arg
    BY <1>1, <1>2
  <2>3. \A i \in 1..(n + 1) : i \in 1..n \/ i = n + 1
    BY <1>1
  <2> QED BY <2>1, <2>2, <2>3, <1>4
<1>9. ASSUME NEW i \in 1..(n + 1)
      PROVE  /\ next'[order'[i]] = IF i < n + 1 THEN order'[i + 1] ELSE NULL
             /\ prev'[order'[i]] = IF i > 1 THEN order'[i - 1] ELSE NULL
  <2>1. CASE i = n + 1
    <3>1. order'[i] = arg /\ arg # tmp /\ i > 1 /\ order'[i - 1] = tmp
      BY <2>1, <1>1, <1>2, <1>3, <1>4
    <3>2. next'[arg] = NULL /\ prev'[arg] = tmp
      BY <3>1, <1>2, <1>6 DEF IInv, TypeOK
    <3> QED BY <2>1, <3>1, <3>2, <1>1
  <2>2. CASE i = n
    <3>1. order'[i] = tmp /\ tmp # arg /\ order'[i + 1] = arg /\ i < n + 1
      BY <2>2, <1>1, <1>2, <1>3, <1>4
    <3>2. i > 1 => order'[i - 1] = order[i - 1]
      BY <2>2, <1>1, <1>4
    <3>3. next'[tmp] = arg /\ prev'[tmp] = prev[tmp]
      BY <3>1, <1>1, <1>3, <1>6 DEF IInv, TypeOK
    <3>4. prev[tmp] = IF i > 1 THEN order[i - 1] ELSE NULL
      BY <2>2, <1>1, <1>3 DEF IInv, LinksRepresentOrder
    <3> QED BY <3>1, <3>2, <3>3, <3>4
  <2>3. CASE i < n
    <3>1. order[i] # tmp /\ order[i] # arg /\ order'[i] = order[i]
      BY SMTT(30), <2>3, <1>1, <1>2, <1>3, <1>4 DEF IInv, LinksRepresentOrder, n
    <3>2. next'[order[i]] = next[order[i]] /\ prev'[order[i]] = prev[order[i]]
      BY <2>3, <3>1, <1>1, <1>6 DEF IInv, TypeOK
    <3>3. /\ next[order[i]] = order[i + 1]
          /\ prev[order[i]] = IF i > 1 THEN order[i - 1] ELSE NULL
      BY SMTT(30), <2>3, <1>1 DEF IInv, LinksRepresentOrder, n
    <3> QED BY <2>3, <3>1, <3>2, <3>3, <1>1, <1>4
  <2> QED BY <2>1, <2>2, <2>3, <1>1
<1>10. order # << >> /\ order' # << >>
  BY <1>1, <1>3, <1>4, EmptySeq DEF n
<1>11. LinksRepresentOrder'
  BY <1>4, <1>5, <1>6, <1>8, <1>9, <1>10 DEF IInv, LinksRepresentOrder
<1>12. AllocInv' /\ WalkInv'
  BY <1>5, <1>6 DEF IInv, AllocInv, WalkInv, AddLink
<1> QED BY <1>7, <1>11, <1>12 DEF IInv

LEMMA FindBeginIInv == ASSUME IInv, FindBegin PROVE IInv'
<1>1. PICK h \in 1..Len(order) : order[h] = head
  BY OrderFacts DEF IInv, LinksRepresentOrder, FindBegin
<1> QED BY <1>1, OrderFacts DEF IInv, TypeOK, LinksRepresentOrder, AllocInv, WalkInv, Listed, FindBegin

LEMMA FindWalkIInv == ASSUME IInv, FindWalk PROVE IInv'
<1>1. PICK h, i \in 1..Len(order) : order[h] = head /\ order[i] = tmp /\ h <= i
  BY OrderFacts DEF IInv, WalkInv, FindWalk
<1>2. next[tmp] = IF i < Len(order) THEN order[i + 1] ELSE NULL
  BY <1>1, OrderFacts DEF IInv, LinksRepresentOrder
<1>3. TypeOK' /\ LinksRepresentOrder' /\ AllocInv'
  BY <1>2, OrderFacts DEF IInv, TypeOK, Link, LinksRepresentOrder, AllocInv, Listed, FindWalk
<1>4. WalkInv'
  BY <1>1, <1>2, OrderFacts DEF IInv, WalkInv, FindWalk
<1> QED BY <1>3, <1>4 DEF IInv

LEMMA NotFoundIInv == ASSUME IInv, NotFound PROVE IInv'
BY DEF IInv, TypeOK, LinksRepresentOrder, AllocInv, WalkInv, Listed, NotFound

LEMMA DelBeginIInv == ASSUME IInv, DelBegin PROVE IInv'
<1>1. PICK h, i \in 1..Len(order) : order[h] = head /\ order[i] = tmp /\ h <= i
  BY OrderFacts DEF IInv, WalkInv, DelBegin
<1>2. TypeOK' /\ LinksRepresentOrder' /\ AllocInv'
  <2>1. arg' \in Node /\ tmp' \in Link
    BY <1>1, OrderFacts DEF IInv, TypeOK, Link, DelBegin
  <2> QED BY <2>1 DEF IInv, TypeOK, LinksRepresentOrder, AllocInv, Listed, DelBegin
<1>3. WalkInv'
  BY <1>1, OrderFacts DEF IInv, WalkInv, DelBegin
<1> QED BY <1>2, <1>3 DEF IInv

LEMMA DelWalkIInv == ASSUME IInv, DelWalk PROVE IInv'
<1>1. PICK h, i, j \in 1..Len(order) :
         order[h] = head /\ order[i] = tmp /\ order[j] = arg /\ h <= i /\ i <= j
  BY OrderFacts DEF IInv, WalkInv, DelWalk
<1>2. i < j
  BY <1>1, OrderFacts DEF DelWalk, IInv
<1>3. next[tmp] = order[i + 1] /\ i + 1 \in 1..Len(order)
  BY <1>1, <1>2, OrderFacts DEF IInv, LinksRepresentOrder
<1>4. TypeOK' /\ LinksRepresentOrder' /\ AllocInv'
  BY <1>3, OrderFacts DEF IInv, TypeOK, Link, LinksRepresentOrder, AllocInv, Listed, DelWalk
<1>5. WalkInv'
  BY SMTT(30), <1>1, <1>2, <1>3, OrderFacts DEF IInv, WalkInv, DelWalk
<1> QED BY <1>4, <1>5 DEF IInv

\* The heart of channel_user_del: with the neighbours relinked, the links
\* represent the sequence without the argument.
LEMMA UnlinkIInv == ASSUME IInv, Unlink PROVE IInv'
<1> DEFINE n == Len(order)
           k == CHOOSE i \in DOMAIN order : order[i] = arg
           old(i) == IF i < k THEN i ELSE i + 1
<1>1. /\ n \in Nat /\ DOMAIN order = 1..n
      /\ \A i \in 1..n : order[i] \in Node /\ order[i] \in Listed
      /\ \A m \in Listed : \E i \in 1..n : order[i] = m
  BY OrderFacts DEF IInv
<1>2. k \in 1..n /\ order[k] = arg
  BY <1>1 DEF IInv, WalkInv, Unlink
<1>3. order' = RemoveAt(order, k)
  BY DEF Unlink
<1>4. /\ order' \in Seq(Node) /\ Len(order') = n - 1
      /\ \A i \in 1..(n - 1) : order'[i] = order[old(i)]
  <2> HIDE DEF k
  <2>1. order \in Seq(Node)
    BY DEF IInv, TypeOK
  <2> QED BY <2>1, <1>2, <1>3, RemoveAtElements
<1> HIDE DEF n, k
<1>5. DOMAIN order' = 1..(n - 1) /\ order \in Seq(Node)
  BY <1>1, <1>4 DEF IInv, TypeOK
<1>6. /\ \A i, j \in 1..n : order[i] = order[j] => i = j
      /\ \A i \in 1..n :
           /\ next[order[i]] = IF i < n THEN order[i + 1] ELSE NULL
           /\ prev[order[i]] = IF i > 1 THEN order[i - 1] ELSE NULL
  BY <1>1 DEF IInv, LinksRepresentOrder, n
<1>7. \A i \in 1..(n - 1) : old(i) \in 1..n /\ old(i) # k
  BY <1>1, <1>2
<1>8. \A i \in 1..n : i # k => \E j \in 1..(n - 1) : old(j) = i
  <2> TAKE i \in 1..n
  <2> HAVE i # k
  <2>1. CASE i < k
    <3>1. i \in 1..(n - 1) /\ old(i) = i
      BY <2>1, <1>1, <1>2
    <3> QED BY <3>1
  <2>2. CASE i > k
    <3>1. i - 1 \in 1..(n - 1) /\ old(i - 1) = i
      BY <2>2, <1>1, <1>2
    <3> QED BY <3>1
  <2> QED BY <2>1, <2>2, <1>1, <1>2
<1>9. Listed' = Listed \ {arg}
  <2>1. ASSUME NEW m \in Listed' PROVE m \in Listed \ {arg}
    <3>1. PICK i \in 1..(n - 1) : m = order'[i]
      BY <1>5 DEF Listed, ToSet
    <3>2. m = order[old(i)] /\ old(i) \in 1..n /\ old(i) # k
      BY <3>1, <1>4, <1>7
    <3> HIDE DEF old
    <3> QED BY <3>2, <1>1, <1>2, <1>6
  <2>2. ASSUME NEW m \in Listed \ {arg} PROVE m \in Listed'
    <3>1. PICK i \in 1..n : m = order[i] /\ i # k
      BY <1>1, <1>2
    <3>2. PICK j \in 1..(n - 1) : old(j) = i
      BY <3>1, <1>8
    <3>3. order'[j] = m
      BY <3>1, <3>2, <1>4
    <3> QED BY <3>3, <1>5 DEF Listed, ToSet
  <2> QED BY <2>1, <2>2
<1>10. \A i, j \in 1..(n - 1) : order'[i] = order'[j] => i = j
  <2>1. \A i, j \in 1..(n - 1) : old(i) = old(j) => i = j
    BY <1>1, <1>2
  <2> HIDE DEF old
  <2> QED BY <2>1, <1>4, <1>6, <1>7
<1>11. /\ prev[arg] = IF k > 1 THEN order[k - 1] ELSE NULL
       /\ next[arg] = IF k < n THEN order[k + 1] ELSE NULL
  BY <1>2, <1>6
<1>12. \A m \in Node :
          /\ next'[m] = IF prev[arg] # NULL /\ m = prev[arg] THEN next[arg] ELSE next[m]
          /\ prev'[m] = IF next[arg] # NULL /\ m = next[arg] THEN prev[arg] ELSE prev[m]
  BY DEF Unlink
<1>13. ASSUME NEW i \in 1..(n - 1)
       PROVE  next'[order'[i]] = IF i < n - 1 THEN order'[i + 1] ELSE NULL
  <2>1. order'[i] = order[old(i)] /\ old(i) \in 1..n /\ order[old(i)] \in Node
    BY <1>1, <1>4, <1>7
  <2>2. CASE i = k - 1
    <3>1. order'[i] = order[k - 1] /\ k - 1 \in 1..n /\ k > 1
      BY <2>1, <2>2, <1>1, <1>2
    <3>2. prev[arg] = order[k - 1] /\ order[k - 1] \in Node
      BY <3>1, <1>1, <1>11
    <3>3. next'[order'[i]] = next[arg]
      BY <3>1, <3>2, <1>12
    <3>4. i < n - 1 => order'[i + 1] = order[k + 1]
      BY <2>2, <1>1, <1>2, <1>4
    <3> QED BY <3>3, <3>4, <2>2, <1>1, <1>2, <1>11
  <2>3. CASE i # k - 1
    <3>1. k > 1 => k - 1 \in 1..n /\ old(i) # k - 1
      BY <2>3, <1>1, <1>2
    <3>2. prev[arg] # NULL => order[old(i)] # prev[arg]
      <4> HIDE DEF old
      <4> QED BY <3>1, <2>1, <1>6, <1>11
    <3>3. next'[order'[i]] = next[order[old(i)]]
      <4> HIDE DEF old
      <4> QED BY <3>2, <2>1, <1>12
    <3>4. next[order[old(i)]] = IF old(i) < n THEN order[old(i) + 1] ELSE NULL
      <4> HIDE DEF old
      <4> QED BY <2>1, <1>6
    <3>5. i < n - 1 => order'[i + 1] = order[old(i) + 1]
      <4>1. i < n - 1 => i + 1 \in 1..(n - 1) /\ old(i + 1) = old(i) + 1
        BY <2>3, <1>1, <1>2
      <4> HIDE DEF old
      <4> QED BY <4>1, <1>4
    <3>6. old(i) < n <=> i < n - 1
      BY <2>3, <1>1, <1>2
    <3> HIDE DEF old
    <3> QED BY <3>3, <3>4, <3>5, <3>6
  <2> QED BY <2>2, <2>3
<1>14. ASSUME NEW i \in 1..(n - 1)
       PROVE  prev'[order'[i]] = IF i > 1 THEN order'[i - 1] ELSE NULL
  <2>1. order'[i] = order[old(i)] /\ old(i) \in 1..n /\ order[old(i)] \in Node
    BY <1>1, <1>4, <1>7
  <2>2. CASE i = k
    <3>1. order'[i] = order[k + 1] /\ k + 1 \in 1..n /\ k < n
      BY <2>1, <2>2, <1>1, <1>2
    <3>2. next[arg] = order[k + 1] /\ order[k + 1] \in Node
      BY <3>1, <1>1, <1>11
    <3>3. prev'[order'[i]] = prev[arg]
      BY <3>1, <3>2, <1>12
    <3>4. i > 1 => order'[i - 1] = order[k - 1]
      BY <2>2, <1>1, <1>2, <1>4
    <3> QED BY <3>3, <3>4, <2>2, <1>1, <1>2, <1>11
  <2>3. CASE i # k
    <3>1. k < n => k + 1 \in 1..n /\ old(i) # k + 1
      BY <2>3, <1>1, <1>2
    <3>2. next[arg] # NULL => order[old(i)] # next[arg]
      <4> HIDE DEF old
      <4> QED BY <3>1, <2>1, <1>6, <1>11
    <3>3. prev'[order'[i]] = prev[order[old(i)]]
      <4> HIDE DEF old
      <4> QED BY <3>2, <2>1, <1>12
    <3>4. prev[order[old(i)]] = IF old(i) > 1 THEN order[old(i) - 1] ELSE NULL
      <4> HIDE DEF old
      <4> QED BY <2>1, <1>6
    <3>5. i > 1 => order'[i - 1] = order[old(i) - 1]
      <4>1. i > 1 => i - 1 \in 1..(n - 1) /\ old(i - 1) = old(i) - 1
        BY <2>3, <1>1, <1>2
      <4> HIDE DEF old
      <4> QED BY <4>1, <1>4
    <3>6. old(i) > 1 <=> i > 1
      BY <2>3, <1>1, <1>2
    <3> HIDE DEF old
    <3> QED BY <3>3, <3>4, <3>5, <3>6
  <2> QED BY <2>2, <2>3
<1>15. head' = IF k > 1 THEN order[k - 1] ELSE IF k < n THEN order[k + 1] ELSE NULL
  <2>1. k > 1 => k - 1 \in 1..n
    BY <1>1, <1>2
  <2>2. k > 1 => order[k - 1] # NULL
    BY <2>1, <1>1
  <2>3. head' = IF prev[arg] # NULL THEN prev[arg] ELSE next[arg]
    BY DEF Unlink, Returned
  <2> QED BY <2>2, <2>3, <1>11
<1>16. (order' = << >> <=> n = 1)
  BY <1>1, <1>2, <1>4, EmptySeq
<1>17. /\ head' = NULL <=> n = 1
       /\ head' # NULL => head' \in Listed'
  <2>1. k > 1 => k - 1 \in 1..n /\ n # 1 /\ order[k - 1] # order[k]
    BY <1>1, <1>2, <1>6
  <2>2. k < n => k + 1 \in 1..n /\ n # 1 /\ order[k + 1] # order[k]
    BY <1>1, <1>2, <1>6
  <2>3. ~(k > 1) /\ ~(k < n) => n = 1
    BY <1>1, <1>2
  <2> QED BY <2>1, <2>2, <2>3, <1>1, <1>2, <1>9, <1>15
<1>18. LinksRepresentOrder'
  BY <1>4, <1>5, <1>10, <1>13, <1>14, <1>16, <1>17 DEF LinksRepresentOrder
<1>19. /\ next' \in [Node -> Link] /\ prev' \in [Node -> Link]
       /\ head' \in Link /\ alive' \subseteq Node
  <2>1. prev[arg] \in Link /\ next[arg] \in Link
    BY <1>1, <1>2 DEF IInv, TypeOK
  <2> QED BY <2>1 DEF IInv, TypeOK, Unlink, Returned
<1>20. TypeOK'
  BY <1>4, <1>19 DEF IInv, TypeOK, Link, Unlink
<1>21. AllocInv' /\ WalkInv'
  BY <1>9 DEF IInv, AllocInv, WalkInv, Unlink
<1> QED BY <1>18, <1>20, <1>21 DEF IInv

-----------------------------------------------------------------------------
LEMMA NextIInv == IInv /\ [Next]_vars => IInv'
<1> SUFFICES ASSUME IInv, [Next]_vars PROVE IInv'
  OBVIOUS
<1>1. CASE UNCHANGED vars
  BY <1>1 DEF vars, IInv, TypeOK, LinksRepresentOrder, AllocInv, WalkInv, Listed
<1>2. CASE \E n \in Node : AddFirst(n) \/ AddBegin(n)
  BY <1>2, AddFirstIInv, AddBeginIInv
<1>3. CASE FindBegin
  BY <1>3, FindBeginIInv
<1>4. CASE Step
  BY <1>4, AddWalkIInv, AddLinkIInv, FindWalkIInv, NotFoundIInv, DelBeginIInv,
     DelWalkIInv, UnlinkIInv DEF Step
<1> QED BY <1>1, <1>2, <1>3, <1>4 DEF Next

THEOREM ListInvariant == Spec => []IInv
BY InitIInv, NextIInv, PTL DEF Spec

\* Whatever sequence of additions, searches and deletions is made, every
\* ->next and ->prev is the neighbour in insertion order.
THEOREM LinksAreConsistent == Spec => []LinksRepresentOrder
<1>1. IInv => LinksRepresentOrder
  BY DEF IInv
<1> QED BY <1>1, ListInvariant, PTL

\* The walk of a _del function meets the node its caller found.
THEOREM DeletionsFindTheirNode == Spec => []DelFindsItsArgument
<1>1. IInv => DelFindsItsArgument
  <2> SUFFICES ASSUME IInv, op = "del" PROVE tmp # NULL /\ arg \in Listed
    BY DEF DelFindsItsArgument
  <2> QED BY OrderFacts DEF IInv, WalkInv
<1> QED BY <1>1, ListInvariant, PTL

\* No pointer of the list or of a running function leads to freed memory, and
\* no node that is not freed is lost.
THEOREM NoPointerDangles == Spec => []NoDanglingLink
<1>1. IInv => NoDanglingLink
  <2> SUFFICES ASSUME IInv PROVE NoDanglingLink
    OBVIOUS
  <2>1. Listed = alive \ (IF op = "add" THEN {arg} ELSE {}) /\ Listed \subseteq alive
    BY DEF IInv, AllocInv, WalkInv
  <2>2. head \in alive \cup {NULL}
    BY <2>1 DEF IInv, LinksRepresentOrder
  <2>3. tmp \in alive \cup {NULL}
    BY <2>1, OrderFacts DEF IInv, TypeOK, WalkInv
  <2>4. ASSUME NEW n \in Listed
        PROVE  next[n] \in alive \cup {NULL} /\ prev[n] \in alive \cup {NULL}
    <3>1. PICK i \in 1..Len(order) : order[i] = n
      BY OrderFacts DEF IInv
    <3>2. /\ next[n] = IF i < Len(order) THEN order[i + 1] ELSE NULL
          /\ prev[n] = IF i > 1 THEN order[i - 1] ELSE NULL
      BY <3>1, OrderFacts DEF IInv, LinksRepresentOrder
    <3>3. /\ i < Len(order) => order[i + 1] \in Listed
          /\ i > 1 => order[i - 1] \in Listed
      BY <3>1, OrderFacts DEF IInv
    <3> QED BY <3>2, <3>3, <2>1
  <2> QED BY <2>1, <2>2, <2>3, <2>4 DEF NoDanglingLink
<1> QED BY <1>1, ListInvariant, PTL

-----------------------------------------------------------------------------
\* The abstract machine computes with the same list functions.
LEMMA SameList ==
    /\ Abstract!EmptyList = EmptyList
    /\ \A l : Abstract!Members(l) = Members(l)
    /\ \A l, x : Abstract!InForward(l, x) <=> InForward(l, x)
    /\ \A l, x : Abstract!ListAdd(l, x) = ListAdd(l, x)
    /\ \A l, x : Abstract!ListDel(l, x) = ListDel(l, x)
<1>1. \A l, x : Abstract!Position(l, x) = Position(l, x)
  BY DEF Abstract!Position, Position
<1>2. \A l : Abstract!Members(l) = Members(l)
  BY DEF Abstract!Members, Members, Abstract!ToSet, ToSet
<1>3. \A l, x : Abstract!InForward(l, x) <=> InForward(l, x)
  BY <1>1, <1>2 DEF Abstract!InForward, InForward
<1>4. \A l, x : Abstract!ListDel(l, x) = ListDel(l, x)
  BY <1>1, <1>3 DEF Abstract!ListDel, ListDel, Abstract!RemoveNode, RemoveNode, Abstract!RemoveAt, RemoveAt
<1>5. \A l, x : Abstract!ListAdd(l, x) = ListAdd(l, x)
  BY DEF Abstract!ListAdd, ListAdd
<1> QED BY <1>2, <1>3, <1>4, <1>5 DEF Abstract!EmptyList, EmptyList

\* Where the kept pointer is in the sequence.
LEMMA HeadPosition ==
    ASSUME IInv
    PROVE  /\ Members(AsList) = Listed
           /\ head = NULL <=> AsList.head = 0
           /\ AsList.items = order
           /\ AsList.head \in Nat
           /\ AsList = [items |-> order, head |-> AsList.head]
           /\ \A h \in 1..Len(order) : order[h] = head => AsList.head = h
<1>1. Members(AsList) = Listed /\ AsList.items = order
  BY DEF Members, Listed, AsList
<1>2. head # NULL => /\ (CHOOSE i \in DOMAIN order : order[i] = head) \in 1..Len(order)
                     /\ order[CHOOSE i \in DOMAIN order : order[i] = head] = head
  BY OrderFacts DEF IInv, LinksRepresentOrder
<1>3. \A h \in 1..Len(order) : order[h] = head => AsList.head = h
  BY <1>2, OrderFacts DEF IInv, LinksRepresentOrder, AsList
<1> QED BY <1>1, <1>2, <1>3, OrderFacts DEF AsList, IInv

\* A step that moves no kept pointer and changes no order is a stutter.
LEMMA WalkingStutters ==
    ASSUME order' = order, head' = head
    PROVE  UNCHANGED AsList
BY DEF AsList

LEMMA AddFirstRefines ==
    ASSUME IInv, IInv', NEW n \in Node, AddFirst(n)
    PROVE  Abstract!Add(n)
<1>1. order = << >> /\ order' = <<n>> /\ head = NULL /\ head' = n
  BY DEF IInv, LinksRepresentOrder, AddFirst
<1>2. AsList = [items |-> << >>, head |-> 0]
  BY <1>1 DEF AsList
<1>3. AsList' = [items |-> <<n>>, head |-> 1]
  <2>1. (CHOOSE i \in DOMAIN order' : order'[i] = head') = 1
    BY <1>1
  <2> QED BY <1>1, <2>1 DEF AsList
<1>4. Members(AsList) = {} /\ Append(<< >>, n) = <<n>>
  BY <1>2, EmptySeq DEF Members, ToSet
<1> QED BY <1>2, <1>3, <1>4, SameList DEF Abstract!Add, ListAdd

LEMMA AddLinkRefines ==
    ASSUME IInv, IInv', AddLink
    PROVE  Abstract!Add(arg) /\ arg \in Node
<1>1. /\ arg \in Node /\ arg \notin Listed
      /\ order' = Append(order, arg) /\ head' = head /\ head # NULL
  BY OrderFacts, EmptySeq DEF IInv, WalkInv, LinksRepresentOrder, AddLink, Listed, ToSet
<1>2. PICK h \in 1..Len(order) : order[h] = head
  BY <1>1, OrderFacts DEF IInv, LinksRepresentOrder
<1>3. AsList.head = h /\ h # 0
  BY <1>2, HeadPosition, OrderFacts DEF IInv
<1>4. h \in 1..Len(order') /\ order'[h] = head'
  BY <1>1, <1>2, AppendProperties, OrderFacts DEF IInv, TypeOK
<1>5. AsList'.head = h
  <2>1. \A i, j \in DOMAIN order' : order'[i] = order'[j] => i = j
    BY DEF IInv, LinksRepresentOrder
  <2>2. h \in DOMAIN order'
    BY <1>4 DEF IInv, TypeOK
  <2>3. (CHOOSE i \in DOMAIN order' : order'[i] = head') = h
    BY <1>4, <2>1, <2>2
  <2> QED BY <2>3, <1>1 DEF AsList
<1>6. AsList' = [items |-> Append(order, arg), head |-> h]
  <2>1. AsList' = [items |-> order', head |-> AsList'.head]
    BY DEF AsList
  <2> QED BY <2>1, <1>1, <1>5
<1>7. Members(AsList) = Listed /\ AsList.items = order
  BY HeadPosition
<1> QED BY <1>1, <1>3, <1>6, <1>7, SameList DEF Abstract!Add, ListAdd

LEMMA UnlinkRefines ==
    ASSUME IInv, IInv', Unlink
    PROVE  Abstract!Del(arg) /\ arg \in Node
<1> DEFINE n == Len(order)
           k == Position(AsList, arg)
<1>1. /\ n \in Nat /\ DOMAIN order = 1..n
      /\ \A i \in 1..n : order[i] \in Node
      /\ \A i, j \in 1..n : order[i] = order[j] => i = j
  BY OrderFacts DEF IInv, LinksRepresentOrder
<1>2. PICK h, j \in 1..n : order[h] = head /\ order[j] = arg /\ h <= j
  BY <1>1, OrderFacts DEF IInv, WalkInv, Unlink
<1>3. AsList.items = order /\ AsList.head = h /\ Members(AsList) = Listed
  BY <1>2, HeadPosition
<1>4. k = CHOOSE i \in DOMAIN order : order[i] = arg
  BY <1>3 DEF Position
<1>5. k = j
  BY <1>1, <1>2, <1>4
<1>6. InForward(AsList, arg) /\ arg \in Node
  BY <1>1, <1>2, <1>3, <1>5, OrderFacts DEF InForward, IInv
<1>7. order' = RemoveAt(order, k)
  BY <1>4 DEF Unlink
<1> HIDE DEF n, k
<1>8. /\ Len(order') = n - 1
      /\ \A i \in 1..(n - 1) : order'[i] = IF i < k THEN order[i] ELSE order[i + 1]
  <2>1. order \in Seq(Node)
    BY DEF IInv, TypeOK
  <2> QED BY <2>1, <1>2, <1>5, <1>7, RemoveAtElements DEF n
<1>9. /\ prev[arg] = IF k > 1 THEN order[k - 1] ELSE NULL
      /\ next[arg] = IF k < n THEN order[k + 1] ELSE NULL
  BY <1>1, <1>2, <1>5 DEF IInv, LinksRepresentOrder, n
<1>10. head' = IF k > 1 THEN order[k - 1] ELSE IF k < n THEN order[k + 1] ELSE NULL
  <2>1. k > 1 => order[k - 1] # NULL
    BY <1>1, <1>2, <1>5
  <2> QED BY <2>1, <1>9 DEF Unlink, Returned
<1> DEFINE p == IF k > 1 THEN k - 1 ELSE IF n > 1 THEN 1 ELSE 0
<1>11. AsList'.head = p
  <2>1. CASE p # 0
    <3>1. p \in 1..(n - 1) /\ order'[p] = head' /\ head' \in Node
      BY <2>1, <1>1, <1>2, <1>5, <1>8, <1>10
    <3>2. DOMAIN order' = 1..(n - 1) /\ \A i, l \in DOMAIN order' : order'[i] = order'[l] => i = l
      BY <1>8 DEF IInv, LinksRepresentOrder, TypeOK
    <3> HIDE DEF p
    <3>3. (CHOOSE i \in DOMAIN order' : order'[i] = head') = p
      BY <3>1, <3>2
    <3> QED BY <3>1, <3>3 DEF AsList
  <2>2. CASE p = 0
    <3>1. head' = NULL
      BY <2>2, <1>1, <1>2, <1>5, <1>10
    <3> QED BY <2>2, <3>1 DEF AsList
  <2> QED BY <2>1, <2>2
<1>12. AsList' = [items |-> RemoveAt(order, k), head |-> p]
  BY <1>7, <1>11 DEF AsList
<1> QED BY <1>3, <1>6, <1>12, SameList DEF Abstract!Del, ListDel, RemoveNode, k, n

LEMMA InitRefines == Init => Abstract!Init
BY SameList DEF Init, Abstract!Init, EmptyList, AsList

LEMMA NextRefines == IInv /\ IInv' /\ [Next]_vars => [Abstract!Next]_AsList
<1> SUFFICES ASSUME IInv, IInv', [Next]_vars PROVE Abstract!Next \/ UNCHANGED AsList
  OBVIOUS
<1>1. CASE UNCHANGED vars
  BY <1>1, WalkingStutters DEF vars
<1>2. ASSUME NEW n \in Node, AddFirst(n) PROVE Abstract!Next
  BY <1>2, AddFirstRefines DEF Abstract!Next
<1>3. CASE AddLink
  BY <1>3, AddLinkRefines DEF Abstract!Next
<1>4. CASE Unlink
  BY <1>4, UnlinkRefines DEF Abstract!Next
<1>5. ASSUME NEW n \in Node, AddBegin(n) PROVE UNCHANGED AsList
  BY <1>5, WalkingStutters DEF AddBegin
<1>6. CASE AddWalk \/ FindBegin \/ FindWalk \/ NotFound \/ DelBegin \/ DelWalk
  BY <1>6, WalkingStutters DEF AddWalk, FindBegin, FindWalk, NotFound, DelBegin, DelWalk
<1> QED BY <1>1, <1>2, <1>3, <1>4, <1>5, <1>6 DEF Next, Step

\* The pointer code of the _add and _del functions implements the list value:
\* every step of it adds at the end, removes the one node that was found, or
\* leaves the list as it was.
THEOREM PointersImplementTheList == Spec => ImplementsListSpec
<1>1. Init => Abstract!Init
  BY InitRefines
<1>2. IInv /\ IInv' /\ [Next]_vars => [Abstract!Next]_AsList
  BY NextRefines
<1>3. Spec => []IInv
  BY ListInvariant
<1> QED BY <1>1, <1>2, <1>3, PTL DEF Spec, ImplementsListSpec, Abstract!Spec
=============================================================================
