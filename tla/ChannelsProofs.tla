--------------------------- MODULE ChannelsProofs ---------------------------
(***************************************************************************)
(* The bot's view of the channels of a network, for any number of          *)
(* channels, users, bans and records, and any number of missed events.     *)
(***************************************************************************)
EXTENDS ChannelQueries, CursorListProofs, FiniteSetTheorems

\* A list that shows exactly the users S with the operators O, each once.
Exact(l, S, O) ==
    /\ NicksIn(l) = S
    /\ OpsIn(l) = O
    /\ NoTwo(l, LAMBDA x, y : x.nick = y.nick)

\* One that shows some of the bans B, each at most once.
RealBans(l, B) ==
    /\ Members(l) \subseteq B
    /\ NoTwo(l, LAMBDA x, y : x = y)

JustBot == [items |-> <<NewUser(Bot, FALSE)>>, head |-> 1]

Blank(r) == r.users = EmptyList /\ r.bans = EmptyList

\* A record of c that stands for the channel the bot is in, now.
InUse(c, k) == Bot \in on[c] /\ k = ChanAt(c)

\* What holds of one channel.  The checked properties speak of a channel whose names
\* have come; until then its record must be as new_join has left it, and the records that
\* are not in use must be as new_channel() made them, for the bot may use them later.
ViewOf(c) ==
    /\ op[c] \subseteq on[c]
    /\ due = c => Bot \in on[c]
    /\ c \notin missed /\ Settled(c) => on[c] \subseteq NicksIn(UsersOf(c))
    /\ c \notin missed /\ Bot \in on[c] /\ ~(due = c /\ untold) /\ ChanAt(c) # 0 /\ topic[c] # None
          => chans[ChanAt(c)].topic = topic[c]
    /\ c \notin astray =>
          /\ Settled(c) => Exact(UsersOf(c), on[c], op[c]) /\ RealBans(BansOf(c), banned[c])
          /\ due = c /\ ChanAt(c) # 0 => UsersOf(c) = JustBot /\ BansOf(c) = EmptyList
          /\ \A k \in DOMAIN chans : chans[k].name = c /\ ~InUse(c, k) => Blank(chans[k])

\* A record that has lost its name was not in use.
NamelessAreBlank ==
    astray = {} => \A k \in DOMAIN chans : chans[k].name = None => Blank(chans[k])

IInv == TypeOK /\ NamelessAreBlank /\ \A c \in Chan : ViewOf(c)
-----------------------------------------------------------------------------
\* Walks and lists.

\* A walk stops at the first position it looks for, or finds none.
LEMMA FirstFromProperties ==
    ASSUME NEW h \in Nat, NEW I \in SUBSET (Nat \ {0})
    PROVE  \/ FirstFrom(h, I) = 0 /\ \A i \in I : ~(h <= i)
           \/ FirstFrom(h, I) \in I /\ h <= FirstFrom(h, I) /\ \A i \in I : h <= i => FirstFrom(h, I) <= i
<1> DEFINE J == {i \in I : h <= i}
<1>1. CASE J = {}
  BY <1>1 DEF FirstFrom
<1>2. CASE J # {}
  <2>1. J \in SUBSET Nat
    OBVIOUS
  <2>2. PICK x \in J : \A y \in J : x <= y
    <3> HIDE DEF J
    <3> QED BY <1>2, <2>1, LeastNat
  <2>3. x \in I /\ h <= x /\ \A j \in I : h <= j => x <= j
    BY <2>2
  <2>4. FirstFrom(h, I) = CHOOSE i \in I : h <= i /\ \A j \in I : h <= j => i <= j
    BY <2>3 DEF FirstFrom
  <2> QED BY <2>3, <2>4
<1> QED BY <1>1, <1>2

\* The kept pointer of a list that is not empty points to a node.
Chained(l, S) == l \in ListOf(S) /\ PointsInto(l)

LEMMA ChainedBasics ==
    ASSUME NEW S, NEW l, Chained(l, S)
    PROVE  /\ l.items \in Seq(S) /\ Len(l.items) \in Nat /\ l.head \in 0..Len(l.items)
           /\ DOMAIN l.items = 1..Len(l.items)
           /\ \A i \in DOMAIN l.items : l.items[i] \in S
           /\ l.head \in Nat
           /\ l = [items |-> l.items, head |-> l.head]
BY ElementOfSeq DEF Chained, ListOf, PointsInto

LEMMA EmptyIsChained ==
    ASSUME NEW S
    PROVE  Chained(EmptyList, S) /\ EmptyList.items = << >> /\ DOMAIN EmptyList.items = {}
BY EmptySeq DEF Chained, ListOf, PointsInto, EmptyList

\* dcc_list_add and its like, on the elements of the list.
LEMMA AddElements ==
    ASSUME NEW S, NEW l, Chained(l, S), NEW x \in S
    PROVE  /\ Chained(ListAdd(l, x), S)
           /\ Len(ListAdd(l, x).items) = Len(l.items) + 1
           /\ DOMAIN ListAdd(l, x).items = DOMAIN l.items \cup {Len(l.items) + 1}
           /\ Len(l.items) + 1 \notin DOMAIN l.items
           /\ \A i \in DOMAIN l.items : ListAdd(l, x).items[i] = l.items[i]
           /\ ListAdd(l, x).items[Len(l.items) + 1] = x
<1> DEFINE m == ListAdd(l, x)
           n == Len(l.items)
<1>1. l.items \in Seq(S) /\ n \in Nat /\ l.head \in 0..n /\ DOMAIN l.items = 1..n
  BY ChainedBasics
<1>2. /\ m.items = Append(l.items, x)
      /\ m.head = IF l.head = 0 THEN 1 ELSE l.head
      /\ m = [items |-> m.items, head |-> m.head]
  BY DEF ListAdd
<1>3. /\ m.items \in Seq(S) /\ Len(m.items) = n + 1
      /\ \A i \in 1..n : m.items[i] = l.items[i]
      /\ m.items[n + 1] = x
  BY <1>1, <1>2, AppendProperties
<1> HIDE DEF m, n
<1>4. DOMAIN m.items = 1..(n + 1)
  BY <1>1, <1>3
<1>5. m.head \in 1..(n + 1) /\ m.items # << >>
  BY <1>1, <1>2, <1>3, EmptySeq
<1>6. Chained(m, S)
  <2>0. m.items \in Seq(S) /\ m.head \in Nat
    BY <1>1, <1>3, <1>5
  <2>1. m \in ListOf(S)
    BY <1>2, <2>0 DEF ListOf
  <2> QED BY <1>1, <1>3, <1>5, <2>1 DEF Chained, PointsInto
<1> QED BY <1>1, <1>3, <1>4, <1>6 DEF m, n

\* The removal of a node: each that remains was there, and each other one remains.
LEMMA RemoveElements ==
    ASSUME NEW S, NEW l, Chained(l, S), NEW k \in DOMAIN l.items
    PROVE  /\ Chained(RemoveNode(l, k), S)
           /\ Len(RemoveNode(l, k).items) = Len(l.items) - 1
           /\ \E old \in [DOMAIN RemoveNode(l, k).items -> DOMAIN l.items \ {k}] :
                /\ \A i \in DOMAIN RemoveNode(l, k).items : RemoveNode(l, k).items[i] = l.items[old[i]]
                /\ \A i, j \in DOMAIN RemoveNode(l, k).items : old[i] = old[j] => i = j
                /\ \A j \in DOMAIN l.items \ {k} : \E i \in DOMAIN RemoveNode(l, k).items : old[i] = j
<1> DEFINE m == RemoveNode(l, k)
           n == Len(l.items)
<1>1. l.items \in Seq(S) /\ n \in Nat /\ l.head \in 0..n /\ DOMAIN l.items = 1..n
  BY ChainedBasics
<1>2. /\ m.items = RemoveAt(l.items, k)
      /\ m.head = IF k > 1 THEN k - 1 ELSE IF n > 1 THEN 1 ELSE 0
      /\ m = [items |-> m.items, head |-> m.head]
  BY DEF RemoveNode
<1>3. /\ m.items \in Seq(S) /\ Len(m.items) = n - 1
      /\ \A j \in 1..(n - 1) : m.items[j] = IF j < k THEN l.items[j] ELSE l.items[j + 1]
  BY SMTT(30), <1>1, <1>2, RemoveAtElements
<1> HIDE DEF m, n
<1>4. DOMAIN m.items = 1..(n - 1)
  BY <1>1, <1>3
<1>5. m.head \in 0..(n - 1) /\ (m.head = 0 <=> n = 1) /\ (m.items = << >> <=> n = 1)
  BY <1>1, <1>2, <1>3, EmptySeq
<1>6. Chained(m, S)
  <2>0. m.items \in Seq(S) /\ m.head \in Nat
    BY <1>1, <1>3, <1>5
  <2>1. m \in ListOf(S)
    BY <1>2, <2>0 DEF ListOf
  <2> QED BY <1>1, <1>3, <1>5, <2>1 DEF Chained, PointsInto
<1> DEFINE old == [i \in DOMAIN m.items |-> IF i < k THEN i ELSE i + 1]
<1>7. old \in [DOMAIN m.items -> DOMAIN l.items \ {k}]
  BY <1>1, <1>4
<1>8. \A i \in DOMAIN m.items : m.items[i] = l.items[old[i]]
  BY <1>1, <1>3, <1>4
<1>9. \A i, j \in DOMAIN m.items : old[i] = old[j] => i = j
  BY <1>1, <1>4
<1>10. ASSUME NEW j \in DOMAIN l.items \ {k} PROVE \E i \in DOMAIN m.items : old[i] = j
  <2>1. CASE j < k
    <3>1. j \in DOMAIN m.items /\ old[j] = j
      BY <1>1, <1>4, <2>1
    <3> QED BY <3>1
  <2>2. CASE j > k
    <3>1. j - 1 \in DOMAIN m.items /\ old[j - 1] = j
      BY <1>1, <1>4, <2>2
    <3> QED BY <3>1
  <2> QED BY <1>1, <2>1, <2>2
<1> HIDE DEF old
<1> QED BY <1>3, <1>6, <1>7, <1>8, <1>9, <1>10 DEF m, n

-----------------------------------------------------------------------------
\* Lists of users.

\* What a search for a nick finds.
LEMMA UserAtProperties ==
    ASSUME NEW l, Chained(l, User), NEW n
    PROVE  \/ UserAt(l, n) = 0 /\ \A i \in DOMAIN l.items : l.items[i].nick = n => ~(l.head <= i)
           \/ UserAt(l, n) \in DOMAIN l.items /\ l.items[UserAt(l, n)].nick = n
<1> DEFINE I == {i \in DOMAIN l.items : l.items[i].nick = n}
<1>1. l.head \in Nat /\ DOMAIN l.items = 1..Len(l.items) /\ Len(l.items) \in Nat
  BY ChainedBasics
<1>2. I \in SUBSET (Nat \ {0})
  BY <1>1
<1>3. \/ FirstFrom(l.head, I) = 0 /\ \A i \in I : ~(l.head <= i)
      \/ FirstFrom(l.head, I) \in I
  <2> HIDE DEF I
  <2> QED BY <1>1, <1>2, FirstFromProperties
<1> QED BY <1>3 DEF UserAt

\* The record found for a nick is not NULL only if the nick is in the list.
LEMMA UserAtOfStranger ==
    ASSUME NEW l, Chained(l, User), NEW n, n \notin NicksIn(l)
    PROVE  UserAt(l, n) = 0
BY UserAtProperties DEF NicksIn

LEMMA NodesOfUsers ==
    ASSUME NEW l, Chained(l, User), NEW i \in DOMAIN l.items
    PROVE  l.items[i] \in User /\ l.items[i].nick \in Nick /\ l.items[i].op \in BOOLEAN
<1>1. l.items[i] \in User
  BY ChainedBasics
<1> QED BY <1>1 DEF User

\* new_join and troll_parse_who append a user without modes.
LEMMA UserAdded ==
    ASSUME NEW l, Chained(l, User), NEW u \in User
    PROVE  /\ Chained(ListAdd(l, u), User)
           /\ NicksIn(ListAdd(l, u)) = NicksIn(l) \cup {u.nick}
           /\ \A S, O : Exact(l, S, O) /\ u.nick \notin S /\ ~u.op
                          => Exact(ListAdd(l, u), S \cup {u.nick}, O)
<1> DEFINE m == ListAdd(l, u)
           n == Len(l.items) + 1
<1>1. /\ Chained(m, User)
      /\ DOMAIN m.items = DOMAIN l.items \cup {n} /\ n \notin DOMAIN l.items
      /\ \A i \in DOMAIN l.items : m.items[i] = l.items[i]
      /\ m.items[n] = u
  BY AddElements
<1> HIDE DEF m, n
<1>2. NicksIn(m) = NicksIn(l) \cup {u.nick}
  BY <1>1 DEF NicksIn
<1>3. ASSUME NEW S, NEW O, Exact(l, S, O), u.nick \notin S, ~u.op
      PROVE  Exact(m, S \cup {u.nick}, O)
  <2>1. OpsIn(m) = OpsIn(l)
    BY <1>1, <1>3 DEF OpsIn
  <2>2. \A i \in DOMAIN l.items : l.items[i].nick # u.nick
    BY <1>3 DEF Exact, NicksIn
  <2>3. \A i, j \in DOMAIN m.items : m.items[i].nick = m.items[j].nick => i = j
    BY <1>1, <1>3, <2>2 DEF Exact, NoTwo
  <2> QED BY <1>2, <1>3, <2>1, <2>3 DEF Exact, NoTwo
<1> QED BY <1>1, <1>2, <1>3 DEF m

\* new_part and new_kick: other nodes of the nick, if there are any, remain.
LEMMA UserRemoved ==
    ASSUME NEW l, Chained(l, User), NEW k \in DOMAIN l.items
    PROVE  /\ Chained(RemoveNode(l, k), User)
           /\ NicksIn(l) \ {l.items[k].nick} \subseteq NicksIn(RemoveNode(l, k))
           /\ \A S, O : Exact(l, S, O)
                          => Exact(RemoveNode(l, k), S \ {l.items[k].nick}, O \ {l.items[k].nick})
<1> DEFINE m == RemoveNode(l, k)
           n == l.items[k].nick
<1>1. Chained(m, User)
  BY RemoveElements
<1>2. PICK old \in [DOMAIN m.items -> DOMAIN l.items \ {k}] :
        /\ \A i \in DOMAIN m.items : m.items[i] = l.items[old[i]]
        /\ \A i, j \in DOMAIN m.items : old[i] = old[j] => i = j
        /\ \A j \in DOMAIN l.items \ {k} : \E i \in DOMAIN m.items : old[i] = j
  BY RemoveElements
<1> HIDE DEF m
<1>3. NicksIn(l) \ {n} \subseteq NicksIn(m)
  BY <1>2 DEF NicksIn
<1>4. ASSUME NEW S, NEW O, Exact(l, S, O)
      PROVE  Exact(m, S \ {n}, O \ {n})
  <2>1. \A j \in DOMAIN l.items \ {k} : l.items[j].nick # n
    BY <1>4 DEF Exact, NoTwo
  <2>2. NicksIn(m) = NicksIn(l) \ {n}
    <3>1. ASSUME NEW x \in NicksIn(m) PROVE x \in NicksIn(l) \ {n}
      <4>1. PICK i \in DOMAIN m.items : x = m.items[i].nick
        BY DEF NicksIn
      <4>2. old[i] \in DOMAIN l.items \ {k} /\ x = l.items[old[i]].nick
        BY <1>2, <4>1
      <4> QED BY <2>1, <4>2 DEF NicksIn
    <3> QED BY <1>3, <3>1
  <2>3. OpsIn(m) = OpsIn(l) \ {n}
    <3>1. ASSUME NEW x \in OpsIn(m) PROVE x \in OpsIn(l) \ {n}
      <4>1. PICK i \in DOMAIN m.items : x = m.items[i].nick /\ m.items[i].op
        BY DEF OpsIn
      <4>2. old[i] \in DOMAIN l.items \ {k} /\ x = l.items[old[i]].nick /\ l.items[old[i]].op
        BY <1>2, <4>1
      <4> QED BY <2>1, <4>2 DEF OpsIn
    <3>2. ASSUME NEW x \in OpsIn(l) \ {n} PROVE x \in OpsIn(m)
      <4>1. PICK j \in DOMAIN l.items : x = l.items[j].nick /\ l.items[j].op
        BY DEF OpsIn
      <4>2. j # k
        BY <3>2, <4>1
      <4>3. PICK i \in DOMAIN m.items : old[i] = j
        BY <1>2, <4>2
      <4> QED BY <1>2, <4>1, <4>3 DEF OpsIn
    <3> QED BY <3>1, <3>2
  <2>4. \A i, j \in DOMAIN m.items : m.items[i].nick = m.items[j].nick => i = j
    BY <1>2, <1>4 DEF Exact, NoTwo
  <2> QED BY <1>4, <2>2, <2>3, <2>4 DEF Exact, NoTwo
<1> QED BY <1>1, <1>3, <1>4 DEF m

\* A node whose nick or modes are written.
LEMMA NodeReplaced ==
    ASSUME NEW l, Chained(l, User), NEW k \in DOMAIN l.items, NEW u \in User,
           NEW m, m = [l EXCEPT !.items = [l.items EXCEPT ![k] = u]]
    PROVE  /\ Chained(m, User)
           /\ DOMAIN m.items = DOMAIN l.items
           /\ \A i \in DOMAIN l.items : m.items[i] = IF i = k THEN u ELSE l.items[i]
<1>1. /\ l.items \in Seq(User) /\ l = [items |-> l.items, head |-> l.head]
      /\ Len(l.items) \in Nat /\ DOMAIN l.items = 1..Len(l.items)
      /\ l.head \in Nat /\ l.head \in 0..Len(l.items)
  BY ChainedBasics
<1>2. /\ m.items = [l.items EXCEPT ![k] = u] /\ m.head = l.head
      /\ m = [items |-> m.items, head |-> m.head]
  BY <1>1
<1>3. m.items \in Seq(User) /\ Len(m.items) = Len(l.items)
  BY <1>1, <1>2, ExceptSeq
<1>4. m.items = << >> <=> l.items = << >>
  BY <1>1, <1>3, EmptySeq
<1>5. m \in ListOf(User)
  BY <1>1, <1>2, <1>3 DEF ListOf
<1>6. Chained(m, User)
  BY <1>1, <1>2, <1>3, <1>4, <1>5 DEF Chained, PointsInto
<1> QED BY <1>1, <1>2, <1>6

\* troll_trig_update_nick, in one record.
LEMMA UserRenamed ==
    ASSUME NEW l, Chained(l, User), NEW n \in Nick, NEW m \in Nick
    PROVE  /\ Chained(RenamedIn(l, n, m), User)
           /\ NicksIn(l) \ {n} \subseteq NicksIn(RenamedIn(l, n, m))
           /\ UserAt(l, n) # 0 => m \in NicksIn(RenamedIn(l, n, m))
           /\ n \notin NicksIn(l) => RenamedIn(l, n, m) = l
           /\ \A S, O : Exact(l, S, O) /\ m \notin S /\ O \subseteq S /\ (n \in S => UserAt(l, n) # 0)
                          => Exact(RenamedIn(l, n, m), Renamed(S, n, m), Renamed(O, n, m))
<1> DEFINE k == UserAt(l, n)
<1>1. n \notin NicksIn(l) => k = 0
  BY UserAtOfStranger
<1>2. CASE k = 0
  <2>1. RenamedIn(l, n, m) = l
    BY <1>2 DEF RenamedIn
  <2>2. ASSUME NEW S, NEW O, Exact(l, S, O), O \subseteq S, n \notin S
        PROVE  Exact(l, Renamed(S, n, m), Renamed(O, n, m))
    BY <2>2 DEF Renamed
  <2> QED BY <1>2, <2>1, <2>2
<1>3. CASE k # 0
  <2> DEFINE r == RenamedIn(l, n, m)
             u == [l.items[k] EXCEPT !.nick = m]
  <2>1. k \in DOMAIN l.items /\ l.items[k].nick = n
    BY <1>3, UserAtProperties
  <2>2. l.items[k] \in User
    BY <2>1, NodesOfUsers
  <2>3. u \in User /\ u.nick = m /\ u.op = l.items[k].op
    BY <2>2 DEF User
  <2>4. r = [l EXCEPT !.items = [l.items EXCEPT ![k] = u]]
    BY <1>3 DEF RenamedIn
  <2> HIDE DEF r, u, k
  <2>5. /\ Chained(r, User) /\ DOMAIN r.items = DOMAIN l.items
        /\ \A i \in DOMAIN l.items : r.items[i] = IF i = k THEN u ELSE l.items[i]
    BY <2>1, <2>3, <2>4, NodeReplaced
  <2>6. NicksIn(l) \ {n} \subseteq NicksIn(r) /\ m \in NicksIn(r)
    BY <2>1, <2>3, <2>5 DEF NicksIn
  <2>7. ASSUME NEW S, NEW O, Exact(l, S, O), m \notin S, O \subseteq S
        PROVE  Exact(r, Renamed(S, n, m), Renamed(O, n, m))
    <3>1. \A i \in DOMAIN l.items : l.items[i].nick = n <=> i = k
      BY <2>1, <2>7 DEF Exact, NoTwo
    <3>2. n \in S /\ \A i \in DOMAIN l.items : l.items[i].nick # m
      BY <2>1, <2>7 DEF Exact, NicksIn
    <3>3. NicksIn(r) = (NicksIn(l) \ {n}) \cup {m}
      BY <2>1, <2>3, <2>5, <3>1 DEF NicksIn
    <3>4. OpsIn(r) = IF n \in OpsIn(l) THEN (OpsIn(l) \ {n}) \cup {m} ELSE OpsIn(l)
      <4>1. n \in OpsIn(l) <=> l.items[k].op
        BY <2>1, <3>1 DEF OpsIn
      <4>2. ASSUME NEW x PROVE x \in OpsIn(r) <=> (x \in OpsIn(l) /\ x # n) \/ (x = m /\ l.items[k].op)
        BY <2>1, <2>3, <2>5, <3>1 DEF OpsIn
      <4> QED BY <4>1, <4>2
    <3>5. \A i, j \in DOMAIN r.items : r.items[i].nick = r.items[j].nick => i = j
      BY <2>3, <2>5, <2>7, <3>2 DEF Exact, NoTwo
    <3>6. NicksIn(r) = Renamed(S, n, m) /\ OpsIn(r) = Renamed(O, n, m)
      BY <2>7, <3>2, <3>3, <3>4 DEF Exact, Renamed
    <3> QED BY <3>5, <3>6 DEF Exact, NoTwo
  <2>8. n \in NicksIn(l)
    BY <2>1 DEF NicksIn
  <2> QED BY <2>5, <2>6, <2>7, <2>8 DEF r
<1> QED BY <1>2, <1>3

\* troll_trig_update_mode, for the node it has found.
LEMMA ModeWritten ==
    ASSUME NEW l, Chained(l, User), NEW k \in DOMAIN l.items, NEW b \in BOOLEAN
    PROVE  LET r == [l EXCEPT !.items[k].op = b]
               n == l.items[k].nick
           IN  /\ Chained(r, User)
               /\ NicksIn(r) = NicksIn(l)
               /\ \A S, O : Exact(l, S, O) => Exact(r, S, IF b THEN O \cup {n} ELSE O \ {n})
<1> DEFINE r == [l EXCEPT !.items[k].op = b]
           n == l.items[k].nick
           u == [l.items[k] EXCEPT !.op = b]
<1>1. l.items[k] \in User
  BY NodesOfUsers
<1>2. u \in User /\ u.nick = n /\ u.op = b
  BY <1>1 DEF User
<1>3. r = [l EXCEPT !.items = [l.items EXCEPT ![k] = u]]
  OBVIOUS
<1> HIDE DEF r, u
<1>4. /\ Chained(r, User) /\ DOMAIN r.items = DOMAIN l.items
      /\ \A i \in DOMAIN l.items : r.items[i] = IF i = k THEN u ELSE l.items[i]
  BY <1>2, <1>3, NodeReplaced
<1>5. NicksIn(r) = NicksIn(l)
  BY <1>2, <1>4 DEF NicksIn
<1>6. ASSUME NEW S, NEW O, Exact(l, S, O)
      PROVE  Exact(r, S, IF b THEN O \cup {n} ELSE O \ {n})
  <2>1. \A i \in DOMAIN l.items : l.items[i].nick = n <=> i = k
    BY <1>6 DEF Exact, NoTwo
  <2>2. ASSUME NEW x PROVE x \in OpsIn(r) <=> (x \in OpsIn(l) /\ x # n) \/ (x = n /\ b)
    BY <1>2, <1>4, <2>1 DEF OpsIn
  <2>3. OpsIn(r) = IF b THEN O \cup {n} ELSE O \ {n}
    BY <1>6, <2>2 DEF Exact
  <2>4. \A i, j \in DOMAIN r.items : r.items[i].nick = r.items[j].nick => i = j
    BY <1>2, <1>4, <1>6 DEF Exact, NoTwo
  <2> QED BY <1>5, <1>6, <2>3, <2>4 DEF Exact, NoTwo
<1> QED BY <1>4, <1>5, <1>6 DEF r

\* The names of s that get a new node.
NewNames(l, s) == Picked(s, {i \in DOMAIN s : UserAt(l, s[i]) = 0})

LEMMA NewNamesProperties ==
    ASSUME NEW l, NEW s \in Seq(Nick)
    PROVE  /\ NewNames(l, s) \in Seq(Nick)
           /\ ToSet(NewNames(l, s)) = {x \in ToSet(s) : UserAt(l, x) = 0}
           /\ (\A i, j \in DOMAIN s : s[i] = s[j] => i = j) =>
                \A i, j \in DOMAIN NewNames(l, s) : NewNames(l, s)[i] = NewNames(l, s)[j] => i = j
<1> DEFINE I == {i \in DOMAIN s : UserAt(l, s[i]) = 0}
           t == Picked(s, I)
<1>1. /\ t \in Seq(Nick)
      /\ ToSet(t) = {s[i] : i \in I \cap (1..Len(s))}
      /\ (\A i, j \in I \cap (1..Len(s)) : s[i] = s[j] => i = j) =>
           \A i, j \in 1..Len(t) : t[i] = t[j] => i = j
  <2> HIDE DEF I
  <2> QED BY PickedProperties
<1>2. DOMAIN s = 1..Len(s) /\ DOMAIN t = 1..Len(t)
  BY <1>1
<1> HIDE DEF t
<1>3. ToSet(t) = {x \in ToSet(s) : UserAt(l, x) = 0}
  <2>1. \A x \in ToSet(t) : x \in ToSet(s) /\ UserAt(l, x) = 0
    BY <1>1, <1>2 DEF ToSet
  <2>2. ASSUME NEW x \in ToSet(s), UserAt(l, x) = 0 PROVE x \in ToSet(t)
    <3>1. PICK i \in DOMAIN s : x = s[i]
      BY DEF ToSet
    <3>2. i \in I \cap (1..Len(s))
      BY <1>2, <2>2, <3>1
    <3> QED BY <1>1, <3>1, <3>2
  <2> QED BY <2>1, <2>2
<1> QED BY <1>1, <1>2, <1>3 DEF NewNames, t

\* channel_list_populate: the nodes of l with new modes, and nodes for the new names.
LEMMA ListedElements ==
    ASSUME NEW l, Chained(l, User), NEW s \in Seq(Nick), s # << >>, NEW O,
           NEW r, r = Listed(l, s, O), NEW new, new = NewNames(l, s)
    PROVE  /\ Chained(r, User)
           /\ \A i \in DOMAIN l.items :
                /\ i \in DOMAIN r.items
                /\ r.items[i].nick = l.items[i].nick
                /\ i = UserAt(l, l.items[i].nick) /\ l.items[i].nick \in ToSet(s)
                     => (r.items[i].op <=> l.items[i].nick \in O)
           /\ \A i \in DOMAIN new :
                /\ Len(l.items) + i \in DOMAIN r.items
                /\ r.items[Len(l.items) + i].nick = new[i]
                /\ r.items[Len(l.items) + i].op <=> new[i] \in O
           /\ \A j \in DOMAIN r.items :
                j \in DOMAIN l.items \/ \E i \in DOMAIN new : j = Len(l.items) + i
<1> DEFINE mode(i) == IF i = UserAt(l, l.items[i].nick) /\ l.items[i].nick \in ToSet(s)
                      THEN [l.items[i] EXCEPT !.op = l.items[i].nick \in O]
                      ELSE l.items[i]
           old == [i \in DOMAIN l.items |-> mode(i)]
           fresh == [i \in DOMAIN new |-> NewUser(new[i], new[i] \in O)]
<1>1. /\ Len(l.items) \in Nat /\ DOMAIN l.items = 1..Len(l.items)
      /\ l.head \in Nat /\ l.head \in 0..Len(l.items)
  BY ChainedBasics
<1>2. new \in Seq(Nick) /\ ToSet(new) = {x \in ToSet(s) : UserAt(l, x) = 0}
  BY NewNamesProperties
<1>3. /\ r.items = old \o fresh
      /\ r.head = IF l.head = 0 THEN 1 ELSE l.head
      /\ r = [items |-> r.items, head |-> r.head]
  BY DEF Listed, NewNames
<1>4. \A i \in DOMAIN l.items : mode(i) \in User
  <2> SUFFICES ASSUME NEW i \in DOMAIN l.items PROVE mode(i) \in User
    OBVIOUS
  <2>1. l.items[i] \in User
    BY NodesOfUsers
  <2>2. \A b \in BOOLEAN : [l.items[i] EXCEPT !.op = b] \in User
    BY <2>1 DEF User
  <2> DEFINE isop == l.items[i].nick \in O
  <2>3. isop \in BOOLEAN
    OBVIOUS
  <2> HIDE DEF isop
  <2>4. [l.items[i] EXCEPT !.op = isop] \in User
    BY <2>2, <2>3
  <2> QED BY <2>1, <2>4 DEF isop
<1> HIDE DEF mode
<1>5. old \in Seq(User) /\ Len(old) = Len(l.items)
  BY <1>1, <1>4
<1>6. Len(new) \in Nat /\ DOMAIN new = 1..Len(new) /\ \A i \in DOMAIN new : new[i] \in Nick
  BY <1>2, ElementOfSeq
<1>7. \A i \in DOMAIN new : NewUser(new[i], new[i] \in O) \in User
  BY <1>6 DEF NewUser, User
<1>8. fresh \in Seq(User) /\ Len(fresh) = Len(new)
  BY <1>6, <1>7
<1>9. /\ \A i \in 1..Len(l.items) : old[i] = mode(i)
      /\ \A i \in 1..Len(new) : fresh[i] = NewUser(new[i], new[i] \in O)
  BY <1>1, <1>6
<1> HIDE DEF old, fresh
<1>10. /\ r.items \in Seq(User) /\ Len(r.items) = Len(l.items) + Len(new)
       /\ \A i \in 1..(Len(old) + Len(fresh)) :
            r.items[i] = IF i <= Len(old) THEN old[i] ELSE fresh[i - Len(old)]
  <2>1. /\ old \o fresh \in Seq(User) /\ Len(old \o fresh) = Len(old) + Len(fresh)
        /\ \A i \in 1..(Len(old) + Len(fresh)) :
             (old \o fresh)[i] = IF i <= Len(old) THEN old[i] ELSE fresh[i - Len(old)]
    BY <1>5, <1>8, ConcatProperties
  <2> QED BY <1>3, <1>5, <1>8, <2>1
<1>11. \A i \in 1..Len(l.items) : r.items[i] = mode(i)
  <2> SUFFICES ASSUME NEW i \in 1..Len(l.items) PROVE r.items[i] = old[i]
    BY <1>9
  <2>1. i \in 1..(Len(old) + Len(fresh)) /\ i <= Len(old)
    BY <1>1, <1>5, <1>6, <1>8
  <2> QED BY <1>10, <2>1
<1>12. \A i \in 1..Len(new) : r.items[Len(l.items) + i] = NewUser(new[i], new[i] \in O)
  <2> SUFFICES ASSUME NEW i \in 1..Len(new)
               PROVE  r.items[Len(l.items) + i] = fresh[i]
    BY <1>9
  <2>1. /\ Len(l.items) + i \in 1..(Len(old) + Len(fresh)) /\ ~(Len(l.items) + i <= Len(old))
        /\ Len(l.items) + i - Len(old) = i
    BY <1>1, <1>5, <1>6, <1>8
  <2> QED BY <1>10, <2>1
<1>13. r.items # << >>
  <2>1. CASE l.items # << >>
    BY <1>1, <1>6, <1>10, <2>1, EmptySeq, ChainedBasics
  <2>2. CASE l.items = << >>
    <3>1. UserAt(l, s[1]) = 0
      BY <1>1, <2>2, UserAtProperties
    <3>2. s[1] \in ToSet(s)
      BY EmptySeq DEF ToSet
    <3>3. s[1] \in ToSet(new)
      BY <1>2, <3>1, <3>2
    <3>4. Len(new) # 0
      BY <1>6, <3>3 DEF ToSet
    <3> QED BY <1>1, <1>6, <1>10, <3>4, EmptySeq
  <2> QED BY <2>1, <2>2
<1>14. r.head \in 1..Len(r.items)
  <2>1. Len(r.items) # 0
    BY <1>10, <1>13, EmptySeq
  <2> QED BY <1>1, <1>3, <1>6, <1>10, <2>1
<1>15. Chained(r, User)
  <2>1. r.items \in Seq(User) /\ r.head \in Nat
    BY <1>10, <1>14
  <2>2. r \in ListOf(User)
    BY <1>3, <2>1 DEF ListOf
  <2> QED BY <1>13, <1>14, <2>2 DEF Chained, PointsInto
<1>16. DOMAIN r.items = 1..(Len(l.items) + Len(new))
  BY <1>10
<1>17. ASSUME NEW i \in DOMAIN l.items
       PROVE  /\ i \in DOMAIN r.items
              /\ r.items[i].nick = l.items[i].nick
              /\ i = UserAt(l, l.items[i].nick) /\ l.items[i].nick \in ToSet(s)
                   => (r.items[i].op <=> l.items[i].nick \in O)
  <2>1. i \in DOMAIN r.items
    BY <1>1, <1>6, <1>16
  <2>2. l.items[i] \in User /\ r.items[i] = mode(i)
    BY <1>1, <1>11, NodesOfUsers
  <2>3. \A b : [l.items[i] EXCEPT !.op = b].nick = l.items[i].nick /\ [l.items[i] EXCEPT !.op = b].op = b
    BY <2>2 DEF User
  <2> QED BY <2>1, <2>2, <2>3 DEF mode
<1>18. ASSUME NEW i \in DOMAIN new
       PROVE  /\ Len(l.items) + i \in DOMAIN r.items
              /\ r.items[Len(l.items) + i].nick = new[i]
              /\ r.items[Len(l.items) + i].op <=> new[i] \in O
  <2>1. Len(l.items) + i \in DOMAIN r.items
    BY <1>1, <1>6, <1>16
  <2>2. r.items[Len(l.items) + i] = NewUser(new[i], new[i] \in O)
    BY <1>6, <1>12
  <2>3. \A x, b : NewUser(x, b).nick = x /\ NewUser(x, b).op = b
    BY DEF NewUser
  <2>4. r.items[Len(l.items) + i].nick = new[i]
    BY <2>2, <2>3
  <2>5. r.items[Len(l.items) + i].op = (new[i] \in O)
    BY <2>2, <2>3
  <2> QED BY <2>1, <2>4, <2>5
<1>19. ASSUME NEW j \in DOMAIN r.items
       PROVE  j \in DOMAIN l.items \/ \E i \in DOMAIN new : j = Len(l.items) + i
  <2>1. CASE j <= Len(l.items)
    BY <1>1, <1>6, <1>16, <2>1
  <2>2. CASE ~(j <= Len(l.items))
    <3>1. j - Len(l.items) \in DOMAIN new /\ j = Len(l.items) + (j - Len(l.items))
      BY <1>1, <1>6, <1>16, <2>2
    <3> QED BY <3>1
  <2> QED BY <2>1, <2>2
<1> QED BY <1>15, <1>17, <1>18, <1>19

\* Everyone the server names has a node then, and nobody loses one.
LEMMA NamesListed ==
    ASSUME NEW l, Chained(l, User), NEW s \in Seq(Nick), s # << >>, NEW O
    PROVE  /\ Chained(Listed(l, s, O), User)
           /\ NicksIn(l) \cup ToSet(s) \subseteq NicksIn(Listed(l, s, O))
<1> DEFINE r == Listed(l, s, O)
           new == NewNames(l, s)
<1>1. ToSet(new) = {x \in ToSet(s) : UserAt(l, x) = 0}
  BY NewNamesProperties
<1>2. /\ Chained(r, User)
      /\ \A i \in DOMAIN l.items : i \in DOMAIN r.items /\ r.items[i].nick = l.items[i].nick
      /\ \A i \in DOMAIN new : /\ Len(l.items) + i \in DOMAIN r.items
                               /\ r.items[Len(l.items) + i].nick = new[i]
  BY ListedElements
<1> HIDE DEF r, new
<1>3. NicksIn(l) \subseteq NicksIn(r)
  BY <1>2 DEF NicksIn
<1>4. ASSUME NEW x \in ToSet(s) PROVE x \in NicksIn(r)
  <2>1. CASE UserAt(l, x) # 0
    BY <1>3, <2>1, UserAtProperties DEF NicksIn
  <2>2. CASE UserAt(l, x) = 0
    <3>1. PICK k \in DOMAIN new : x = new[k]
      BY <1>1, <2>2 DEF ToSet
    <3> QED BY <1>2, <3>1 DEF NicksIn
  <2> QED BY <2>1, <2>2
<1> QED BY <1>2, <1>3, <1>4 DEF r

\* After a JOIN the view becomes exact: the bot has its node, the others are appended.
LEMMA NamesListedFirst ==
    ASSUME NEW s \in Seq(Nick), NEW O \in SUBSET ToSet(s), Bot \in ToSet(s),
           \A i, j \in DOMAIN s : s[i] = s[j] => i = j,
           NEW l, l = JustBot, Chained(l, User)
    PROVE  Exact(Listed(l, s, O), ToSet(s), O)
<1> DEFINE r == Listed(l, s, O)
           new == NewNames(l, s)
<1>0. Len(l.items) = 1 /\ DOMAIN l.items = {1} /\ l.head = 1 /\ l.items[1].nick = Bot
  BY DEF JustBot, NewUser
<1>1. UserAt(l, Bot) = 1
  BY <1>0, UserAtProperties
<1>2. \A n : n # Bot => UserAt(l, n) = 0
  <2> SUFFICES ASSUME NEW n, n # Bot PROVE UserAt(l, n) = 0
    OBVIOUS
  <2>1. \A i \in DOMAIN l.items : l.items[i].nick # n
    BY <1>0
  <2> QED BY <2>1, UserAtProperties
<1>3. /\ ToSet(new) = {x \in ToSet(s) : UserAt(l, x) = 0}
      /\ \A i, j \in DOMAIN new : new[i] = new[j] => i = j
      /\ DOMAIN new = 1..Len(new) /\ Len(new) \in Nat
  BY NewNamesProperties
<1>4. s # << >>
  BY EmptySeq DEF ToSet
<1>5. /\ \A i \in DOMAIN l.items :
           /\ i \in DOMAIN r.items
           /\ r.items[i].nick = l.items[i].nick
           /\ i = UserAt(l, l.items[i].nick) /\ l.items[i].nick \in ToSet(s)
                => (r.items[i].op <=> l.items[i].nick \in O)
      /\ \A i \in DOMAIN new :
           /\ Len(l.items) + i \in DOMAIN r.items
           /\ r.items[Len(l.items) + i].nick = new[i]
           /\ r.items[Len(l.items) + i].op <=> new[i] \in O
      /\ \A j \in DOMAIN r.items :
           j \in DOMAIN l.items \/ \E i \in DOMAIN new : j = Len(l.items) + i
  BY <1>4, ListedElements
<1> HIDE DEF r, new
<1>6. 1 \in DOMAIN r.items /\ r.items[1].nick = Bot /\ (r.items[1].op <=> Bot \in O)
  BY <1>0, <1>1, <1>5
<1>7. \A i \in DOMAIN new : /\ 1 + i \in DOMAIN r.items /\ r.items[1 + i].nick = new[i]
                            /\ r.items[1 + i].op <=> new[i] \in O
  BY <1>0, <1>5
<1>8. \A j \in DOMAIN r.items : j = 1 \/ \E i \in DOMAIN new : j = 1 + i
  BY <1>0, <1>5
<1>9. \A i \in DOMAIN new : new[i] \in ToSet(s) /\ new[i] # Bot
  BY <1>1, <1>3 DEF ToSet
<1>10. \A x \in ToSet(s) \ {Bot} : \E i \in DOMAIN new : x = new[i]
  BY <1>2, <1>3 DEF ToSet
<1>11. NicksIn(r) = ToSet(s)
  <2>1. \A x \in NicksIn(r) : x \in ToSet(s)
    BY <1>6, <1>7, <1>8, <1>9 DEF NicksIn
  <2>2. ASSUME NEW x \in ToSet(s) PROVE \E j \in DOMAIN r.items : x = r.items[j].nick
    BY <1>6, <1>7, <1>10
  <2> QED BY <2>1, <2>2 DEF NicksIn
<1>12. OpsIn(r) = O
  <2>1. \A x \in OpsIn(r) : x \in O
    BY <1>6, <1>7, <1>8 DEF OpsIn
  <2>2. ASSUME NEW x \in O PROVE \E j \in DOMAIN r.items : x = r.items[j].nick /\ r.items[j].op
    BY <1>6, <1>7, <1>10
  <2> QED BY <2>1, <2>2 DEF OpsIn
<1>13. \A i, j \in DOMAIN r.items : r.items[i].nick = r.items[j].nick => i = j
  BY <1>3, <1>6, <1>7, <1>8, <1>9
<1> QED BY <1>11, <1>12, <1>13 DEF Exact, NoTwo, r

-----------------------------------------------------------------------------
\* Lists of bans.

LEMMA BanAtProperties ==
    ASSUME NEW S, NEW l, Chained(l, S), NEW m
    PROVE  BanAt(l, m) = 0 \/ (BanAt(l, m) \in DOMAIN l.items /\ l.items[BanAt(l, m)] = m)
<1> DEFINE I == {i \in DOMAIN l.items : l.items[i] = m}
<1>1. l.head \in Nat /\ DOMAIN l.items = 1..Len(l.items) /\ Len(l.items) \in Nat
  BY ChainedBasics
<1>2. I \in SUBSET (Nat \ {0})
  BY <1>1
<1>3. FirstFrom(l.head, I) = 0 \/ FirstFrom(l.head, I) \in I
  <2> HIDE DEF I
  <2> QED BY <1>1, <1>2, FirstFromProperties
<1> QED BY <1>3 DEF BanAt

\* channel_ban_add
LEMMA BanAdded ==
    ASSUME NEW S, NEW l, Chained(l, S), NEW m \in S
    PROVE  /\ Chained(WithBan(l, m), S)
           /\ \A B : RealBans(l, B) /\ m \notin Members(l) => RealBans(WithBan(l, m), B \cup {m})
<1> DEFINE r == ListAdd(l, m)
           n == Len(l.items) + 1
<1>1. /\ Chained(r, S)
      /\ DOMAIN r.items = DOMAIN l.items \cup {n} /\ n \notin DOMAIN l.items
      /\ \A i \in DOMAIN l.items : r.items[i] = l.items[i]
      /\ r.items[n] = m
  BY AddElements
<1> HIDE DEF r, n
<1>2. ASSUME NEW B, RealBans(l, B), m \notin Members(l)
      PROVE  RealBans(r, B \cup {m})
  <2>1. \A i \in DOMAIN l.items : l.items[i] # m /\ l.items[i] \in B
    BY <1>2 DEF RealBans, Members, ToSet
  <2>2. \A i \in DOMAIN r.items : r.items[i] \in B \cup {m}
    BY <1>1, <2>1
  <2>3. \A i, j \in DOMAIN r.items : r.items[i] = r.items[j] => i = j
    BY <1>1, <1>2, <2>1 DEF RealBans, NoTwo
  <2> QED BY <2>2, <2>3 DEF RealBans, NoTwo, Members, ToSet
<1> QED BY <1>1, <1>2 DEF r, WithBan

\* channel_ban_del
LEMMA BanRemoved ==
    ASSUME NEW S, NEW l, Chained(l, S), NEW k \in DOMAIN l.items
    PROVE  /\ Chained(RemoveNode(l, k), S)
           /\ \A B : RealBans(l, B) => RealBans(RemoveNode(l, k), B \ {l.items[k]})
<1> DEFINE m == RemoveNode(l, k)
<1>1. Chained(m, S)
  BY RemoveElements
<1>2. PICK old \in [DOMAIN m.items -> DOMAIN l.items \ {k}] :
        /\ \A i \in DOMAIN m.items : m.items[i] = l.items[old[i]]
        /\ \A i, j \in DOMAIN m.items : old[i] = old[j] => i = j
  BY RemoveElements
<1> HIDE DEF m
<1>3. ASSUME NEW B, RealBans(l, B)
      PROVE  RealBans(m, B \ {l.items[k]})
  <2>1. \A j \in DOMAIN l.items \ {k} : l.items[j] # l.items[k] /\ l.items[j] \in B
    BY <1>3 DEF RealBans, NoTwo, Members, ToSet
  <2>2. \A i \in DOMAIN m.items : m.items[i] \in B \ {l.items[k]}
    BY <1>2, <2>1
  <2>3. \A i, j \in DOMAIN m.items : m.items[i] = m.items[j] => i = j
    BY <1>2, <1>3 DEF RealBans, NoTwo
  <2> QED BY <2>2, <2>3 DEF RealBans, NoTwo, Members, ToSet
<1> QED BY <1>1, <1>3 DEF m

\* A list without bans names none.
LEMMA NoBansAreReal ==
    ASSUME NEW B
    PROVE  RealBans(EmptyList, B)
BY EmptyIsChained DEF RealBans, NoTwo, Members, ToSet
-----------------------------------------------------------------------------
\* The records.

USE ChannelsAssumption

\* A record as TypeOK has it.
Sound(r) == r \in Record /\ PointsInto(r.users) /\ PointsInto(r.bans)

LEMMA RecordsAreSound ==
    ASSUME TypeOK, NEW k \in DOMAIN chans
    PROVE  /\ Sound(chans[k])
           /\ Chained(chans[k].users, User) /\ Chained(chans[k].bans, Mask \cup {Key})
           /\ chans[k].name \in Chan \cup {None}
           /\ DOMAIN chans = 1..Len(chans) /\ Len(chans) \in Nat
<1>1. chans \in Seq(Record)
  BY DEF TypeOK
<1>2. chans[k] \in Record
  BY <1>1, ElementOfSeq
<1>3. PointsInto(chans[k].users) /\ PointsInto(chans[k].bans)
  BY DEF TypeOK
<1>4. /\ chans[k].users \in ListOf(User) /\ chans[k].bans \in ListOf(Mask \cup {Key})
      /\ chans[k].name \in Chan \cup {None}
  BY <1>2 DEF Record
<1> QED BY <1>1, <1>2, <1>3, <1>4 DEF Sound, Chained

\* The record of c is the first of that name.
LEMMA ChanAtProperties ==
    ASSUME TypeOK, NEW c
    PROVE  \/ ChanAt(c) = 0 /\ \A k \in DOMAIN chans : chans[k].name # c
           \/ ChanAt(c) \in DOMAIN chans /\ chans[ChanAt(c)].name = c
<1> DEFINE I == {k \in DOMAIN chans : chans[k].name = c}
<1>1. DOMAIN chans = 1..Len(chans) /\ Len(chans) \in Nat
  BY DEF TypeOK
<1>2. I \in SUBSET (Nat \ {0})
  BY <1>1
<1>3. \/ FirstFrom(1, I) = 0 /\ \A i \in I : ~(1 <= i)
      \/ FirstFrom(1, I) \in I
  <2> HIDE DEF I
  <2> QED BY <1>2, FirstFromProperties
<1> QED BY <1>1, <1>3 DEF ChanAt

\* The records that a sequence of sound records makes.
LEMMA RecordsTyped ==
    ASSUME NEW n \in Nat, chans' = [k \in 1..n |-> chans'[k]],
           \A k \in 1..n : Sound(chans'[k])
    PROVE  /\ chans' \in Seq(Record) /\ Len(chans') = n
           /\ \A k \in DOMAIN chans' : PointsInto(chans'[k].users) /\ PointsInto(chans'[k].bans)
<1>1. chans' \in [1..n -> Record] /\ DOMAIN chans' = 1..n
  BY DEF Sound
<1>2. chans' \in Seq(Record) /\ Len(chans') = n
  BY <1>1
<1> QED BY <1>1, <1>2 DEF Sound

\* The write of one record keeps the others.
LEMMA RecordWritten ==
    ASSUME TypeOK, NEW k \in DOMAIN chans, NEW r, Sound(r), chans' = [chans EXCEPT ![k] = r]
    PROVE  /\ chans' \in Seq(Record)
           /\ DOMAIN chans' = DOMAIN chans
           /\ \A j \in DOMAIN chans' : PointsInto(chans'[j].users) /\ PointsInto(chans'[j].bans)
           /\ \A j \in DOMAIN chans : chans'[j] = IF j = k THEN r ELSE chans[j]
<1>1. DOMAIN chans = 1..Len(chans) /\ Len(chans) \in Nat
  BY RecordsAreSound
<1>2. /\ DOMAIN chans' = DOMAIN chans
      /\ chans' = [j \in DOMAIN chans |-> chans'[j]]
      /\ \A j \in DOMAIN chans : chans'[j] = IF j = k THEN r ELSE chans[j]
  OBVIOUS
<1>3. \A j \in DOMAIN chans : Sound(chans[j])
  BY RecordsAreSound
<1>4. \A j \in DOMAIN chans : Sound(chans'[j])
  BY <1>2, <1>3
<1> QED BY <1>1, <1>2, <1>4, RecordsTyped

\* No handler that leaves the names alone moves the record of a channel.
LEMMA SameNamesSamePlace ==
    ASSUME NEW c, DOMAIN chans' = DOMAIN chans,
           \A k \in DOMAIN chans : chans'[k].name = c <=> chans[k].name = c
    PROVE  ChanAt(c)' = ChanAt(c)
<1>1. {k \in DOMAIN chans' : chans'[k].name = c} = {k \in DOMAIN chans : chans[k].name = c}
  OBVIOUS
<1> QED BY <1>1 DEF ChanAt

\* What the server and the records say of a channel is as before.
Untouched(c) ==
    /\ on'[c] = on[c] /\ op'[c] = op[c] /\ banned'[c] = banned[c] /\ topic'[c] = topic[c]
    /\ DOMAIN chans' = DOMAIN chans
    /\ \A k \in DOMAIN chans : chans'[k].name = c <=> chans[k].name = c
    /\ \A k \in DOMAIN chans : chans[k].name = c => chans'[k] = chans[k]

\* No part of the view of c changes then, if c is not the channel that is entered.
LEMMA ViewIsKept ==
    ASSUME TypeOK, NEW c \in Chan, ViewOf(c), Untouched(c),
           due' = c <=> due = c, due = c => untold' = untold,
           astray \subseteq astray', missed \subseteq missed'
    PROVE  ViewOf(c)'
<1>1. ChanAt(c)' = ChanAt(c)
  BY SameNamesSamePlace DEF Untouched
<1>2. /\ ChanAt(c) # 0 => chans'[ChanAt(c)] = chans[ChanAt(c)]
      /\ ChanAt(c) # 0 => ChanAt(c) \in DOMAIN chans
  BY ChanAtProperties DEF Untouched
<1>3. Settled(c)' <=> Settled(c)
  BY <1>1 DEF Settled, Untouched
<1>4. Settled(c) => ChanAt(c) # 0
  BY DEF Settled
<1>5. ChanAt(c) # 0 => UsersOf(c)' = UsersOf(c) /\ BansOf(c)' = BansOf(c)
  BY <1>1, <1>2 DEF UsersOf, BansOf
<1>6. \A k \in DOMAIN chans : InUse(c, k)' <=> InUse(c, k)
  BY <1>1 DEF InUse, Untouched
<1>7. /\ op'[c] \subseteq on'[c]
      /\ due' = c => Bot \in on'[c]
  BY DEF ViewOf, Untouched
<1>8. c \notin missed' /\ Settled(c)' => on'[c] \subseteq NicksIn(UsersOf(c)')
  BY <1>3, <1>4, <1>5 DEF ViewOf, Untouched
<1>9. c \notin missed' /\ Bot \in on'[c] /\ ~(due' = c /\ untold') /\ ChanAt(c)' # 0 /\ topic'[c] # None
          => chans'[ChanAt(c)'].topic = topic'[c]
  BY <1>1, <1>2 DEF ViewOf, Untouched
<1>10. ASSUME c \notin astray'
       PROVE  /\ Settled(c)' => Exact(UsersOf(c)', on'[c], op'[c]) /\ RealBans(BansOf(c)', banned'[c])
              /\ due' = c /\ ChanAt(c)' # 0 => UsersOf(c)' = JustBot /\ BansOf(c)' = EmptyList
  BY <1>1, <1>3, <1>4, <1>5, <1>10 DEF ViewOf, Untouched
<1>11. ASSUME c \notin astray', NEW k \in DOMAIN chans', chans'[k].name = c, ~InUse(c, k)'
       PROVE  Blank(chans'[k])
  BY <1>6, <1>11 DEF ViewOf, Untouched
<1> QED BY <1>7, <1>8, <1>9, <1>10, <1>11 DEF ViewOf

\* A channel the bot is in, outside of its JOIN: what an event must leave true.
LEMMA ViewIsUpdated ==
    ASSUME TypeOK, NEW c \in Chan, ViewOf(c), due = None, due' = None, Bot \in on[c], Bot \in on'[c],
           DOMAIN chans' = DOMAIN chans,
           \A k \in DOMAIN chans : chans'[k].name = c <=> chans[k].name = c,
           \A k \in DOMAIN chans : k # ChanAt(c) /\ Blank(chans[k]) => Blank(chans'[k]),
           astray \subseteq astray', op'[c] \subseteq on'[c],
           ChanAt(c) # 0 =>
              /\ c \notin missed' => on'[c] \subseteq NicksIn(chans'[ChanAt(c)].users)
              /\ c \notin missed' /\ topic'[c] # None => chans'[ChanAt(c)].topic = topic'[c]
              /\ c \notin astray' => /\ Exact(chans'[ChanAt(c)].users, on'[c], op'[c])
                                     /\ RealBans(chans'[ChanAt(c)].bans, banned'[c])
    PROVE  ViewOf(c)'
<1>1. ChanAt(c)' = ChanAt(c)
  BY SameNamesSamePlace
<1>2. /\ UsersOf(c)' = chans'[ChanAt(c)].users
      /\ BansOf(c)' = chans'[ChanAt(c)].bans
  BY <1>1 DEF UsersOf, BansOf
<1>3. due' # c
  OBVIOUS
<1>4. Settled(c)' => ChanAt(c) # 0
  BY <1>1 DEF Settled
<1>5. c \notin missed' /\ Settled(c)' => on'[c] \subseteq NicksIn(UsersOf(c)')
  BY <1>2, <1>4
<1>6. c \notin missed' /\ Bot \in on'[c] /\ ~(due' = c /\ untold') /\ ChanAt(c)' # 0 /\ topic'[c] # None
          => chans'[ChanAt(c)'].topic = topic'[c]
  BY <1>1
<1>7. c \notin astray' /\ Settled(c)' => Exact(UsersOf(c)', on'[c], op'[c]) /\ RealBans(BansOf(c)', banned'[c])
  BY <1>2, <1>4
<1>8. ASSUME c \notin astray', NEW k \in DOMAIN chans', chans'[k].name = c, ~InUse(c, k)'
      PROVE  Blank(chans'[k])
  <2>1. k # ChanAt(c) /\ ~InUse(c, k)
    BY <1>1, <1>8 DEF InUse
  <2> QED BY <1>8, <2>1 DEF ViewOf
<1> QED BY <1>3, <1>5, <1>6, <1>7, <1>8 DEF ViewOf

\* A channel the bot is not in.
LEMMA ViewOfAbsent ==
    ASSUME NEW c \in Chan, Bot \notin on'[c], op'[c] \subseteq on'[c], due' # c,
           c \notin astray' => \A k \in DOMAIN chans' : chans'[k].name = c => Blank(chans'[k])
    PROVE  ViewOf(c)'
<1>1. ~Settled(c)'
  BY DEF Settled
<1> QED BY <1>1 DEF ViewOf

LEMMA NamelessStayBlank ==
    ASSUME NamelessAreBlank, astray \subseteq astray', DOMAIN chans' = DOMAIN chans,
           \A k \in DOMAIN chans : chans'[k].name = None => chans[k].name = None,
           \A k \in DOMAIN chans : chans[k].name = None /\ Blank(chans[k]) => Blank(chans'[k])
    PROVE  NamelessAreBlank'
BY DEF NamelessAreBlank

\* The record of c is written and keeps its name.
LEMMA RecordOfChannelWritten ==
    ASSUME TypeOK, NEW c \in Chan, ChanAt(c) # 0,
           NEW r, Sound(r), r.name = c, chans' = [chans EXCEPT ![ChanAt(c)] = r]
    PROVE  /\ chans' \in Seq(Record) /\ DOMAIN chans' = DOMAIN chans
           /\ \A k \in DOMAIN chans' : PointsInto(chans'[k].users) /\ PointsInto(chans'[k].bans)
           /\ \A k \in DOMAIN chans : chans'[k].name = chans[k].name
           /\ \A k \in DOMAIN chans : chans[k].name # c => chans'[k] = chans[k]
           /\ \A k \in DOMAIN chans : k # ChanAt(c) => chans'[k] = chans[k]
           /\ ChanAt(c) \in DOMAIN chans
           /\ chans'[ChanAt(c)] = r
<1>1. ChanAt(c) \in DOMAIN chans /\ chans[ChanAt(c)].name = c
  BY ChanAtProperties
<1>2. /\ chans' \in Seq(Record) /\ DOMAIN chans' = DOMAIN chans
      /\ \A k \in DOMAIN chans' : PointsInto(chans'[k].users) /\ PointsInto(chans'[k].bans)
      /\ \A k \in DOMAIN chans : chans'[k] = IF k = ChanAt(c) THEN r ELSE chans[k]
  BY <1>1, RecordWritten
<1> QED BY <1>1, <1>2

\* SetUsers and SetBans are such writes.
LEMMA UsersWritten ==
    ASSUME TypeOK, NEW c \in Chan, ChanAt(c) # 0, NEW l, Chained(l, User), SetUsers(c, l)
    PROVE  \E r : /\ Sound(r) /\ r.name = c /\ chans' = [chans EXCEPT ![ChanAt(c)] = r]
                  /\ r.users = l /\ r.bans = BansOf(c) /\ r.topic = chans[ChanAt(c)].topic
<1> DEFINE r == [chans[ChanAt(c)] EXCEPT !.users = l]
<1>1. /\ ChanAt(c) \in DOMAIN chans /\ chans[ChanAt(c)].name = c
      /\ Sound(chans[ChanAt(c)])
  BY ChanAtProperties, RecordsAreSound
<1>2. chans[ChanAt(c)] \in Record /\ PointsInto(chans[ChanAt(c)].bans)
  BY <1>1 DEF Sound
<1>3. l \in ListOf(User) /\ PointsInto(l)
  BY DEF Chained
<1>4. /\ r.name = c /\ r.users = l /\ r.bans = BansOf(c) /\ r.topic = chans[ChanAt(c)].topic
      /\ r \in Record
  BY <1>1, <1>2, <1>3 DEF Record, BansOf
<1>5. Sound(r)
  BY <1>2, <1>3, <1>4 DEF Sound, BansOf
<1>6. chans' = [chans EXCEPT ![ChanAt(c)] = r]
  BY DEF SetUsers
<1> QED BY <1>4, <1>5, <1>6

LEMMA BansWritten ==
    ASSUME TypeOK, NEW c \in Chan, ChanAt(c) # 0, NEW l, Chained(l, Mask \cup {Key}), SetBans(c, l)
    PROVE  \E r : /\ Sound(r) /\ r.name = c /\ chans' = [chans EXCEPT ![ChanAt(c)] = r]
                  /\ r.bans = l /\ r.users = UsersOf(c) /\ r.topic = chans[ChanAt(c)].topic
<1> DEFINE r == [chans[ChanAt(c)] EXCEPT !.bans = l]
<1>1. /\ ChanAt(c) \in DOMAIN chans /\ chans[ChanAt(c)].name = c
      /\ Sound(chans[ChanAt(c)])
  BY ChanAtProperties, RecordsAreSound
<1>2. chans[ChanAt(c)] \in Record /\ PointsInto(chans[ChanAt(c)].users)
  BY <1>1 DEF Sound
<1>3. l \in ListOf(Mask \cup {Key}) /\ PointsInto(l)
  BY DEF Chained
<1>4. /\ r.name = c /\ r.bans = l /\ r.users = UsersOf(c) /\ r.topic = chans[ChanAt(c)].topic
      /\ r \in Record
  BY <1>1, <1>2, <1>3 DEF Record, UsersOf
<1>5. Sound(r)
  BY <1>2, <1>3, <1>4 DEF Sound, UsersOf
<1>6. chans' = [chans EXCEPT ![ChanAt(c)] = r]
  BY DEF SetBans
<1> QED BY <1>4, <1>5, <1>6

\* The types of all but chans.
OtherTypes ==
    /\ world \in World
    /\ on \in [Chan -> SUBSET Nick] /\ op \in [Chan -> SUBSET Nick]
    /\ banned \in [Chan -> SUBSET Mask]
    /\ topic \in [Chan -> Topic \cup {None}]
    /\ due \in Chan \cup {None} /\ untold \in BOOLEAN /\ running \in BOOLEAN
    /\ astray \subseteq Chan /\ missed \subseteq Chan
    /\ lapses \in 0..MaxLapses

\* The server tells of no other channel, and nothing that was missed is made up for.
OnlyOf(c) ==
    /\ \A d \in Chan \ {c} : /\ on'[d] = on[d] /\ op'[d] = op[d]
                             /\ banned'[d] = banned[d] /\ topic'[d] = topic[d]
    /\ astray \subseteq astray' /\ missed \subseteq missed'

\* The record of c becomes r.
Written(c, r) ==
    ChanAt(c) # 0 /\ Sound(r) /\ r.name = c /\ chans' = [chans EXCEPT ![ChanAt(c)] = r]

\* Or the handler writes nothing.
WrittenAtMost(c, r) == Written(c, r) \/ UNCHANGED chans

\* What such a handler leaves alone.
LEMMA OthersAreKept ==
    ASSUME IInv, NEW c \in Chan, NEW r, WrittenAtMost(c, r), OtherTypes', OnlyOf(c)
    PROVE  /\ TypeOK' /\ NamelessAreBlank'
           /\ DOMAIN chans' = DOMAIN chans
           /\ \A k \in DOMAIN chans : chans'[k].name = chans[k].name
           /\ \A k \in DOMAIN chans : k # ChanAt(c) => chans'[k] = chans[k]
           /\ \A d \in Chan \ {c} : Untouched(d)
           /\ (\A d \in Chan \ {c} : (due' = d <=> due = d) /\ (due = d => untold' = untold))
                => \A d \in Chan \ {c} : ViewOf(d)'
<1>0. TypeOK /\ NamelessAreBlank /\ \A d \in Chan : ViewOf(d)
  BY DEF IInv
<1>1. /\ chans' \in Seq(Record) /\ DOMAIN chans' = DOMAIN chans
      /\ \A k \in DOMAIN chans' : PointsInto(chans'[k].users) /\ PointsInto(chans'[k].bans)
      /\ \A k \in DOMAIN chans : chans'[k].name = chans[k].name
      /\ \A k \in DOMAIN chans : chans[k].name # c => chans'[k] = chans[k]
      /\ \A k \in DOMAIN chans : k # ChanAt(c) => chans'[k] = chans[k]
  <2>1. CASE Written(c, r)
    BY <1>0, <2>1, RecordOfChannelWritten DEF Written
  <2>2. CASE UNCHANGED chans
    BY <1>0, <2>2 DEF TypeOK
  <2> QED BY <2>1, <2>2 DEF WrittenAtMost
<1>2. TypeOK'
  BY <1>1 DEF OtherTypes, TypeOK
<1>3. NamelessAreBlank'
  BY <1>0, <1>1, NamelessStayBlank DEF OnlyOf
<1>4. \A d \in Chan \ {c} : Untouched(d)
  BY <1>1 DEF OnlyOf, Untouched
<1>5. ASSUME NEW d \in Chan \ {c}, due' = d <=> due = d, due = d => untold' = untold
      PROVE  ViewOf(d)'
  <2>1. astray \subseteq astray' /\ missed \subseteq missed'
    BY DEF OnlyOf
  <2> QED BY <1>0, <1>4, <1>5, <2>1, ViewIsKept
<1> QED BY <1>1, <1>2, <1>3, <1>4, <1>5

\* An event of a channel that the bot is in and stays in.
LEMMA EventKeeps ==
    ASSUME IInv, NEW c \in Chan, NEW r, OtherTypes', OnlyOf(c),
           due = None, due' = None, Bot \in on[c], Bot \in on'[c], op'[c] \subseteq on'[c],
           Written(c, r) \/ (UNCHANGED chans /\ (ChanAt(c) # 0 => r = chans[ChanAt(c)])),
           ChanAt(c) # 0 =>
              /\ c \notin missed' => on'[c] \subseteq NicksIn(r.users)
              /\ c \notin missed' /\ topic'[c] # None => r.topic = topic'[c]
              /\ c \notin astray' => Exact(r.users, on'[c], op'[c]) /\ RealBans(r.bans, banned'[c])
    PROVE  IInv'
<1>0. TypeOK /\ ViewOf(c)
  BY DEF IInv
<1>1. WrittenAtMost(c, r)
  BY DEF WrittenAtMost
<1>2. /\ TypeOK' /\ NamelessAreBlank'
      /\ DOMAIN chans' = DOMAIN chans
      /\ \A k \in DOMAIN chans : chans'[k].name = chans[k].name
      /\ \A k \in DOMAIN chans : k # ChanAt(c) => chans'[k] = chans[k]
  BY <1>1, OthersAreKept
<1>3. \A d \in Chan \ {c} : ViewOf(d)'
  BY <1>1, OthersAreKept
<1>4. ChanAt(c) # 0 => chans'[ChanAt(c)] = r
  BY <1>0, ChanAtProperties DEF Written
<1>5. ViewOf(c)'
  <2>1. /\ \A k \in DOMAIN chans : chans'[k].name = c <=> chans[k].name = c
        /\ \A k \in DOMAIN chans : k # ChanAt(c) /\ Blank(chans[k]) => Blank(chans'[k])
        /\ astray \subseteq astray'
    BY <1>2 DEF OnlyOf
  <2>2. ChanAt(c) # 0 =>
              /\ c \notin missed' => on'[c] \subseteq NicksIn(chans'[ChanAt(c)].users)
              /\ c \notin missed' /\ topic'[c] # None => chans'[ChanAt(c)].topic = topic'[c]
              /\ c \notin astray' => /\ Exact(chans'[ChanAt(c)].users, on'[c], op'[c])
                                     /\ RealBans(chans'[ChanAt(c)].bans, banned'[c])
    BY <1>4
  <2> QED BY <1>0, <1>2, <2>1, <2>2, ViewIsUpdated
<1> QED BY <1>2, <1>3, <1>5 DEF IInv

\* The bot is in c no longer, or is not in it, and the view of c is not trusted any more.
LEMMA DepartureKeeps ==
    ASSUME IInv, NEW c \in Chan, NEW r, OtherTypes', OnlyOf(c),
           due = None, due' = None, Bot \notin on'[c], op'[c] \subseteq on'[c], c \in astray',
           WrittenAtMost(c, r)
    PROVE  IInv'
<1>1. TypeOK' /\ NamelessAreBlank'
  BY OthersAreKept
<1>2. \A d \in Chan \ {c} : ViewOf(d)'
  BY OthersAreKept
<1>3. ViewOf(c)'
  BY ViewOfAbsent
<1> QED BY <1>1, <1>2, <1>3 DEF IInv

LEMMA LapseProperties ==
    ASSUME TypeOK, NEW A \in SUBSET Chan, NEW M \in SUBSET Chan, Lapse(A, M)
    PROVE  /\ astray' = astray \cup A /\ missed' = missed \cup M
           /\ astray' \subseteq Chan /\ missed' \subseteq Chan /\ lapses' \in 0..MaxLapses
BY DEF Lapse, TypeOK

\* The parts of the view of a channel with a record, between its JOIN lines.
LEMMA SettledView ==
    ASSUME IInv, NEW c \in Chan, due = None, Bot \in on[c], ChanAt(c) # 0
    PROVE  /\ Chained(UsersOf(c), User) /\ Chained(BansOf(c), Mask \cup {Key})
           /\ Sound(chans[ChanAt(c)])
           /\ chans[ChanAt(c)].users = UsersOf(c) /\ chans[ChanAt(c)].bans = BansOf(c)
           /\ chans[ChanAt(c)].name = c
           /\ c \notin missed => on[c] \subseteq NicksIn(UsersOf(c))
           /\ c \notin missed /\ topic[c] # None => chans[ChanAt(c)].topic = topic[c]
           /\ c \notin astray => Exact(UsersOf(c), on[c], op[c]) /\ RealBans(BansOf(c), banned[c])
<1>1. TypeOK /\ ViewOf(c)
  BY DEF IInv
<1>2. Settled(c)
  BY DEF Settled
<1>3. ChanAt(c) \in DOMAIN chans /\ chans[ChanAt(c)].name = c
  BY <1>1, ChanAtProperties
<1> QED BY <1>1, <1>2, <1>3, RecordsAreSound DEF ViewOf, UsersOf, BansOf
-----------------------------------------------------------------------------
\* The handlers, one by one.

LEMMA UserJoinsKeeps ==
    ASSUME IInv, NEW c \in Chan, NEW n \in Nick, UserJoins(c, n)
    PROVE  IInv'
<1>0. /\ due = None /\ due' = None /\ Bot \in on[c] /\ n \notin on[c]
      /\ on' = [on EXCEPT ![c] = @ \cup {n}] /\ NewJoin(c, n)
      /\ UNCHANGED <<world, op, banned, topic, untold, running, astray, missed, lapses>>
  BY DEF UserJoins, Told, asked, history
<1>1. TypeOK /\ op[c] \subseteq on[c]
  BY DEF IInv, ViewOf
<1>2. on'[c] = on[c] \cup {n} /\ \A d \in Chan \ {c} : on'[d] = on[d]
  BY <1>0, <1>1 DEF TypeOK
<1>3. OtherTypes' /\ OnlyOf(c)
  BY <1>0, <1>1, <1>2 DEF TypeOK, OtherTypes, OnlyOf
<1>4. Bot \in on'[c] /\ op'[c] \subseteq on'[c]
  BY <1>0, <1>1, <1>2
<1>5. CASE ChanAt(c) = 0
  <2>1. UNCHANGED chans
    BY <1>0, <1>5 DEF NewJoin
  <2> QED BY <1>0, <1>3, <1>4, <1>5, <2>1, EventKeeps
<1>6. CASE ChanAt(c) # 0
  <2> DEFINE l == UsersOf(c)
             u == NewUser(n, FALSE)
             old == chans[ChanAt(c)]
  <2>1. /\ Chained(l, User) /\ old.users = l /\ old.bans = BansOf(c)
        /\ c \notin missed => on[c] \subseteq NicksIn(l)
        /\ c \notin missed /\ topic[c] # None => old.topic = topic[c]
        /\ c \notin astray => Exact(l, on[c], op[c]) /\ RealBans(BansOf(c), banned[c])
    BY <1>0, <1>6, SettledView
  <2> HIDE DEF l, u, old
  <2>2. CASE UserAt(l, n) # 0
    <3>1. UNCHANGED chans
      BY <1>0, <1>6, <2>2 DEF NewJoin, l
    <3>2. n \in NicksIn(l)
      BY <2>1, <2>2, UserAtOfStranger
    <3>3. c \in astray
      BY <1>0, <2>1, <3>2 DEF Exact
    <3>4. /\ c \notin missed' => on'[c] \subseteq NicksIn(old.users)
          /\ c \notin missed' /\ topic'[c] # None => old.topic = topic'[c]
          /\ c \in astray'
      BY <1>0, <1>2, <2>1, <3>2, <3>3
    <3> QED BY <1>0, <1>3, <1>4, <3>1, <3>4, EventKeeps DEF old
  <2>3. CASE UserAt(l, n) = 0
    <3>1. SetUsers(c, ListAdd(l, u))
      BY <1>0, <1>6, <2>3 DEF NewJoin, l, u
    <3>2. u \in User /\ u.nick = n /\ ~u.op
      BY DEF u, NewUser, User
    <3>3. /\ Chained(ListAdd(l, u), User) /\ NicksIn(ListAdd(l, u)) = NicksIn(l) \cup {n}
          /\ \A S, O : Exact(l, S, O) /\ n \notin S => Exact(ListAdd(l, u), S \cup {n}, O)
      BY <2>1, <3>2, UserAdded
    <3>4. PICK r : /\ Written(c, r)
                   /\ r.users = ListAdd(l, u) /\ r.bans = BansOf(c) /\ r.topic = old.topic
      BY <1>1, <1>6, <3>1, <3>3, UsersWritten DEF Written, old
    <3>5. /\ c \notin missed' => on'[c] \subseteq NicksIn(r.users)
          /\ c \notin missed' /\ topic'[c] # None => r.topic = topic'[c]
          /\ c \notin astray' => Exact(r.users, on'[c], op'[c]) /\ RealBans(r.bans, banned'[c])
      BY <1>0, <1>2, <2>1, <3>3, <3>4
    <3> QED BY <1>0, <1>3, <1>4, <3>4, <3>5, EventKeeps
  <2> QED BY <2>2, <2>3
<1> QED BY <1>5, <1>6

LEMMA WhoReplyKeeps ==
    ASSUME IInv, NEW c \in Chan, NEW n \in Nick, WhoReply(c, n)
    PROVE  IInv'
<1> DEFINE l == UsersOf(c)
           u == NewUser(n, FALSE)
<1>0. /\ due = None /\ due' = None /\ Bot \in on[c] /\ ChanAt(c) # 0
      /\ SetUsers(c, ListAdd(l, u)) /\ Noted(c, FALSE)
      /\ UNCHANGED <<world, on, op, banned, topic, untold, running>>
  BY DEF WhoReply, Known, Told, asked, server, members
<1>1. TypeOK /\ op[c] \subseteq on[c]
  BY DEF IInv, ViewOf
<1>2. /\ astray' = astray \cup {c} /\ missed' = missed
      /\ astray' \subseteq Chan /\ missed' \subseteq Chan /\ lapses' \in 0..MaxLapses
  BY <1>0, <1>1 DEF Noted, Lapse, TypeOK
<1>3. OtherTypes' /\ OnlyOf(c)
  BY <1>0, <1>1, <1>2 DEF TypeOK, OtherTypes, OnlyOf
<1>4. /\ Chained(l, User)
      /\ c \notin missed => on[c] \subseteq NicksIn(l)
      /\ c \notin missed /\ topic[c] # None => chans[ChanAt(c)].topic = topic[c]
  BY <1>0, SettledView
<1>5. u \in User
  BY DEF NewUser, User
<1>6. Chained(ListAdd(l, u), User) /\ NicksIn(l) \subseteq NicksIn(ListAdd(l, u))
  BY <1>4, <1>5, UserAdded
<1> HIDE DEF l, u
<1>7. PICK r : /\ Written(c, r)
               /\ r.users = ListAdd(l, u) /\ r.topic = chans[ChanAt(c)].topic
  BY <1>0, <1>1, <1>6, UsersWritten DEF Written
<1>8. /\ c \notin missed' => on'[c] \subseteq NicksIn(r.users)
      /\ c \notin missed' /\ topic'[c] # None => r.topic = topic'[c]
      /\ c \in astray'
  BY <1>0, <1>2, <1>4, <1>6, <1>7
<1>9. Bot \in on'[c] /\ op'[c] \subseteq on'[c]
  BY <1>0, <1>1
<1> QED BY <1>0, <1>3, <1>7, <1>8, <1>9, EventKeeps

\* What the server does when n leaves c.
LEMMA LeavingTyped ==
    ASSUME TypeOK, NEW c \in Chan, NEW n, LeftAtServer(c, n)
    PROVE  /\ on' \in [Chan -> SUBSET Nick] /\ op' \in [Chan -> SUBSET Nick]
           /\ banned' \in [Chan -> SUBSET Mask] /\ topic' \in [Chan -> Topic \cup {None}]
           /\ \A d \in Chan \ {c} : /\ on'[d] = on[d] /\ op'[d] = op[d]
                                    /\ banned'[d] = banned[d] /\ topic'[d] = topic[d]
           /\ n # Bot => /\ on'[c] = on[c] \ {n} /\ op'[c] = op[c] \ {n}
                         /\ banned'[c] = banned[c] /\ topic'[c] = topic[c]
           /\ n = Bot => on'[c] = {} /\ op'[c] = {}
BY DEF TypeOK, LeftAtServer

\* new_part and new_kick do the same.
LEMMA LeavingKeeps ==
    ASSUME IInv, NEW c \in Chan, NEW n \in Nick, UserParts(c, n) \/ UserKicked(c, n)
    PROVE  IInv'
<1> DEFINE l == UsersOf(c)
           k == UserAt(l, n)
           ok == n # Bot /\ k # 0
           old == chans[ChanAt(c)]
<1>0. /\ due = None /\ due' = None /\ Bot \in on[c] /\ ChanAt(c) # 0
      /\ LeftAtServer(c, n) /\ Removed(c, n) /\ Noted(c, ok)
      /\ UNCHANGED <<world, untold, running>>
  BY DEF UserParts, UserKicked, Known, Told, asked
<1>1. TypeOK /\ op[c] \subseteq on[c]
  BY DEF IInv, ViewOf
<1>2. /\ on' \in [Chan -> SUBSET Nick] /\ op' \in [Chan -> SUBSET Nick]
      /\ banned' \in [Chan -> SUBSET Mask] /\ topic' \in [Chan -> Topic \cup {None}]
      /\ \A d \in Chan \ {c} : /\ on'[d] = on[d] /\ op'[d] = op[d]
                               /\ banned'[d] = banned[d] /\ topic'[d] = topic[d]
      /\ n # Bot => /\ on'[c] = on[c] \ {n} /\ op'[c] = op[c] \ {n}
                    /\ banned'[c] = banned[c] /\ topic'[c] = topic[c]
      /\ n = Bot => on'[c] = {} /\ op'[c] = {}
  BY <1>0, <1>1, LeavingTyped
<1>3. /\ astray' = astray \cup (IF ok THEN {} ELSE {c}) /\ missed' = missed
      /\ astray' \subseteq Chan /\ missed' \subseteq Chan /\ lapses' \in 0..MaxLapses
  BY <1>0, <1>1 DEF Noted, Lapse, TypeOK
<1>4. OtherTypes' /\ OnlyOf(c)
  BY <1>0, <1>1, <1>2, <1>3 DEF TypeOK, OtherTypes, OnlyOf
<1>5. /\ Chained(l, User) /\ old.users = l /\ old.bans = BansOf(c)
      /\ c \notin missed => on[c] \subseteq NicksIn(l)
      /\ c \notin missed /\ topic[c] # None => old.topic = topic[c]
      /\ c \notin astray => Exact(l, on[c], op[c]) /\ RealBans(BansOf(c), banned[c])
  BY <1>0, SettledView
<1>6. op'[c] \subseteq on'[c]
  BY <1>1, <1>2
<1>7. k = 0 => UNCHANGED chans
  BY <1>0 DEF Removed
<1>8. k # 0 => k \in DOMAIN l.items /\ l.items[k].nick = n
  BY <1>5, UserAtProperties
<1> HIDE DEF l, k, old
<1>9. ASSUME k # 0
      PROVE  \E r : /\ Written(c, r)
                    /\ r.users = RemoveNode(l, k) /\ r.bans = BansOf(c) /\ r.topic = old.topic
  <2>1. SetUsers(c, RemoveNode(l, k))
    BY <1>0, <1>9 DEF Removed, l, k
  <2>2. Chained(RemoveNode(l, k), User)
    BY <1>5, <1>8, <1>9, UserRemoved
  <2> QED BY <1>0, <1>1, <2>1, <2>2, UsersWritten DEF Written, old
<1>10. CASE n = Bot
  <2>1. \E r : WrittenAtMost(c, r)
    BY <1>7, <1>9 DEF WrittenAtMost
  <2>2. Bot \notin on'[c] /\ c \in astray'
    BY <1>2, <1>3, <1>10
  <2> QED BY <1>0, <1>4, <1>6, <2>1, <2>2, DepartureKeeps
<1>11. CASE n # Bot /\ k = 0
  <2>1. /\ c \notin missed' => on'[c] \subseteq NicksIn(old.users)
        /\ c \notin missed' /\ topic'[c] # None => old.topic = topic'[c]
        /\ c \in astray' /\ Bot \in on'[c]
    BY <1>0, <1>2, <1>3, <1>5, <1>11
  <2> QED BY <1>0, <1>4, <1>6, <1>7, <1>11, <2>1, EventKeeps DEF old
<1>12. CASE n # Bot /\ k # 0
  <2>1. PICK r : /\ Written(c, r)
                 /\ r.users = RemoveNode(l, k) /\ r.bans = BansOf(c) /\ r.topic = old.topic
    BY <1>9, <1>12
  <2>2. /\ NicksIn(l) \ {n} \subseteq NicksIn(RemoveNode(l, k))
        /\ \A S, O : Exact(l, S, O) => Exact(RemoveNode(l, k), S \ {n}, O \ {n})
    BY <1>5, <1>8, <1>12, UserRemoved
  <2>3. /\ c \notin missed' => on'[c] \subseteq NicksIn(r.users)
        /\ c \notin missed' /\ topic'[c] # None => r.topic = topic'[c]
        /\ c \notin astray' => Exact(r.users, on'[c], op'[c]) /\ RealBans(r.bans, banned'[c])
        /\ Bot \in on'[c]
    BY <1>0, <1>2, <1>3, <1>5, <1>12, <2>1, <2>2
  <2> QED BY <1>0, <1>4, <1>6, <2>1, <2>3, EventKeeps
<1> QED BY <1>10, <1>11, <1>12

LEMMA UserPartsSilentlyKeeps ==
    ASSUME IInv, NEW c \in Chan, NEW n \in Nick, UserPartsSilently(c, n)
    PROVE  IInv'
<1> DEFINE old == chans[ChanAt(c)]
<1>0. /\ due = None /\ due' = None /\ Bot \in on[c]
      /\ LeftAtServer(c, n) /\ Noted(c, FALSE)
      /\ UNCHANGED <<world, chans, untold, running>>
  BY DEF UserPartsSilently, Told, asked
<1>1. TypeOK /\ op[c] \subseteq on[c]
  BY DEF IInv, ViewOf
<1>2. /\ on' \in [Chan -> SUBSET Nick] /\ op' \in [Chan -> SUBSET Nick]
      /\ banned' \in [Chan -> SUBSET Mask] /\ topic' \in [Chan -> Topic \cup {None}]
      /\ \A d \in Chan \ {c} : /\ on'[d] = on[d] /\ op'[d] = op[d]
                               /\ banned'[d] = banned[d] /\ topic'[d] = topic[d]
      /\ n # Bot => /\ on'[c] = on[c] \ {n} /\ op'[c] = op[c] \ {n}
                    /\ banned'[c] = banned[c] /\ topic'[c] = topic[c]
      /\ n = Bot => on'[c] = {} /\ op'[c] = {}
  BY <1>0, <1>1, LeavingTyped
<1>3. /\ astray' = astray \cup {c} /\ missed' = missed
      /\ astray' \subseteq Chan /\ missed' \subseteq Chan /\ lapses' \in 0..MaxLapses
  BY <1>0, <1>1 DEF Noted, Lapse, TypeOK
<1>4. OtherTypes' /\ OnlyOf(c)
  BY <1>0, <1>1, <1>2, <1>3 DEF TypeOK, OtherTypes, OnlyOf
<1>5. op'[c] \subseteq on'[c]
  BY <1>1, <1>2
<1>6. CASE n = Bot
  <2>1. Bot \notin on'[c] /\ c \in astray' /\ WrittenAtMost(c, old)
    BY <1>0, <1>2, <1>3, <1>6 DEF WrittenAtMost
  <2> QED BY <1>0, <1>4, <1>5, <2>1, DepartureKeeps
<1>7. CASE n # Bot
  <2>1. ChanAt(c) # 0 => /\ old.users = UsersOf(c)
                         /\ c \notin missed => on[c] \subseteq NicksIn(UsersOf(c))
                         /\ c \notin missed /\ topic[c] # None => old.topic = topic[c]
    BY <1>0, SettledView
  <2> HIDE DEF old
  <2>2. /\ ChanAt(c) # 0 => /\ c \notin missed' => on'[c] \subseteq NicksIn(old.users)
                            /\ c \notin missed' /\ topic'[c] # None => old.topic = topic'[c]
        /\ c \in astray' /\ Bot \in on'[c]
    BY <1>0, <1>2, <1>3, <1>7, <2>1
  <2> QED BY <1>0, <1>4, <1>5, <2>2, EventKeeps DEF old
<1> QED BY <1>6, <1>7

LEMMA OpChangesKeeps ==
    ASSUME IInv, NEW c \in Chan, NEW n \in Nick, NEW keyed \in BOOLEAN, OpChanges(c, n, keyed)
    PROVE  IInv'
<1> DEFINE l == UsersOf(c)
           k == UserAt(l, Argument(n, keyed))
           old == chans[ChanAt(c)]
           b == n \notin op[c]
<1>0. /\ due = None /\ due' = None /\ Bot \in on[c] /\ ChanAt(c) # 0 /\ n \in on[c]
      /\ op' = [op EXCEPT ![c] = IF n \in @ THEN @ \ {n} ELSE @ \cup {n}]
      /\ IF k = 0 THEN UNCHANGED chans ELSE SetUsers(c, [l EXCEPT !.items[k].op = b])
      /\ Noted(c, k # 0)
      /\ UNCHANGED <<world, on, banned, topic, untold, running>>
  BY DEF OpChanges, Known, Told, asked
<1>1. TypeOK /\ op[c] \subseteq on[c]
  BY DEF IInv, ViewOf
<1>2. /\ op'[c] = IF b THEN op[c] \cup {n} ELSE op[c] \ {n}
      /\ \A d \in Chan \ {c} : op'[d] = op[d]
      /\ op' \in [Chan -> SUBSET Nick]
  BY <1>0, <1>1 DEF TypeOK
<1>3. /\ astray' = astray \cup (IF k # 0 THEN {} ELSE {c}) /\ missed' = missed
      /\ astray' \subseteq Chan /\ missed' \subseteq Chan /\ lapses' \in 0..MaxLapses
  BY <1>0, <1>1 DEF Noted, Lapse, TypeOK
<1>4. OtherTypes' /\ OnlyOf(c)
  BY <1>0, <1>1, <1>2, <1>3 DEF TypeOK, OtherTypes, OnlyOf
<1>5. /\ Chained(l, User) /\ old.users = l /\ old.bans = BansOf(c)
      /\ c \notin missed => on[c] \subseteq NicksIn(l)
      /\ c \notin missed /\ topic[c] # None => old.topic = topic[c]
      /\ c \notin astray => Exact(l, on[c], op[c]) /\ RealBans(BansOf(c), banned[c])
  BY <1>0, SettledView
<1>6. Bot \in on'[c] /\ op'[c] \subseteq on'[c]
  BY <1>0, <1>1, <1>2
<1>7. k # 0 => k \in DOMAIN l.items /\ l.items[k].nick = n
  <2>1. k # 0 => k \in DOMAIN l.items /\ l.items[k].nick = Argument(n, keyed)
    BY <1>5, UserAtProperties
  <2>2. k # 0 => l.items[k].nick \in Nick
    <3> HIDE DEF k, l
    <3> QED BY <1>5, <2>1, NodesOfUsers
  <2> QED BY <2>1, <2>2 DEF Argument
<1>8. b \in BOOLEAN
  OBVIOUS
<1> HIDE DEF l, k, old, b
<1>9. CASE k = 0
  <2>1. /\ UNCHANGED chans
        /\ c \notin missed' => on'[c] \subseteq NicksIn(old.users)
        /\ c \notin missed' /\ topic'[c] # None => old.topic = topic'[c]
        /\ c \in astray'
    BY <1>0, <1>3, <1>5, <1>9
  <2> QED BY <1>0, <1>4, <1>6, <2>1, EventKeeps DEF old
<1>10. CASE k # 0
  <2> DEFINE m == [l EXCEPT !.items[k].op = b]
  <2>1. /\ Chained(m, User) /\ NicksIn(m) = NicksIn(l)
        /\ \A S, O : Exact(l, S, O) => Exact(m, S, IF b THEN O \cup {n} ELSE O \ {n})
    BY <1>5, <1>7, <1>8, <1>10, ModeWritten
  <2>2. SetUsers(c, m)
    BY <1>0, <1>10
  <2> HIDE DEF m
  <2>3. PICK r : /\ Written(c, r)
                 /\ r.users = m /\ r.bans = BansOf(c) /\ r.topic = old.topic
    BY <1>0, <1>1, <2>1, <2>2, UsersWritten DEF Written, old
  <2>4. /\ c \notin missed' => on'[c] \subseteq NicksIn(r.users)
        /\ c \notin missed' /\ topic'[c] # None => r.topic = topic'[c]
        /\ c \notin astray' => Exact(r.users, on'[c], op'[c]) /\ RealBans(r.bans, banned'[c])
    BY <1>0, <1>2, <1>3, <1>5, <1>10, <2>1, <2>3
  <2> QED BY <1>0, <1>4, <1>6, <2>3, <2>4, EventKeeps
<1> QED BY <1>9, <1>10

\* The record of c with another topic.
LEMMA TopicWritten ==
    ASSUME IInv, NEW c \in Chan, ChanAt(c) # 0, NEW t \in Topic \cup {None}, chans' = WithTopic(c, t)
    PROVE  \E r : /\ Written(c, r) /\ r.topic = t
                  /\ r.users = UsersOf(c) /\ r.bans = BansOf(c)
<1> DEFINE r == [chans[ChanAt(c)] EXCEPT !.topic = t]
<1>0. TypeOK
  BY DEF IInv
<1>1. ChanAt(c) \in DOMAIN chans /\ chans[ChanAt(c)].name = c
  BY <1>0, ChanAtProperties
<1>2. Sound(chans[ChanAt(c)])
  BY <1>0, <1>1, RecordsAreSound
<1>3. /\ r \in Record /\ r.name = c /\ r.topic = t
      /\ r.users = chans[ChanAt(c)].users /\ r.bans = chans[ChanAt(c)].bans
  BY <1>1, <1>2 DEF Sound, Record
<1>4. Sound(r)
  BY <1>2, <1>3 DEF Sound
<1>5. chans' = [chans EXCEPT ![ChanAt(c)] = r]
  BY DEF WithTopic
<1> QED BY <1>3, <1>4, <1>5 DEF Written, UsersOf, BansOf

LEMMA TopicChangesKeeps ==
    ASSUME IInv, NEW c \in Chan, NEW t \in Topic \cup {None}, TopicChanges(c, t)
    PROVE  IInv'
<1> DEFINE old == chans[ChanAt(c)]
<1>0. /\ due = None /\ due' = None /\ Bot \in on[c]
      /\ topic' = [topic EXCEPT ![c] = t]
      /\ IF t = None THEN UNCHANGED chans ELSE chans' = WithTopic(c, t)
      /\ UNCHANGED <<world, on, op, banned, untold, running, astray, missed, lapses>>
  BY DEF TopicChanges, Told, asked, members, history
<1>1. TypeOK /\ op[c] \subseteq on[c]
  BY DEF IInv, ViewOf
<1>2. OtherTypes' /\ OnlyOf(c) /\ topic'[c] = t
  BY <1>0, <1>1 DEF TypeOK, OtherTypes, OnlyOf
<1>3. Bot \in on'[c] /\ op'[c] \subseteq on'[c]
  BY <1>0, <1>1
<1>4. ChanAt(c) # 0 =>
        /\ old.users = UsersOf(c) /\ old.bans = BansOf(c)
        /\ c \notin missed => on[c] \subseteq NicksIn(UsersOf(c))
        /\ c \notin astray => Exact(UsersOf(c), on[c], op[c]) /\ RealBans(BansOf(c), banned[c])
  BY <1>0, SettledView
<1> HIDE DEF old
<1>5. CASE t = None \/ ChanAt(c) = 0
  <2>1. UNCHANGED chans
    BY <1>0, <1>5 DEF WithTopic
  <2>2. ChanAt(c) # 0 =>
          /\ c \notin missed' => on'[c] \subseteq NicksIn(old.users)
          /\ c \notin missed' /\ topic'[c] # None => old.topic = topic'[c]
          /\ c \notin astray' => Exact(old.users, on'[c], op'[c]) /\ RealBans(old.bans, banned'[c])
    BY <1>0, <1>2, <1>4, <1>5
  <2> QED BY <1>0, <1>2, <1>3, <2>1, <2>2, EventKeeps DEF old
<1>6. CASE t # None /\ ChanAt(c) # 0
  <2>1. PICK r : Written(c, r) /\ r.topic = t /\ r.users = UsersOf(c) /\ r.bans = BansOf(c)
    BY <1>0, <1>6, TopicWritten
  <2>2. /\ c \notin missed' => on'[c] \subseteq NicksIn(r.users)
        /\ c \notin missed' /\ topic'[c] # None => r.topic = topic'[c]
        /\ c \notin astray' => Exact(r.users, on'[c], op'[c]) /\ RealBans(r.bans, banned'[c])
    BY <1>0, <1>2, <1>4, <1>6, <2>1
  <2> QED BY <1>0, <1>2, <1>3, <2>1, <2>2, EventKeeps
<1> QED BY <1>5, <1>6

\* The ban list of c is written, by a handler that may miss something (ok is FALSE then).
LEMMA BanListKeeps ==
    ASSUME IInv, NEW c \in Chan, NEW l, NEW ok \in BOOLEAN,
           due = None, Bot \in on[c], ChanAt(c) # 0,
           Chained(l, Mask \cup {Key}), SetBans(c, l) \/ (UNCHANGED chans /\ l = BansOf(c)),
           Noted(c, ok), UNCHANGED <<world, members, topic, asked, running>>,
           banned' \in [Chan -> SUBSET Mask], \A d \in Chan \ {c} : banned'[d] = banned[d],
           ok /\ c \notin astray => RealBans(l, banned'[c])
    PROVE  IInv'
<1> DEFINE old == chans[ChanAt(c)]
<1>0. /\ due' = None
      /\ UNCHANGED <<world, on, op, topic, untold, running>>
  BY DEF asked, members
<1>1. TypeOK /\ op[c] \subseteq on[c]
  BY DEF IInv, ViewOf
<1>2. /\ astray' = astray \cup (IF ok THEN {} ELSE {c}) /\ missed' = missed
      /\ astray' \subseteq Chan /\ missed' \subseteq Chan /\ lapses' \in 0..MaxLapses
  BY <1>1 DEF Noted, Lapse, TypeOK
<1>3. OtherTypes' /\ OnlyOf(c)
  BY <1>0, <1>1, <1>2 DEF TypeOK, OtherTypes, OnlyOf
<1>4. /\ old.users = UsersOf(c) /\ old.bans = BansOf(c)
      /\ c \notin missed => on[c] \subseteq NicksIn(UsersOf(c))
      /\ c \notin missed /\ topic[c] # None => old.topic = topic[c]
      /\ c \notin astray => Exact(UsersOf(c), on[c], op[c])
  BY SettledView
<1> HIDE DEF old
<1>5. PICK r : /\ Written(c, r) \/ (UNCHANGED chans /\ r = old)
               /\ r.bans = l /\ r.users = UsersOf(c) /\ r.topic = old.topic
  <2>1. CASE SetBans(c, l)
    <3>1. PICK r : /\ Sound(r) /\ r.name = c /\ chans' = [chans EXCEPT ![ChanAt(c)] = r]
                   /\ r.bans = l /\ r.users = UsersOf(c) /\ r.topic = chans[ChanAt(c)].topic
      BY ZenonT(60), <1>1, <2>1, BansWritten
    <3>2. Written(c, r)
      BY <3>1 DEF Written
    <3> QED BY <3>1, <3>2 DEF old
  <2>2. CASE UNCHANGED chans /\ l = BansOf(c)
    BY <1>4, <2>2
  <2> QED BY <2>1, <2>2
<1>6. /\ c \notin missed' => on'[c] \subseteq NicksIn(r.users)
      /\ c \notin missed' /\ topic'[c] # None => r.topic = topic'[c]
      /\ c \notin astray' => Exact(r.users, on'[c], op'[c]) /\ RealBans(r.bans, banned'[c])
      /\ Bot \in on'[c] /\ op'[c] \subseteq on'[c]
  BY <1>0, <1>1, <1>2, <1>4, <1>5
<1> QED BY <1>0, <1>3, <1>5, <1>6, EventKeeps DEF old

LEMMA BanSetKeeps ==
    ASSUME IInv, NEW c \in Chan, NEW m \in Mask, NEW keyed \in BOOLEAN, BanSet(c, m, keyed)
    PROVE  IInv'
<1> DEFINE x == Argument(m, keyed)
           l == WithBan(BansOf(c), x)
<1>0. /\ due = None /\ Bot \in on[c] /\ ChanAt(c) # 0 /\ m \notin banned[c]
      /\ banned' = [banned EXCEPT ![c] = @ \cup {m}]
      /\ SetBans(c, l) /\ Noted(c, ~keyed)
      /\ UNCHANGED <<world, members, topic, asked, running>>
  BY DEF BanSet, Known, Told
<1>1. TypeOK
  BY DEF IInv
<1>2. /\ banned' \in [Chan -> SUBSET Mask] /\ banned'[c] = banned[c] \cup {m}
      /\ \A d \in Chan \ {c} : banned'[d] = banned[d]
  BY <1>0, <1>1 DEF TypeOK
<1>3. /\ Chained(BansOf(c), Mask \cup {Key})
      /\ c \notin astray => RealBans(BansOf(c), banned[c])
  BY <1>0, SettledView
<1>4. x \in Mask \cup {Key} /\ (~keyed => x = m)
  BY DEF Argument
<1>5. /\ Chained(l, Mask \cup {Key})
      /\ \A B : RealBans(BansOf(c), B) /\ x \notin Members(BansOf(c)) => RealBans(l, B \cup {x})
  <2> HIDE DEF x
  <2> QED BY <1>3, <1>4, BanAdded
<1>6. ~keyed /\ c \notin astray => RealBans(l, banned'[c])
  BY <1>0, <1>2, <1>3, <1>4, <1>5 DEF RealBans
<1>7. (~keyed) \in BOOLEAN
  OBVIOUS
<1> HIDE DEF x, l
<1> QED BY <1>0, <1>2, <1>5, <1>6, <1>7, BanListKeeps

LEMMA BanLiftedKeeps ==
    ASSUME IInv, NEW c \in Chan, NEW m \in Mask, NEW keyed \in BOOLEAN, BanLifted(c, m, keyed)
    PROVE  IInv'
<1> DEFINE l == BansOf(c)
           k == BanAt(l, Argument(m, keyed))
           ok == ~keyed /\ (m \in Members(l) => k # 0)
           r == IF k = 0 THEN l ELSE RemoveNode(l, k)
<1>0. /\ due = None /\ Bot \in on[c] /\ ChanAt(c) # 0 /\ m \in banned[c]
      /\ banned' = [banned EXCEPT ![c] = @ \ {m}]
      /\ IF k = 0 THEN UNCHANGED chans ELSE SetBans(c, RemoveNode(l, k))
      /\ Noted(c, ok)
      /\ UNCHANGED <<world, members, topic, asked, running>>
  BY DEF BanLifted, Known, Told
<1>1. TypeOK
  BY DEF IInv
<1>2. /\ banned' \in [Chan -> SUBSET Mask] /\ banned'[c] = banned[c] \ {m}
      /\ \A d \in Chan \ {c} : banned'[d] = banned[d]
  BY <1>0, <1>1 DEF TypeOK
<1>3. /\ Chained(l, Mask \cup {Key})
      /\ c \notin astray => RealBans(l, banned[c])
  BY <1>0, SettledView
<1>4. k = 0 \/ (k \in DOMAIN l.items /\ l.items[k] = Argument(m, keyed))
  BY <1>3, BanAtProperties
<1>5. ok \in BOOLEAN /\ (ok => ~keyed /\ (m \in Members(l) => k # 0))
  OBVIOUS
<1>6. ~keyed => Argument(m, keyed) = m
  BY DEF Argument
<1> HIDE DEF k, l, ok
<1>7. /\ Chained(r, Mask \cup {Key})
      /\ ok /\ c \notin astray => RealBans(r, banned'[c])
  <2>1. CASE k = 0
    BY <1>2, <1>3, <1>5, <2>1 DEF RealBans
  <2>2. CASE k # 0
    <3>1. /\ Chained(r, Mask \cup {Key})
          /\ \A B : RealBans(l, B) => RealBans(r, B \ {l.items[k]})
      BY <1>3, <1>4, <2>2, BanRemoved
    <3> QED BY <1>2, <1>3, <1>4, <1>5, <1>6, <2>2, <3>1
  <2> QED BY <2>1, <2>2
<1>8. SetBans(c, r) \/ (UNCHANGED chans /\ r = BansOf(c))
  BY <1>0 DEF l
<1> HIDE DEF r
<1> QED BY <1>0, <1>2, <1>5, <1>7, <1>8, BanListKeeps

LEMMA BanReplyKeeps ==
    ASSUME IInv, NEW c \in Chan, NEW m \in Mask, BanReply(c, m)
    PROVE  IInv'
<1> DEFINE l == WithBan(BansOf(c), m)
           ok == m \in Members(BansOf(c)) => BanAt(BansOf(c), m) # 0
<1>0. /\ due = None /\ Bot \in on[c] /\ ChanAt(c) # 0 /\ m \in banned[c]
      /\ BanAt(BansOf(c), m) = 0
      /\ SetBans(c, l) /\ Noted(c, ok)
      /\ UNCHANGED <<world, members, topic, asked, running>> /\ banned' = banned
  BY DEF BanReply, BanUnknown, Known, Told, server
<1>1. banned' \in [Chan -> SUBSET Mask]
  BY <1>0 DEF IInv, TypeOK
<1>2. /\ Chained(BansOf(c), Mask \cup {Key})
      /\ c \notin astray => RealBans(BansOf(c), banned[c])
  BY <1>0, SettledView
<1>3. /\ Chained(l, Mask \cup {Key})
      /\ \A B : RealBans(BansOf(c), B) /\ m \notin Members(BansOf(c)) => RealBans(l, B \cup {m})
  BY <1>2, BanAdded
<1>4. ok \in BOOLEAN /\ (ok => m \notin Members(BansOf(c)))
  BY <1>0
<1> HIDE DEF l, ok
<1>5. ok /\ c \notin astray => RealBans(l, banned'[c])
  <2>1. banned[c] \cup {m} = banned[c]
    BY <1>0
  <2> QED BY <1>0, <1>2, <1>3, <1>4, <2>1
<1> QED BY <1>0, <1>1, <1>3, <1>4, <1>5, BanListKeeps

\* A ban from a script, which the server has not set yet.
LEMMA NewChanBanKeeps ==
    ASSUME IInv, NEW c \in Chan, NEW m \in Mask, NewChanBan(c, m)
    PROVE  IInv'
<1> DEFINE l == WithBan(BansOf(c), m)
<1>0. /\ due = None /\ ChanAt(c) # 0 /\ SetBans(c, l) /\ Noted(c, FALSE)
      /\ UNCHANGED <<world, members, topic, asked, running>> /\ banned' = banned
  BY DEF NewChanBan, server
<1>1. TypeOK /\ op[c] \subseteq on[c]
  BY DEF IInv, ViewOf
<1>2. Chained(BansOf(c), Mask \cup {Key})
  BY <1>0, <1>1, ChanAtProperties, RecordsAreSound DEF BansOf
<1>3. Chained(l, Mask \cup {Key})
  BY <1>2, BanAdded
<1> HIDE DEF l
<1>4. CASE Bot \in on[c]
  BY <1>0, <1>1, <1>3, <1>4, BanListKeeps DEF TypeOK
<1>5. CASE Bot \notin on[c]
  <2>1. PICK r : Written(c, r)
    BY <1>0, <1>1, <1>3, BansWritten DEF Written
  <2>2. /\ astray' = astray \cup {c} /\ missed' = missed
        /\ astray' \subseteq Chan /\ missed' \subseteq Chan /\ lapses' \in 0..MaxLapses
    BY <1>0, <1>1 DEF Noted, Lapse, TypeOK
  <2>3. OtherTypes' /\ OnlyOf(c) /\ due' = None /\ Bot \notin on'[c] /\ op'[c] \subseteq on'[c]
    BY <1>0, <1>1, <1>5, <2>2 DEF TypeOK, OtherTypes, OnlyOf, members, asked
  <2> QED BY <1>0, <2>1, <2>2, <2>3, DepartureKeeps DEF WrittenAtMost
<1> QED BY <1>4, <1>5

\* A record of c stands for the channel as before.
LEMMA PlaceIsKept ==
    ASSUME TypeOK, NEW c \in Chan, DOMAIN chans' = DOMAIN chans,
           \A k \in DOMAIN chans : chans'[k].name = chans[k].name
    PROVE  /\ ChanAt(c)' = ChanAt(c)
           /\ UsersOf(c)' = chans'[ChanAt(c)].users
           /\ BansOf(c)' = chans'[ChanAt(c)].bans
           /\ ChanAt(c) # 0 => ChanAt(c) \in DOMAIN chans /\ chans[ChanAt(c)].name = c
<1>1. ChanAt(c)' = ChanAt(c)
  BY SameNamesSamePlace
<1> QED BY <1>1, ChanAtProperties DEF UsersOf, BansOf

LEMMA TopicReplyKeeps ==
    ASSUME IInv, NEW c \in Chan, TopicReply(c)
    PROVE  IInv'
<1>0. /\ due = c /\ due' = c /\ untold' = FALSE /\ chans' = WithTopic(c, topic[c])
      /\ UNCHANGED <<world, on, op, banned, topic, running, astray, missed, lapses>>
  BY DEF TopicReply, Asked, server, members, history
<1>1. TypeOK /\ op[c] \subseteq on[c] /\ ViewOf(c) /\ topic[c] \in Topic \cup {None}
  BY DEF IInv, ViewOf, TypeOK
<1>2. OtherTypes' /\ OnlyOf(c)
  BY <1>0, <1>1 DEF TypeOK, OtherTypes, OnlyOf
<1>3. c # None
  OBVIOUS
<1>4. PICK r : /\ WrittenAtMost(c, r)
               /\ ChanAt(c) # 0 => /\ Written(c, r) /\ r.topic = topic[c]
                                   /\ r.users = UsersOf(c) /\ r.bans = BansOf(c)
  <2>1. CASE ChanAt(c) # 0
    BY <1>0, <1>1, <2>1, TopicWritten DEF WrittenAtMost
  <2>2. CASE ChanAt(c) = 0
    BY <1>0, <2>2 DEF WithTopic, WrittenAtMost
  <2> QED BY <2>1, <2>2
<1>5. /\ TypeOK' /\ NamelessAreBlank'
      /\ DOMAIN chans' = DOMAIN chans
      /\ \A k \in DOMAIN chans : chans'[k].name = chans[k].name
      /\ \A k \in DOMAIN chans : k # ChanAt(c) => chans'[k] = chans[k]
      /\ \A d \in Chan \ {c} : ViewOf(d)'
  BY <1>0, <1>2, <1>4, OthersAreKept
<1>6. /\ ChanAt(c)' = ChanAt(c)
      /\ UsersOf(c)' = chans'[ChanAt(c)].users
      /\ BansOf(c)' = chans'[ChanAt(c)].bans
      /\ ChanAt(c) # 0 => ChanAt(c) \in DOMAIN chans
  BY <1>1, <1>5, PlaceIsKept
<1>7. ChanAt(c) # 0 => chans'[ChanAt(c)] = r
  BY <1>4, <1>6 DEF Written
<1>8. ViewOf(c)'
  <2>1. ~Settled(c)'
    BY <1>0 DEF Settled
  <2>2. op'[c] \subseteq on'[c] /\ Bot \in on'[c]
    BY <1>0, <1>1 DEF ViewOf
  <2>3. ChanAt(c)' # 0 /\ topic'[c] # None => chans'[ChanAt(c)'].topic = topic'[c]
    BY <1>0, <1>4, <1>6, <1>7
  <2>4. c \notin astray' /\ ChanAt(c)' # 0 => UsersOf(c)' = JustBot /\ BansOf(c)' = EmptyList
    BY <1>0, <1>1, <1>4, <1>6, <1>7 DEF ViewOf
  <2>5. ASSUME c \notin astray', NEW k \in DOMAIN chans', chans'[k].name = c, ~InUse(c, k)'
        PROVE  Blank(chans'[k])
    <3>1. k # ChanAt(c) /\ ~InUse(c, k)
      BY <1>0, <1>6, <2>2, <2>5 DEF InUse
    <3> QED BY <1>0, <1>1, <1>5, <2>5, <3>1 DEF ViewOf
  <2> QED BY <2>1, <2>2, <2>3, <2>4, <2>5 DEF ViewOf
<1> QED BY <1>5, <1>8 DEF IInv

\* The names a server sends: each user once.
LEMMA OrderProperties ==
    ASSUME NEW s \in Orders
    PROVE  s \in Seq(Nick) /\ \A i, j \in DOMAIN s : s[i] = s[j] => i = j
<1>1. PICK S \in SUBSET Nick : s \in SetToSeqs(S)
  BY DEF Orders, SetToAllKPermutations
<1>2. IsFiniteSet(S)
  BY FS_Subset
<1>3. Cardinality(S) \in Nat
  BY <1>2, FS_CardinalityType
<1>4. /\ s \in [1..Cardinality(S) -> S]
      /\ \A i, j \in 1..Cardinality(S) : i # j => s[i] # s[j]
  BY <1>1 DEF SetToSeqs
<1> QED BY <1>3, <1>4

\* The names come to a channel that has a record.
LEMMA NamesReplyKeeps ==
    ASSUME IInv, NEW c \in Chan, NEW s \in Orders, NamesReply(c, s)
    PROVE  IInv'
<1> DEFINE old == chans[ChanAt(c)]
           l == UsersOf(c)
           new == Listed(l, s, op[c])
<1>0. /\ due = c /\ due' = None /\ untold = FALSE /\ ChanAt(c) # 0
      /\ ToSet(s) = on[c] /\ SetUsers(c, new)
      /\ UNCHANGED <<world, on, op, banned, topic, untold, running, astray, missed, lapses>>
  BY DEF NamesReply, NamesOf, Asked, server, members, history
<1>1. TypeOK /\ op[c] \subseteq on[c] /\ ViewOf(c) /\ Bot \in on[c]
  BY <1>0 DEF IInv, ViewOf
<1>2. OtherTypes' /\ OnlyOf(c)
  BY <1>0, <1>1 DEF TypeOK, OtherTypes, OnlyOf
<1>3. c # None
  OBVIOUS
<1>4. /\ s \in Seq(Nick) /\ \A i, j \in DOMAIN s : s[i] = s[j] => i = j
      /\ s # << >>
  BY <1>0, <1>1, OrderProperties, EmptySeq DEF ToSet
<1>5. Chained(l, User)
  BY <1>0, <1>1, ChanAtProperties, RecordsAreSound DEF UsersOf
<1>6. Chained(new, User) /\ ToSet(s) \subseteq NicksIn(new)
  BY <1>4, <1>5, NamesListed
<1>7. c \notin astray => Exact(new, on[c], op[c]) /\ BansOf(c) = EmptyList
  <2>1. c \notin astray => l = JustBot /\ BansOf(c) = EmptyList
    BY <1>0, <1>1 DEF ViewOf
  <2> HIDE DEF l
  <2>2. op[c] \in SUBSET ToSet(s)
    BY <1>0, <1>1
  <2> QED BY <1>0, <1>1, <1>4, <1>5, <2>1, <2>2, NamesListedFirst
<1>8. c \notin missed /\ topic[c] # None => old.topic = topic[c]
  BY <1>0, <1>1 DEF ViewOf
<1> HIDE DEF new, l, old
<1>9. PICK r : /\ Written(c, r)
               /\ r.users = new /\ r.bans = BansOf(c) /\ r.topic = old.topic
  BY <1>0, <1>1, <1>6, UsersWritten DEF Written, old
<1>10. /\ TypeOK' /\ NamelessAreBlank'
       /\ DOMAIN chans' = DOMAIN chans
       /\ \A k \in DOMAIN chans : chans'[k].name = chans[k].name
       /\ \A k \in DOMAIN chans : k # ChanAt(c) => chans'[k] = chans[k]
       /\ \A d \in Chan \ {c} : ViewOf(d)'
  BY <1>0, <1>2, <1>9, OthersAreKept DEF WrittenAtMost
<1>11. /\ ChanAt(c)' = ChanAt(c)
       /\ UsersOf(c)' = chans'[ChanAt(c)].users
       /\ BansOf(c)' = chans'[ChanAt(c)].bans
       /\ ChanAt(c) # 0 => ChanAt(c) \in DOMAIN chans
  BY <1>1, <1>10, PlaceIsKept
<1>12. chans'[ChanAt(c)] = r
  BY <1>0, <1>9, <1>11 DEF Written
<1>13. ViewOf(c)'
  <2>1. op'[c] \subseteq on'[c] /\ Bot \in on'[c] /\ due' # c
    BY <1>0, <1>1, <1>3
  <2>2. on'[c] \subseteq NicksIn(UsersOf(c)')
    BY <1>0, <1>6, <1>9, <1>11, <1>12
  <2>3. c \notin missed' /\ topic'[c] # None => chans'[ChanAt(c)'].topic = topic'[c]
    BY <1>0, <1>8, <1>9, <1>11, <1>12
  <2>4. c \notin astray' => Exact(UsersOf(c)', on'[c], op'[c]) /\ RealBans(BansOf(c)', banned'[c])
    BY <1>0, <1>7, <1>9, <1>11, <1>12, NoBansAreReal
  <2>5. ASSUME c \notin astray', NEW k \in DOMAIN chans', chans'[k].name = c, ~InUse(c, k)'
        PROVE  Blank(chans'[k])
    <3>1. k # ChanAt(c) /\ ~InUse(c, k)
      BY <1>0, <1>11, <2>1, <2>5 DEF InUse
    <3> QED BY <1>0, <1>1, <1>10, <2>5, <3>1 DEF ViewOf
  <2> QED BY <2>1, <2>2, <2>3, <2>4, <2>5 DEF ViewOf
<1> QED BY <1>10, <1>13 DEF IInv

\* The bot enters c.
LEMMA BotJoinsKeeps ==
    ASSUME IInv, NEW c \in Chan, NEW S \in SUBSET Nick, NEW O \in SUBSET (S \cup {Bot}),
           NEW B \in SUBSET Mask, NEW t \in Topic \cup {None}, BotJoins(c, S, O, B, t)
    PROVE  IInv'
<1>0. /\ due = None /\ due' = c /\ untold' = (t # None) /\ Bot \notin on[c]
      /\ on' = [on EXCEPT ![c] = S \cup {Bot}] /\ op' = [op EXCEPT ![c] = O]
      /\ banned' = [banned EXCEPT ![c] = B] /\ topic' = [topic EXCEPT ![c] = t]
      /\ NewJoin(c, Bot)
      /\ UNCHANGED <<world, running, astray, missed, lapses>>
  BY DEF BotJoins, history
<1>1. TypeOK /\ ViewOf(c)
  BY DEF IInv
<1>2. /\ on'[c] = S \cup {Bot} /\ op'[c] = O /\ topic'[c] = t
      /\ \A d \in Chan \ {c} : /\ on'[d] = on[d] /\ op'[d] = op[d]
                               /\ banned'[d] = banned[d] /\ topic'[d] = topic[d]
  BY <1>0, <1>1 DEF TypeOK
<1>3. OtherTypes' /\ OnlyOf(c)
  BY <1>0, <1>1, <1>2 DEF TypeOK, OtherTypes, OnlyOf
<1>4. c # None
  OBVIOUS
<1>5. ChanAt(c) # 0 => /\ ChanAt(c) \in DOMAIN chans /\ chans[ChanAt(c)].name = c
                       /\ Chained(UsersOf(c), User)
  BY <1>1, ChanAtProperties, RecordsAreSound DEF UsersOf
<1>6. c \notin astray /\ ChanAt(c) # 0 => UsersOf(c) = EmptyList /\ BansOf(c) = EmptyList
  BY <1>0, <1>1, <1>5 DEF ViewOf, InUse, Blank, UsersOf, BansOf
<1>7. UserAt(EmptyList, Bot) = 0
  BY EmptyIsChained, UserAtOfStranger DEF NicksIn
<1>8. ListAdd(EmptyList, NewUser(Bot, FALSE)) = JustBot
  BY DEF ListAdd, EmptyList, JustBot
<1>9. PICK r : /\ WrittenAtMost(c, r)
               /\ c \notin astray /\ ChanAt(c) # 0
                    => Written(c, r) /\ r.users = JustBot /\ r.bans = EmptyList
  <2>1. CASE UNCHANGED chans /\ (c \in astray \/ ChanAt(c) = 0)
    BY <2>1 DEF WrittenAtMost
  <2>2. CASE ChanAt(c) # 0 /\ SetUsers(c, ListAdd(UsersOf(c), NewUser(Bot, FALSE)))
    <3> DEFINE m == ListAdd(UsersOf(c), NewUser(Bot, FALSE))
    <3>1. NewUser(Bot, FALSE) \in User
      BY DEF NewUser, User
    <3>2. Chained(m, User) /\ SetUsers(c, m)
      BY <1>5, <2>2, <3>1, UserAdded
    <3> HIDE DEF m
    <3>3. PICK r : /\ Written(c, r)
                   /\ r.users = m /\ r.bans = BansOf(c)
      BY <1>1, <2>2, <3>2, UsersWritten DEF Written
    <3> QED BY <1>6, <1>8, <3>3 DEF WrittenAtMost, m
  <2> QED BY <1>0, <1>6, <1>7, <2>1, <2>2 DEF NewJoin
<1>10. /\ TypeOK' /\ NamelessAreBlank'
       /\ DOMAIN chans' = DOMAIN chans
       /\ \A k \in DOMAIN chans : chans'[k].name = chans[k].name
       /\ \A k \in DOMAIN chans : k # ChanAt(c) => chans'[k] = chans[k]
       /\ (\A d \in Chan \ {c} : (due' = d <=> due = d) /\ (due = d => untold' = untold))
                => \A d \in Chan \ {c} : ViewOf(d)'
  BY <1>3, <1>9, OthersAreKept
<1>11. \A d \in Chan \ {c} : ViewOf(d)'
  BY <1>0, <1>10
<1>12. /\ ChanAt(c)' = ChanAt(c)
       /\ UsersOf(c)' = chans'[ChanAt(c)].users
       /\ BansOf(c)' = chans'[ChanAt(c)].bans
  BY <1>1, <1>10, PlaceIsKept
<1>13. ViewOf(c)'
  <2>1. op'[c] \subseteq on'[c] /\ Bot \in on'[c] /\ ~Settled(c)'
    BY <1>0, <1>2 DEF Settled
  <2>2. untold' \/ topic'[c] = None
    BY <1>0, <1>2
  <2>3. c \notin astray' /\ ChanAt(c)' # 0 => UsersOf(c)' = JustBot /\ BansOf(c)' = EmptyList
    BY <1>0, <1>5, <1>9, <1>12 DEF Written
  <2>4. ASSUME c \notin astray', NEW k \in DOMAIN chans', chans'[k].name = c, ~InUse(c, k)'
        PROVE  Blank(chans'[k])
    <3>1. k # ChanAt(c) /\ ~InUse(c, k)
      BY <1>0, <1>12, <2>1, <2>4 DEF InUse
    <3> QED BY <1>0, <1>1, <1>10, <2>4, <3>1 DEF ViewOf
  <2> QED BY <1>0, <2>1, <2>2, <2>3, <2>4 DEF ViewOf
<1> QED BY <1>10, <1>11, <1>13 DEF IInv

\* The names come to a channel that has none: the record that was the last takes them, and a
\* record without a user is appended.
LEMMA NamesReplyUnknownKeeps ==
    ASSUME IInv, NEW c \in Chan, NEW s \in Orders, NamesReplyUnknown(c, s)
    PROVE  IInv'
<1> DEFINE last == Len(chans)
           l == chans[last].users
           new == Listed(l, s, op[c])
           lost == chans[last].name
<1>0. /\ due = c /\ due' = None /\ ChanAt(c) = 0 /\ ToSet(s) = on[c] /\ chans # << >>
      /\ chans' = WithRecord([chans EXCEPT ![last].users = new], c)
      /\ Lapse({c, lost} \cap Chan, {c})
      /\ UNCHANGED <<world, on, op, banned, topic, untold, running>>
  BY DEF NamesReplyUnknown, NamesOf, Asked, server, members
<1>1. TypeOK /\ op[c] \subseteq on[c] /\ Bot \in on[c]
  BY <1>0 DEF IInv, ViewOf
<1>2. /\ chans \in Seq(Record) /\ last \in Nat /\ last # 0
      /\ DOMAIN chans = 1..last /\ last \in DOMAIN chans
  BY <1>0, <1>1, EmptySeq DEF TypeOK
<1>3. s \in Seq(Nick) /\ s # << >>
  BY <1>0, <1>1, OrderProperties, EmptySeq DEF ToSet
<1>4. Chained(l, User) /\ Sound(chans[last])
  BY <1>1, <1>2, RecordsAreSound
<1>5. Chained(new, User) /\ NicksIn(l) \subseteq NicksIn(new)
  BY <1>3, <1>4, NamesListed
<1> HIDE DEF new
<1> DEFINE r == [chans[last] EXCEPT !.users = new]
           written == [chans EXCEPT ![last] = r]
<1>6. /\ r.name = lost /\ r.users = new /\ r.bans = chans[last].bans /\ r.topic = chans[last].topic
      /\ Sound(r)
  BY <1>4, <1>5 DEF Sound, Record, Chained
<1>7. /\ written \in Seq(Record) /\ Len(written) = last
      /\ \A k \in 1..last : written[k] = IF k = last THEN r ELSE chans[k]
  BY <1>2, <1>6 DEF Sound
<1>8. Sound(NewChannel(c)) /\ NewChannel(c).name = c
  <2>1. Chained(EmptyList, User) /\ Chained(EmptyList, Mask \cup {Key})
    BY EmptyIsChained
  <2> QED BY <2>1 DEF Sound, NewChannel, Record, Chained
<1>9. chans' = Append(written, NewChannel(c))
  BY <1>0 DEF WithRecord
<1> HIDE DEF r, written
<1>10. /\ chans' \in Seq(Record) /\ Len(chans') = last + 1
       /\ \A k \in 1..last : chans'[k] = written[k]
       /\ chans'[last + 1] = NewChannel(c)
  <2>1. NewChannel(c) \in Record
    BY <1>8 DEF Sound
  <2>2. Len(written) = last /\ written \in Seq(Record)
    BY <1>7
  <2> QED BY <1>2, <1>9, <2>1, <2>2, AppendProperties
<1>11. DOMAIN chans' = DOMAIN chans \cup {last + 1} /\ last + 1 \notin DOMAIN chans
  BY <1>2, <1>10
<1>12. \A k \in DOMAIN chans : chans'[k] = IF k = last THEN r ELSE chans[k]
  BY <1>2, <1>7, <1>10
<1>13. \A k \in DOMAIN chans' : Sound(chans'[k])
  BY <1>1, <1>2, <1>6, <1>8, <1>10, <1>11, <1>12, RecordsAreSound
<1>14. /\ astray' = astray \cup ({c, lost} \cap Chan) /\ missed' = missed \cup {c}
       /\ astray' \subseteq Chan /\ missed' \subseteq Chan /\ lapses' \in 0..MaxLapses
  BY <1>0, <1>1 DEF Lapse, TypeOK
<1>15. TypeOK'
  BY <1>0, <1>1, <1>10, <1>13, <1>14 DEF TypeOK, Sound
<1>16. NamelessAreBlank'
  BY <1>14 DEF NamelessAreBlank
<1>17. ViewOf(c)'
  <2>1. c # None /\ c \in missed' /\ c \in astray'
    BY <1>14
  <2> QED BY <1>0, <1>1, <2>1 DEF ViewOf
<1>18. ASSUME NEW d \in Chan \ {c}
       PROVE  ViewOf(d)'
  <2>0. ViewOf(d) /\ d # None
    BY DEF IInv
  <2>1. \A k \in DOMAIN chans : chans'[k].name = chans[k].name
    BY <1>6, <1>12
  <2>2. {k \in DOMAIN chans' : chans'[k].name = d} = {k \in DOMAIN chans : chans[k].name = d}
    BY <1>8, <1>10, <1>11, <2>1
  <2>3. ChanAt(d)' = ChanAt(d)
    BY <2>2 DEF ChanAt
  <2>4. ChanAt(d) # 0 => ChanAt(d) \in DOMAIN chans /\ chans[ChanAt(d)].name = d
    BY <1>1, ChanAtProperties
  <2>5. UsersOf(d)' = chans'[ChanAt(d)].users /\ BansOf(d)' = chans'[ChanAt(d)].bans
    BY <2>3 DEF UsersOf, BansOf
  <2>6. ChanAt(d) # 0 => /\ NicksIn(UsersOf(d)) \subseteq NicksIn(UsersOf(d)')
                         /\ chans'[ChanAt(d)].topic = chans[ChanAt(d)].topic
    BY <1>5, <1>6, <1>12, <2>4, <2>5 DEF UsersOf
  <2>7. d \notin astray' => \A k \in DOMAIN chans : chans[k].name = d => chans'[k] = chans[k]
    BY <1>12, <1>14
  <2>8. Settled(d)' => Settled(d) /\ ChanAt(d) # 0
    BY <1>0, <2>3 DEF Settled
  <2>9. /\ op'[d] \subseteq on'[d] /\ due' # d
        /\ on'[d] = on[d] /\ op'[d] = op[d] /\ banned'[d] = banned[d] /\ topic'[d] = topic[d]
    BY <1>0, <2>0 DEF ViewOf
  <2>10. d \notin missed' /\ Settled(d)' => on'[d] \subseteq NicksIn(UsersOf(d)')
    BY <1>14, <2>0, <2>6, <2>8, <2>9 DEF ViewOf
  <2>11. d \notin missed' /\ Bot \in on'[d] /\ ChanAt(d)' # 0 /\ topic'[d] # None
            => chans'[ChanAt(d)'].topic = topic'[d]
    BY <1>0, <1>14, <2>0, <2>3, <2>6, <2>9 DEF ViewOf
  <2>12. d \notin astray' /\ Settled(d)' => Exact(UsersOf(d)', on'[d], op'[d]) /\ RealBans(BansOf(d)', banned'[d])
    BY <1>14, <2>0, <2>4, <2>5, <2>7, <2>8, <2>9 DEF ViewOf, UsersOf, BansOf
  <2>13. ASSUME d \notin astray', NEW k \in DOMAIN chans', chans'[k].name = d, ~InUse(d, k)'
         PROVE  Blank(chans'[k])
    <3>1. k \in DOMAIN chans /\ chans[k].name = d
      BY <2>2, <2>13
    <3>2. ~InUse(d, k)
      BY <2>3, <2>9, <2>13 DEF InUse
    <3> QED BY <1>14, <2>0, <2>7, <2>13, <3>1, <3>2 DEF ViewOf
  <2> QED BY <2>9, <2>10, <2>11, <2>12, <2>13 DEF ViewOf
<1> QED BY <1>15, <1>16, <1>17, <1>18 DEF IInv

\* trigger_match runs nothing: the record stays.
LEMMA UserQuitsKeeps ==
    ASSUME IInv, NEW n \in Nick, UserQuits(n)
    PROVE  IInv'
<1> DEFINE A == {c \in Chan : n \in on[c]}
<1>0. /\ due = None /\ due' = None /\ n # Bot
      /\ on' = [c \in Chan |-> on[c] \ {n}] /\ op' = [c \in Chan |-> op[c] \ {n}]
      /\ Lapse(A, {})
      /\ UNCHANGED <<world, banned, topic, chans, untold, running>>
  BY DEF UserQuits, asked
<1>1. TypeOK /\ NamelessAreBlank /\ \A c \in Chan : ViewOf(c)
  BY DEF IInv
<1>2. /\ astray' = astray \cup A /\ missed' = missed
      /\ astray' \subseteq Chan /\ missed' \subseteq Chan /\ lapses' \in 0..MaxLapses
  BY <1>0, <1>1 DEF Lapse, TypeOK
<1>3. TypeOK'
  BY <1>0, <1>1, <1>2 DEF TypeOK
<1>4. NamelessAreBlank'
  BY <1>0, <1>1, <1>2 DEF NamelessAreBlank
<1>5. ASSUME NEW c \in Chan
      PROVE  ViewOf(c)'
  <2>1. /\ on'[c] = on[c] \ {n} /\ op'[c] = op[c] \ {n} /\ op[c] \subseteq on[c]
        /\ banned'[c] = banned[c] /\ topic'[c] = topic[c] /\ c # None
    BY <1>0, <1>1 DEF ViewOf
  <2>2. astray \subseteq astray' /\ missed \subseteq missed'
    BY <1>2
  <2>3. CASE n \notin on[c]
    <3>1. Untouched(c)
      BY <1>0, <2>1, <2>3 DEF Untouched
    <3> QED BY <1>0, <1>1, <2>2, <3>1, ViewIsKept
  <2>4. CASE n \in on[c] /\ Bot \notin on[c]
    BY <1>0, <1>2, <2>1, <2>4, ViewOfAbsent
  <2>5. CASE n \in on[c] /\ Bot \in on[c]
    <3>1. c \in astray'
      BY <1>2, <2>5
    <3>2. ChanAt(c) # 0 => /\ c \notin missed' => on'[c] \subseteq NicksIn(chans'[ChanAt(c)].users)
                           /\ c \notin missed' /\ topic'[c] # None => chans'[ChanAt(c)].topic = topic'[c]
      BY <1>0, <1>2, <2>1, <2>5, SettledView
    <3> QED BY <1>0, <1>1, <2>1, <2>2, <2>5, <3>1, <3>2, ViewIsUpdated
  <2> QED BY <2>3, <2>4, <2>5
<1> QED BY <1>3, <1>4, <1>5 DEF IInv

\* troll_trig_update_nick: a record that is blank has no node of the old nick.
LEMMA UserRenamesKeeps ==
    ASSUME IInv, NEW n \in Nick, NEW m \in Nick, UserRenames(n, m)
    PROVE  IInv'
<1> DEFINE M == {c \in Chan : n \in on[c] /\ ChanAt(c) # 0 /\ UserAt(UsersOf(c), n) = 0}
           renamed(k) == RenamedIn(chans[k].users, n, m)
<1>0. /\ due = None /\ due' = None /\ n # Bot /\ m # Bot /\ \A c \in Chan : m \notin on[c]
      /\ on' = [c \in Chan |-> Renamed(on[c], n, m)]
      /\ op' = [c \in Chan |-> Renamed(op[c], n, m)]
      /\ chans' = [k \in DOMAIN chans |-> [chans[k] EXCEPT !.users = renamed(k)]]
      /\ Lapse(M, M)
      /\ UNCHANGED <<world, banned, topic, untold, running>>
  BY DEF UserRenames, asked
<1>1. TypeOK /\ NamelessAreBlank /\ \A c \in Chan : ViewOf(c)
  BY DEF IInv
<1>2. /\ astray' = astray \cup M /\ missed' = missed \cup M
      /\ astray' \subseteq Chan /\ missed' \subseteq Chan /\ lapses' \in 0..MaxLapses
  BY <1>0, <1>1 DEF Lapse, TypeOK
<1> HIDE DEF M
<1>3. ASSUME NEW k \in DOMAIN chans
      PROVE  /\ chans'[k].name = chans[k].name /\ chans'[k].users = renamed(k)
             /\ chans'[k].bans = chans[k].bans /\ chans'[k].topic = chans[k].topic
             /\ Sound(chans'[k])
             /\ Blank(chans[k]) => Blank(chans'[k])
  <2> DEFINE l == renamed(k)
  <2>1. Sound(chans[k]) /\ Chained(chans[k].users, User)
    BY <1>1, RecordsAreSound
  <2>2. Chained(l, User) /\ (n \notin NicksIn(chans[k].users) => l = chans[k].users)
    BY <2>1, UserRenamed
  <2>3. chans'[k] = [chans[k] EXCEPT !.users = l]
    BY <1>0
  <2> HIDE DEF l
  <2>4. /\ chans'[k].name = chans[k].name /\ chans'[k].users = l
        /\ chans'[k].bans = chans[k].bans /\ chans'[k].topic = chans[k].topic
        /\ chans'[k] \in Record
    BY <2>1, <2>2, <2>3 DEF Sound, Record, Chained
  <2>5. Sound(chans'[k])
    BY <2>1, <2>2, <2>4 DEF Sound, Chained
  <2>6. Blank(chans[k]) => n \notin NicksIn(chans[k].users)
    BY EmptyIsChained DEF Blank, NicksIn
  <2> QED BY <2>2, <2>4, <2>5, <2>6 DEF Blank, l
<1> HIDE DEF renamed
<1>4. DOMAIN chans' = DOMAIN chans /\ chans' = [k \in DOMAIN chans |-> chans'[k]]
  BY <1>0
<1>5. TypeOK'
  <2>1. DOMAIN chans = 1..Len(chans) /\ Len(chans) \in Nat
    BY <1>1, EmptySeq DEF TypeOK
  <2>2. /\ chans' \in Seq(Record)
        /\ \A k \in DOMAIN chans' : PointsInto(chans'[k].users) /\ PointsInto(chans'[k].bans)
    BY <1>3, <1>4, <2>1, RecordsTyped
  <2>3. /\ on' \in [Chan -> SUBSET Nick] /\ op' \in [Chan -> SUBSET Nick]
    BY <1>0, <1>1 DEF TypeOK, Renamed
  <2> QED BY <1>0, <1>1, <1>2, <2>2, <2>3 DEF TypeOK
<1>6. NamelessAreBlank'
  BY <1>1, <1>2, <1>3, <1>4, NamelessStayBlank
<1>7. ASSUME NEW c \in Chan
      PROVE  ViewOf(c)'
  <2>1. /\ on'[c] = Renamed(on[c], n, m) /\ op'[c] = Renamed(op[c], n, m)
        /\ op[c] \subseteq on[c] /\ ViewOf(c)
        /\ banned'[c] = banned[c] /\ topic'[c] = topic[c] /\ c # None
    BY <1>0, <1>1 DEF ViewOf
  <2>2. op'[c] \subseteq on'[c] /\ (Bot \in on'[c] <=> Bot \in on[c])
    BY <1>0, <2>1 DEF Renamed
  <2>3. CASE Bot \notin on[c]
    <3>1. ASSUME c \notin astray', NEW k \in DOMAIN chans', chans'[k].name = c
          PROVE  Blank(chans'[k])
      BY <1>2, <1>3, <1>4, <2>1, <2>3, <3>1 DEF ViewOf, InUse
    <3> QED BY <1>0, <2>1, <2>2, <2>3, <3>1, ViewOfAbsent
  <2>4. CASE Bot \in on[c]
    <3>1. ASSUME ChanAt(c) # 0
          PROVE  /\ c \notin missed' => on'[c] \subseteq NicksIn(chans'[ChanAt(c)].users)
                 /\ c \notin missed' /\ topic'[c] # None => chans'[ChanAt(c)].topic = topic'[c]
                 /\ c \notin astray' => /\ Exact(chans'[ChanAt(c)].users, on'[c], op'[c])
                                        /\ RealBans(chans'[ChanAt(c)].bans, banned'[c])
      <4> DEFINE l == UsersOf(c)
      <4>1. /\ Chained(l, User) /\ chans[ChanAt(c)].bans = BansOf(c)
            /\ c \notin missed => on[c] \subseteq NicksIn(l)
            /\ c \notin missed /\ topic[c] # None => chans[ChanAt(c)].topic = topic[c]
            /\ c \notin astray => Exact(l, on[c], op[c]) /\ RealBans(BansOf(c), banned[c])
        BY <1>0, <2>4, <3>1, SettledView
      <4>2. ChanAt(c) \in DOMAIN chans
        BY <1>1, <3>1, ChanAtProperties
      <4>3. chans'[ChanAt(c)].users = RenamedIn(l, n, m)
        BY <1>3, <4>2 DEF renamed, UsersOf
      <4>4. c \notin M => (n \in on[c] => UserAt(l, n) # 0)
        BY <3>1 DEF M
      <4> HIDE DEF l
      <4>5. /\ NicksIn(l) \ {n} \subseteq NicksIn(RenamedIn(l, n, m))
            /\ UserAt(l, n) # 0 => m \in NicksIn(RenamedIn(l, n, m))
            /\ \A S, O : Exact(l, S, O) /\ m \notin S /\ O \subseteq S /\ (n \in S => UserAt(l, n) # 0)
                           => Exact(RenamedIn(l, n, m), Renamed(S, n, m), Renamed(O, n, m))
            /\ n \notin NicksIn(l) => RenamedIn(l, n, m) = l
        BY <4>1, UserRenamed
      <4>6. ASSUME c \notin missed', NEW x \in on'[c]
            PROVE  x \in NicksIn(RenamedIn(l, n, m))
        <5>1. c \notin missed /\ c \notin M
          BY <1>2, <4>6
        <5>2. CASE n \in on[c]
          <6>1. x = m \/ x \in on[c] \ {n}
            BY <2>1, <4>6, <5>2 DEF Renamed
          <6> QED BY <4>1, <4>4, <4>5, <5>1, <5>2, <6>1
        <5>3. CASE n \notin on[c]
          <6>1. x \in on[c] /\ x # n
            BY <2>1, <4>6, <5>3 DEF Renamed
          <6> QED BY <4>1, <4>5, <5>1, <6>1
        <5> QED BY <5>2, <5>3
      <4>7. c \notin astray' => Exact(RenamedIn(l, n, m), on'[c], op'[c])
        <5> SUFFICES ASSUME c \notin astray' PROVE Exact(RenamedIn(l, n, m), on'[c], op'[c])
          OBVIOUS
        <5>1. c \notin astray /\ c \notin M /\ m \notin on[c]
          BY <1>0, <1>2
        <5> QED BY <2>1, <4>1, <4>4, <4>5, <5>1
      <4> QED BY <1>2, <1>3, <2>1, <4>1, <4>2, <4>3, <4>6, <4>7
    <3>2. \A k \in DOMAIN chans : /\ chans'[k].name = c <=> chans[k].name = c
                                  /\ k # ChanAt(c) /\ Blank(chans[k]) => Blank(chans'[k])
      BY <1>3
    <3>3. astray \subseteq astray'
      BY <1>2
    <3> QED BY <1>0, <1>1, <1>4, <2>1, <2>2, <2>4, <3>1, <3>2, <3>3, ViewIsUpdated
  <2> QED BY <2>3, <2>4
<1> QED BY <1>5, <1>6, <1>7 DEF IInv

\* troll_trig_channel_redirect: the record that loses its name was not in use.
LEMMA RedirectedKeeps ==
    ASSUME IInv, NEW to \in Chan, Redirected(to)
    PROVE  IInv'
<1> DEFINE a == ChanAt(to)
           r == [chans[a] EXCEPT !.name = None]
<1>0. /\ due = None /\ due' = None /\ a # 0 /\ Bot \notin on[to]
      /\ chans' = [chans EXCEPT ![a] = r]
      /\ UNCHANGED <<world, on, op, banned, topic, untold, running, astray, missed, lapses>>
  BY DEF Redirected, server, members, history, asked
<1>1. TypeOK /\ NamelessAreBlank /\ \A c \in Chan : ViewOf(c)
  BY DEF IInv
<1>2. a \in DOMAIN chans /\ chans[a].name = to
  BY <1>0, <1>1, ChanAtProperties
<1>3. Sound(chans[a])
  BY <1>1, <1>2, RecordsAreSound
<1>4. /\ Sound(r) /\ r.name = None /\ r.users = chans[a].users /\ r.bans = chans[a].bans
  BY <1>3 DEF Sound, Record
<1> HIDE DEF r, a
<1>5. /\ chans' \in Seq(Record) /\ DOMAIN chans' = DOMAIN chans
      /\ \A k \in DOMAIN chans' : PointsInto(chans'[k].users) /\ PointsInto(chans'[k].bans)
      /\ \A k \in DOMAIN chans : chans'[k] = IF k = a THEN r ELSE chans[k]
  BY <1>0, <1>1, <1>2, <1>4, RecordWritten
<1>6. TypeOK'
  BY <1>0, <1>1, <1>5 DEF TypeOK
<1>7. to \notin astray => \A k \in DOMAIN chans : chans[k].name = to => Blank(chans[k])
  BY <1>0, <1>1 DEF ViewOf, InUse
<1>8. NamelessAreBlank'
  BY <1>0, <1>1, <1>2, <1>4, <1>5, <1>7 DEF NamelessAreBlank, Blank
<1>9. ViewOf(to)'
  <2>1. op'[to] \subseteq on'[to] /\ Bot \notin on'[to] /\ due' # to
    BY <1>0, <1>1 DEF ViewOf
  <2>2. to \notin astray' => \A k \in DOMAIN chans' : chans'[k].name = to => Blank(chans'[k])
    BY <1>0, <1>4, <1>5, <1>7
  <2> QED BY <2>1, <2>2, ViewOfAbsent
<1>10. ASSUME NEW c \in Chan \ {to}
       PROVE  ViewOf(c)'
  <2>1. c # None
    OBVIOUS
  <2>2. Untouched(c)
    BY <1>0, <1>2, <1>4, <1>5, <2>1 DEF Untouched
  <2> QED BY <1>0, <1>1, <2>2, ViewIsKept
<1> QED BY <1>6, <1>8, <1>9, <1>10 DEF IInv

\* A step that changes none of it, of which Crash is one.
LEMMA NothingSeenKeeps ==
    ASSUME IInv, UNCHANGED <<server, chans, asked, history>>, running' \in BOOLEAN
    PROVE  IInv'
<1>0. UNCHANGED <<world, on, op, banned, topic, chans, due, untold, astray, missed, lapses>>
  BY DEF server, members, asked, history
<1>1. TypeOK /\ NamelessAreBlank /\ \A c \in Chan : ViewOf(c)
  BY DEF IInv
<1>2. TypeOK'
  BY <1>0, <1>1 DEF TypeOK
<1>3. NamelessAreBlank'
  BY <1>0, <1>1 DEF NamelessAreBlank
<1>4. ASSUME NEW c \in Chan PROVE ViewOf(c)'
  <2>1. Untouched(c)
    BY <1>0 DEF Untouched
  <2> QED BY <1>0, <1>1, <2>1, ViewIsKept
<1> QED BY <1>2, <1>3, <1>4 DEF IInv
-----------------------------------------------------------------------------
\* The inductive invariant.

LEMMA WorldIsSound ==
    ASSUME world \in World
    PROVE  /\ world.configured \in Seq(Chan)
           /\ world.users \subseteq Nick /\ world.masks \subseteq Mask /\ world.topics \subseteq Topic
<1>1. world \in [configured : Seq(Chan), users : SUBSET Nick,
                 masks : SUBSET Mask, topics : SUBSET Topic]
  OBVIOUS
<1> QED BY <1>1

LEMMA InitHolds ==
    ASSUME Init
    PROVE  IInv
<1> DEFINE s == world.configured
<1>1. s \in Seq(Chan)
  BY WorldIsSound DEF Init
<1>2. DOMAIN s = 1..Len(s) /\ Len(s) \in Nat /\ \A k \in DOMAIN s : s[k] \in Chan
  BY <1>1, ElementOfSeq
<1>3. chans = [k \in DOMAIN s |-> NewChannel(s[k])]
  BY DEF Init
<1> HIDE DEF s
<1>4. \A c \in Chan : NewChannel(c) \in Record /\ NewChannel(c).name = c /\ Blank(NewChannel(c))
  <2>1. Chained(EmptyList, User) /\ Chained(EmptyList, Mask \cup {Key})
    BY EmptyIsChained
  <2> QED BY <2>1 DEF NewChannel, Record, Chained, Blank
<1>5. PointsInto(EmptyList)
  BY EmptyIsChained DEF Chained
<1>6. \A k \in DOMAIN chans : chans[k] \in Record /\ chans[k].name \in Chan /\ Blank(chans[k])
  BY <1>2, <1>3, <1>4
<1>7. chans \in Seq(Record)
  <2>1. DOMAIN chans = 1..Len(s)
    BY <1>2, <1>3
  <2> QED BY <1>2, <1>3, <1>6, <2>1
<1>8. \A k \in DOMAIN chans : PointsInto(chans[k].users) /\ PointsInto(chans[k].bans)
  BY <1>5, <1>6 DEF Blank
<1>9. TypeOK
  <2>1. /\ on \in [Chan -> SUBSET Nick] /\ op \in [Chan -> SUBSET Nick]
        /\ banned \in [Chan -> SUBSET Mask] /\ topic \in [Chan -> Topic \cup {None}]
    BY DEF Init
  <2>2. /\ world \in World /\ due \in Chan \cup {None} /\ untold \in BOOLEAN /\ running \in BOOLEAN
        /\ astray \subseteq Chan /\ missed \subseteq Chan
    BY DEF Init
  <2>3. lapses \in 0..MaxLapses
    BY DEF Init
  <2> QED BY <1>7, <1>8, <2>1, <2>2, <2>3 DEF TypeOK
<1>10. NamelessAreBlank
  BY <1>6 DEF NamelessAreBlank
<1>11. ASSUME NEW c \in Chan PROVE ViewOf(c)
  <2>1. on[c] = {} /\ op[c] = {} /\ due # c
    BY DEF Init
  <2> QED BY <1>6, <2>1 DEF ViewOf, Settled
<1> QED BY <1>9, <1>10, <1>11 DEF IInv

LEMMA NextKeeps ==
    ASSUME IInv, [Next]_vars
    PROVE  IInv'
<1>1. ASSUME NEW c \in Chan, NEW n \in Nick,
             \/ UserJoins(c, n) \/ WhoReply(c, n)
             \/ UserParts(c, n) \/ UserPartsSilently(c, n) \/ UserKicked(c, n)
             \/ \E keyed \in BOOLEAN : OpChanges(c, n, keyed)
      PROVE  IInv'
  BY <1>1, UserJoinsKeeps, WhoReplyKeeps, LeavingKeeps, UserPartsSilentlyKeeps, OpChangesKeeps
<1>2. ASSUME NEW c \in Chan, BotEnters(c)
      PROVE  IInv'
  <2>1. /\ world.users \subseteq Nick /\ world.masks \subseteq Mask /\ world.topics \subseteq Topic
    BY WorldIsSound DEF IInv, TypeOK
  <2>2. PICK S \in SUBSET (world.users \ {Bot}) : \E O \in SUBSET (S \cup {Bot}) :
          \E B \in SUBSET world.masks, t \in world.topics \cup {None} : BotJoins(c, S, O, B, t)
    BY <1>2 DEF BotEnters
  <2>3. PICK O \in SUBSET (S \cup {Bot}), B \in SUBSET world.masks, t \in world.topics \cup {None} :
          BotJoins(c, S, O, B, t)
    BY <2>2
  <2> QED BY <2>1, <2>3, BotJoinsKeeps
<1>3. ASSUME NEW c \in Chan, TopicReply(c) \/ \E t \in Topic \cup {None} : TopicChanges(c, t)
      PROVE  IInv'
  BY <1>3, TopicReplyKeeps, TopicChangesKeeps
<1>4. ASSUME NEW c \in Chan, NEW s \in Orders, NamesReply(c, s) \/ NamesReplyUnknown(c, s)
      PROVE  IInv'
  BY <1>4, NamesReplyKeeps, NamesReplyUnknownKeeps
<1>5. ASSUME NEW c \in Chan, NEW m \in Mask,
             \/ BanReply(c, m) \/ NewChanBan(c, m)
             \/ \E keyed \in BOOLEAN : BanSet(c, m, keyed) \/ BanLifted(c, m, keyed)
      PROVE  IInv'
  BY <1>5, BanReplyKeeps, NewChanBanKeeps, BanSetKeeps, BanLiftedKeeps
<1>6. ASSUME NEW c \in Chan, Redirected(c) PROVE IInv'
  BY <1>6, RedirectedKeeps
<1>7. ASSUME NEW c \in Chan, Crash(c) PROVE IInv'
  BY <1>7, NothingSeenKeeps DEF Crash
<1>8. ASSUME NEW n \in Nick, NEW m \in Nick, UserRenames(n, m) PROVE IInv'
  BY <1>8, UserRenamesKeeps
<1>9. ASSUME NEW n \in Nick, UserQuits(n) PROVE IInv'
  BY <1>9, UserQuitsKeeps
<1>10. ASSUME Disconnected PROVE IInv'
  BY <1>10, NothingSeenKeeps DEF Disconnected
<1>11. ASSUME UNCHANGED vars PROVE IInv'
  BY <1>11, NothingSeenKeeps DEF vars, IInv, TypeOK
<1> QED BY <1>1, <1>2, <1>3, <1>4, <1>5, <1>6, <1>7, <1>8, <1>9, <1>10, <1>11 DEF Next

LEMMA IInvHolds == Spec => []IInv
<1>1. Init => IInv
  BY InitHolds
<1>2. IInv /\ [Next]_vars => IInv'
  BY NextKeeps
<1> QED BY <1>1, <1>2, PTL DEF Spec
-----------------------------------------------------------------------------
\* No handler leaves a record of net->chans with a kept pointer outside of its list, or one
\* that is NULL while the list has nodes: channel_user_del and channel_ban_del move it.
THEOREM ChannelTypes == Spec => []TypeOK
<1>1. IInv => TypeOK
  BY DEF IInv
<1> QED BY <1>1, IInvHolds, PTL

\* Unless it has missed a new nick, everyone in a channel with the bot has a record there,
\* through walks that start behind the front of the list, stale records and second records
\* of a nick (new_join, troll_parse_who, new_part, channel_list_populate, troll_trig_update_nick).
THEOREM EveryoneHasARecord == Spec => []NobodyIsOverlooked
<1>1. IInv => NobodyIsOverlooked
  BY DEF IInv, ViewOf, NobodyIsOverlooked
<1> QED BY <1>1, IInvHolds, PTL

\* While no event of a channel was missed, its list has one record for each user of the
\* channel, in whatever order the names came, with o where the server has it.
THEOREM ViewStaysExact == Spec => []ViewIsExact
<1>1. IInv => ViewIsExact
  BY DEF IInv, ViewOf, ViewIsExact, Exact
<1> QED BY <1>1, IInvHolds, PTL

\* channel_ban_add, channel_ban_del and channel_banlist_add never list a mask twice or one
\* that is not banned, in such a channel.
THEOREM BansStayReal == Spec => []BansAreReal
<1>1. IInv => BansAreReal
  BY DEF IInv, ViewOf, BansAreReal, RealBans
<1> QED BY <1>1, IInvHolds, PTL

\* channel_set_topic writes the topic into the record that is in use, and none is lost.
THEOREM TopicStaysTrue == Spec => []TopicIsTrue
<1>1. IInv => TopicIsTrue
  BY DEF IInv, ViewOf, TopicIsTrue, Settled
<1> QED BY <1>1, IInvHolds, PTL

\* What isop, onchan, ischanban, chanbans and topic find is in the lists.
LEMMA FoundIsListed ==
    ASSUME NEW r, Sound(r), NEW n
    PROVE  /\ Finds(r, n) => n \in NicksIn(r.users)
           /\ HasOp(r, n) => n \in OpsIn(r.users)
           /\ BanAt(r.bans, n) # 0 => n \in Members(r.bans)
           /\ ToSet(Forward(r.bans)) \subseteq Members(r.bans)
<1>1. Chained(r.users, User) /\ Chained(r.bans, Mask \cup {Key})
  BY DEF Sound, Record, Chained
<1>2. Finds(r, n) => n \in NicksIn(r.users)
  BY <1>1, UserAtOfStranger DEF Finds
<1>3. HasOp(r, n) => n \in OpsIn(r.users)
  BY <1>1, UserAtProperties DEF HasOp, Finds, OpsIn
<1>4. BanAt(r.bans, n) # 0 => n \in Members(r.bans)
  BY <1>1, BanAtProperties DEF Members, ToSet
<1>5. ToSet(Forward(r.bans)) \subseteq Members(r.bans)
  BY <1>1, ChainedBasics, ForwardElements
<1> QED BY <1>2, <1>3, <1>4, <1>5

\* While nothing was missed anywhere, only the record of a channel the bot is in lists anyone.
LEMMA ListedIsThere ==
    ASSUME IInv, astray = {}, due = None, NEW k \in DOMAIN chans, NEW n
    PROVE  /\ Finds(chans[k], n) => \E c \in Chan : n \in on[c]
           /\ HasOp(chans[k], n) => \E c \in Chan : n \in op[c]
<1> DEFINE r == chans[k]
           c == chans[k].name
<1>1. TypeOK /\ NamelessAreBlank
  BY DEF IInv
<1>2. Sound(r) /\ c \in Chan \cup {None}
  BY <1>1, RecordsAreSound
<1>3. HasOp(r, n) => Finds(r, n)
  BY DEF HasOp
<1>4. CASE Blank(r)
  <2>1. n \notin NicksIn(r.users)
    BY <1>4, EmptyIsChained DEF Blank, NicksIn
  <2> QED BY <1>2, <1>3, <2>1, FoundIsListed
<1>5. CASE ~Blank(r)
  <2>1. c \in Chan
    BY <1>1, <1>2, <1>5 DEF NamelessAreBlank
  <2>2. ViewOf(c)
    BY <2>1 DEF IInv
  <2>3. InUse(c, k)
    BY <1>5, <2>1, <2>2 DEF ViewOf
  <2>4. ChanAt(c) # 0 /\ UsersOf(c) = r.users /\ Bot \in on[c]
    BY <1>1, <2>1, <2>3, RecordsAreSound DEF InUse, UsersOf
  <2>5. c \notin astray /\ Settled(c)
    BY <2>1, <2>4 DEF Settled
  <2>6. Exact(r.users, on[c], op[c])
    BY <2>2, <2>4, <2>5 DEF ViewOf
  <2>7. (Finds(r, n) => n \in on[c]) /\ (HasOp(r, n) => n \in op[c])
    <3>1. /\ Finds(r, n) => n \in NicksIn(r.users)
          /\ HasOp(r, n) => n \in OpsIn(r.users)
      BY <1>2, FoundIsListed
    <3> QED BY <2>6, <3>1 DEF Exact
  <2> HIDE DEF r, c
  <2>8. (Finds(r, n) => \E d \in Chan : n \in on[d]) /\ (HasOp(r, n) => \E d \in Chan : n \in op[d])
    BY <2>1, <2>7
  <2> QED BY <2>8 DEF r
<1> QED BY <1>4, <1>5

\* What isop, onchan, ischanban, isban, chanbans and topic tell a script of a channel of which
\* no event was missed is so at the server, and of the whole network while none was.
THEOREM ScriptsAreToldTheTruth == Spec => []AnswersAreTrue
<1>1. ASSUME IInv PROVE AnswersAreTrue
  <2>1. ASSUME NEW c \in Chan \ astray, Settled(c)
        PROVE  /\ \A n \in Nick : (OnChan(n, c) => n \in on[c]) /\ (IsOp(n, c) => n \in op[c])
               /\ \A m \in Mask : IsChanBan(m, c) \/ HasBan(m, c) => m \in banned[c]
               /\ ToSet(ChanBans(c)) \subseteq banned[c]
               /\ c \notin missed /\ topic[c] # None => TopicTold(c) = topic[c]
    <3> DEFINE r == chans[ChanAt(c)]
    <3>1. c # None /\ TypeOK /\ ViewOf(c) /\ ChanAt(c) # 0 /\ Bot \in on[c]
      BY <1>1, <2>1 DEF IInv, Settled
    <3>2. Sound(r)
      BY <3>1, ChanAtProperties, RecordsAreSound
    <3>3. Exact(r.users, on[c], op[c]) /\ RealBans(r.bans, banned[c])
      BY <2>1, <3>1 DEF ViewOf, UsersOf, BansOf
    <3>4. c \notin missed /\ topic[c] # None => r.topic = topic[c]
      BY <2>1, <3>1 DEF ViewOf, Settled
    <3>5. Asking(c) = {r}
      BY <3>1 DEF Asking
    <3> HIDE DEF r
    <3>6. ASSUME NEW n \in Nick PROVE (OnChan(n, c) => n \in on[c]) /\ (IsOp(n, c) => n \in op[c])
      <4>1. /\ Finds(r, n) => n \in NicksIn(r.users)
            /\ HasOp(r, n) => n \in OpsIn(r.users)
        BY <3>2, FoundIsListed
      <4> QED BY <3>3, <3>5, <4>1 DEF OnChan, IsOp, Exact
    <3>7. \A m : IsChanBan(m, c) \/ HasBan(m, c) => m \in banned[c]
      BY <3>2, <3>3, <3>5, FoundIsListed DEF IsChanBan, HasBan, RealBans
    <3>8. ToSet(ChanBans(c)) \subseteq banned[c]
      BY <3>1, <3>2, <3>3, FoundIsListed DEF ChanBans, RealBans, BansOf, r
    <3> QED BY <3>1, <3>4, <3>6, <3>7, <3>8 DEF TopicTold, r
  <2>2. ASSUME astray = {}, due = None, NEW n \in Nick
        PROVE  /\ OnChan(n, None) => \E c \in Chan : n \in on[c]
               /\ IsOp(n, None) => \E c \in Chan : n \in op[c]
    <3>1. \A r \in Asking(None) : \E k \in DOMAIN chans : r = chans[k]
      BY DEF Asking, ToSet
    <3>2. \A k \in DOMAIN chans : /\ Finds(chans[k], n) => \E c \in Chan : n \in on[c]
                                  /\ HasOp(chans[k], n) => \E c \in Chan : n \in op[c]
      BY <1>1, <2>2, ListedIsThere
    <3> QED BY <3>1, <3>2 DEF OnChan, IsOp
  <2> QED BY <2>1, <2>2 DEF AnswersAreTrue, BotOnChan, BotIsOp
<1> QED BY <1>1, IInvHolds, PTL
-----------------------------------------------------------------------------
\* The channel file.

\* The records the configuration made stay in front, in order; one may lose its name.
ConfiguredStay ==
    /\ Len(world.configured) <= Len(chans)
    /\ \A k \in DOMAIN world.configured : chans[k].name \in {world.configured[k], None}

\* A channel the bot is in has a record once its names have come.
OneIsThere == \A c \in Chan : Bot \in on[c] /\ due # c => ChanAt(c) # 0

\* Most handlers leave the names alone.
NamesStay ==
    DOMAIN chans' = DOMAIN chans /\ \A k \in DOMAIN chans : chans'[k].name = chans[k].name

\* They write one part of one record at most.
LEMMA PartWritten ==
    ASSUME TypeOK, NEW k, NEW x,
           \/ UNCHANGED chans
           \/ chans' = [chans EXCEPT ![k].users = x]
           \/ chans' = [chans EXCEPT ![k].bans = x]
           \/ chans' = [chans EXCEPT ![k].topic = x]
    PROVE  NamesStay
<1>1. \A j \in DOMAIN chans : chans[j] \in Record
  BY RecordsAreSound DEF Sound
<1>2. DOMAIN chans' = DOMAIN chans
  OBVIOUS
<1>3. ASSUME NEW j \in DOMAIN chans PROVE chans'[j].name = chans[j].name
  <2>1. CASE UNCHANGED chans \/ j # k
    BY <2>1
  <2>2. CASE j = k /\ chans' = [chans EXCEPT ![k].users = x]
    BY <1>1, <2>2 DEF Record
  <2>3. CASE j = k /\ chans' = [chans EXCEPT ![k].bans = x]
    BY <1>1, <2>3 DEF Record
  <2>4. CASE j = k /\ chans' = [chans EXCEPT ![k].topic = x]
    BY <1>1, <2>4 DEF Record
  <2> QED BY <2>1, <2>2, <2>3, <2>4
<1> QED BY <1>2, <1>3 DEF NamesStay

\* What a step does to the names, and to who is where.
SmallStep ==
    /\ NamesStay
    /\ \A c \in Chan : Bot \in on'[c] /\ due' # c => (Bot \in on[c] /\ due # c) \/ ChanAt(c) # 0

LEMMA StepsAreSmall ==
    ASSUME TypeOK, Next
    PROVE  \/ SmallStep
           \/ \E c \in Chan, s \in Orders : NamesReplyUnknown(c, s)
           \/ \E c \in Chan : Redirected(c)
<1> DEFINE Here(c) == Bot \in on[c] /\ due # c
           Stays == \A c \in Chan : Bot \in on'[c] /\ due' # c => Here(c) \/ ChanAt(c) # 0
<1>0. /\ on \in [Chan -> SUBSET Nick] /\ \A c \in Chan : c # None
  BY DEF TypeOK
<1>1. ASSUME NEW c \in Chan, NEW n \in Nick, UserJoins(c, n) PROVE SmallStep
  <2>1. NamesStay
    BY <1>1, PartWritten DEF UserJoins, NewJoin, SetUsers
  <2>2. Bot \in on[c] /\ due' = due /\ due = None /\ on' = [on EXCEPT ![c] = @ \cup {n}]
    BY <1>1 DEF UserJoins, Told, asked
  <2>3. Stays
    BY <1>0, <2>2
  <2> QED BY <2>1, <2>3 DEF SmallStep
<1>2. ASSUME NEW c \in Chan, NEW n \in Nick,
             UserParts(c, n) \/ UserKicked(c, n) \/ UserPartsSilently(c, n)
      PROVE  SmallStep
  <2>1. NamesStay
    BY <1>2, PartWritten DEF UserParts, UserKicked, UserPartsSilently, Removed, SetUsers
  <2>2. due' = due /\ LeftAtServer(c, n)
    BY <1>2 DEF UserParts, UserKicked, UserPartsSilently, asked
  <2>3. \A d \in Chan : on'[d] \subseteq on[d]
    BY <1>0, <2>2 DEF LeftAtServer
  <2> QED BY <2>1, <2>2, <2>3 DEF SmallStep
<1>3. ASSUME NEW c \in Chan, NEW n \in Nick,
             WhoReply(c, n) \/ \E keyed \in BOOLEAN : OpChanges(c, n, keyed)
      PROVE  SmallStep
  <2>1. NamesStay
    <3>1. CASE WhoReply(c, n)
      BY <3>1, PartWritten DEF WhoReply, SetUsers
    <3>2. CASE \E keyed \in BOOLEAN : OpChanges(c, n, keyed)
      BY <3>2, PartWritten DEF OpChanges, SetUsers
    <3> QED BY <1>3, <3>1, <3>2
  <2>2. due' = due /\ on' = on
    BY <1>3 DEF WhoReply, OpChanges, server, members, asked
  <2> QED BY <2>1, <2>2 DEF SmallStep
<1>4. ASSUME NEW c \in Chan, NEW S, NEW O, NEW B, NEW t, BotJoins(c, S, O, B, t) PROVE SmallStep
  <2>1. NamesStay
    BY <1>4, PartWritten DEF BotJoins, NewJoin, SetUsers
  <2>2. due = None /\ due' = c /\ on' = [on EXCEPT ![c] = S \cup {Bot}]
    BY <1>4 DEF BotJoins
  <2>3. Stays
    BY <1>0, <2>2
  <2> QED BY <2>1, <2>3 DEF SmallStep
<1>5. ASSUME NEW c \in Chan, NEW t, TopicReply(c) \/ TopicChanges(c, t) PROVE SmallStep
  <2>1. NamesStay
    <3>1. CASE TopicReply(c)
      BY <3>1, PartWritten DEF TopicReply, WithTopic
    <3>2. CASE TopicChanges(c, t)
      BY <3>2, PartWritten DEF TopicChanges, WithTopic
    <3> QED BY <1>5, <3>1, <3>2
  <2>2. due' = due /\ on' = on
    BY <1>5 DEF TopicReply, TopicChanges, server, members, asked
  <2> QED BY <2>1, <2>2 DEF SmallStep
<1>6. ASSUME NEW c \in Chan, NEW s \in Orders, NamesReply(c, s) PROVE SmallStep
  <2>1. NamesStay
    BY <1>6, PartWritten DEF NamesReply, SetUsers
  <2>2. due = c /\ ChanAt(c) # 0 /\ on' = on
    BY <1>6 DEF NamesReply, Asked, server, members
  <2> QED BY <2>1, <2>2 DEF SmallStep
<1>7. ASSUME NEW c \in Chan, NEW m \in Mask,
             \/ BanReply(c, m) \/ NewChanBan(c, m)
             \/ \E keyed \in BOOLEAN : BanSet(c, m, keyed) \/ BanLifted(c, m, keyed)
      PROVE  SmallStep
  <2>1. NamesStay
    <3>1. CASE BanReply(c, m) \/ NewChanBan(c, m)
      BY <3>1, PartWritten DEF BanReply, NewChanBan, SetBans
    <3>2. CASE \E keyed \in BOOLEAN : BanSet(c, m, keyed)
      BY <3>2, PartWritten DEF BanSet, SetBans
    <3>3. CASE \E keyed \in BOOLEAN : BanLifted(c, m, keyed)
      BY <3>3, PartWritten DEF BanLifted, SetBans
    <3> QED BY <1>7, <3>1, <3>2, <3>3
  <2>2. due' = due /\ on' = on
    BY <1>7 DEF BanReply, NewChanBan, BanSet, BanLifted, server, members, asked
  <2> QED BY <2>1, <2>2 DEF SmallStep
<1>8. ASSUME (\E c \in Chan : Crash(c)) \/ Disconnected PROVE SmallStep
  <2>1. chans' = chans /\ due' = due /\ on' = on
    BY <1>8 DEF Crash, Disconnected, server, members, asked
  <2> QED BY <2>1 DEF SmallStep, NamesStay
<1>9. ASSUME NEW n \in Nick, NEW m \in Nick, UserRenames(n, m) PROVE SmallStep
  <2>1. chans' = [k \in DOMAIN chans |-> [chans[k] EXCEPT !.users = RenamedIn(chans[k].users, n, m)]]
    BY <1>9 DEF UserRenames
  <2>2. \A k \in DOMAIN chans : chans[k] \in Record
    BY RecordsAreSound DEF Sound
  <2>3. NamesStay
    BY <2>1, <2>2 DEF NamesStay, Record
  <2>4. due' = due /\ m # Bot /\ on' = [c \in Chan |-> Renamed(on[c], n, m)]
    BY <1>9 DEF UserRenames, asked
  <2>5. \A c \in Chan : Bot \in on'[c] => Bot \in on[c]
    BY <2>4 DEF Renamed
  <2> QED BY <2>3, <2>4, <2>5 DEF SmallStep
<1>10. ASSUME NEW n \in Nick, UserQuits(n) PROVE SmallStep
  <2>1. /\ chans' = chans /\ due' = due
        /\ \A c \in Chan : on'[c] \subseteq on[c]
    BY <1>10 DEF UserQuits, asked
  <2> QED BY <2>1 DEF SmallStep, NamesStay
<1> HIDE DEF Here, Stays
<1>11. ASSUME NEW c \in Chan, BotEnters(c) PROVE SmallStep
  BY <1>4, <1>11 DEF BotEnters
<1> QED BY <1>1, <1>2, <1>3, <1>5, <1>6, <1>7, <1>8, <1>9, <1>10, <1>11 DEF Next

LEMMA WorldStays ==
    ASSUME Next
    PROVE  world' = world
<1>1. ASSUME NEW c \in Chan, NEW n \in Nick,
             \/ UserJoins(c, n) \/ WhoReply(c, n)
             \/ UserParts(c, n) \/ UserPartsSilently(c, n) \/ UserKicked(c, n)
             \/ \E keyed \in BOOLEAN : OpChanges(c, n, keyed)
      PROVE  world' = world
  BY <1>1 DEF UserJoins, WhoReply, UserParts, UserPartsSilently, UserKicked, OpChanges, server
<1>2. ASSUME NEW c \in Chan,
             \/ BotEnters(c) \/ TopicReply(c)
             \/ \E t \in Topic \cup {None} : TopicChanges(c, t)
      PROVE  world' = world
  BY <1>2 DEF BotEnters, BotJoins, TopicReply, TopicChanges, server
<1>3. ASSUME NEW c \in Chan, NEW s \in Orders, NamesReply(c, s) \/ NamesReplyUnknown(c, s)
      PROVE  world' = world
  BY <1>3 DEF NamesReply, NamesReplyUnknown, server
<1>4. ASSUME NEW c \in Chan, NEW m \in Mask,
             \/ BanReply(c, m) \/ NewChanBan(c, m)
             \/ \E keyed \in BOOLEAN : BanSet(c, m, keyed) \/ BanLifted(c, m, keyed)
      PROVE  world' = world
  BY <1>4 DEF BanReply, NewChanBan, BanSet, BanLifted, server
<1>5. ASSUME NEW c \in Chan, Redirected(c) \/ Crash(c)
      PROVE  world' = world
  BY <1>5 DEF Redirected, Crash, server
<1>6. ASSUME (\E n, m \in Nick : UserRenames(n, m)) \/ (\E n \in Nick : UserQuits(n)) \/ Disconnected
      PROVE  world' = world
  BY <1>6 DEF UserRenames, UserQuits, Disconnected, server
<1> QED BY <1>1, <1>2, <1>3, <1>4, <1>5, <1>6 DEF Next

LEMMA ConfiguredInit ==
    ASSUME Init
    PROVE  ConfiguredStay /\ OneIsThere
<1>1. world.configured \in Seq(Chan)
  BY WorldIsSound DEF Init
<1>2. /\ Len(world.configured) \in Nat /\ DOMAIN world.configured = 1..Len(world.configured)
      /\ chans = [k \in DOMAIN world.configured |-> NewChannel(world.configured[k])]
  BY <1>1 DEF Init
<1>3. chans \in Seq(Record)
  BY InitHolds DEF IInv, TypeOK
<1>4. Len(chans) = Len(world.configured)
  BY <1>2, <1>3
<1>5. ConfiguredStay
  BY <1>2, <1>4 DEF ConfiguredStay, NewChannel
<1>6. OneIsThere
  BY DEF Init, OneIsThere
<1> QED BY <1>5, <1>6

LEMMA ConfiguredKept ==
    ASSUME IInv, ConfiguredStay, OneIsThere, [Next]_vars
    PROVE  ConfiguredStay' /\ OneIsThere'
<1>0. TypeOK /\ TypeOK'
  BY NextKeeps DEF IInv
<1>1. /\ world.configured \in Seq(Chan)
      /\ Len(world.configured) \in Nat /\ DOMAIN world.configured = 1..Len(world.configured)
      /\ Len(chans) \in Nat /\ DOMAIN chans = 1..Len(chans)
      /\ Len(chans') \in Nat /\ DOMAIN chans' = 1..Len(chans')
  BY <1>0, WorldIsSound DEF TypeOK
<1>2. CASE UNCHANGED vars
  <2>1. UNCHANGED <<world, on, chans, due>>
    BY <1>2 DEF vars, server, members, asked
  <2> QED BY <2>1 DEF ConfiguredStay, OneIsThere, ChanAt
<1>3. CASE Next
  <2>0. world' = world
    BY <1>3, WorldStays
  <2>1. ASSUME /\ DOMAIN chans \subseteq DOMAIN chans'
               /\ \A k \in DOMAIN chans : chans'[k].name \in {chans[k].name, None}
        PROVE  ConfiguredStay'
    <3>1. Len(chans) <= Len(chans')
      BY <1>1, <2>1
    <3> QED BY <1>1, <2>0, <2>1, <3>1 DEF ConfiguredStay
  <2>2. CASE SmallStep
    <3>1. \A c \in Chan : ChanAt(c)' = ChanAt(c)
      BY <2>2, SameNamesSamePlace DEF SmallStep, NamesStay
    <3> QED BY <2>1, <2>2, <3>1 DEF SmallStep, NamesStay, OneIsThere
  <2>3. CASE \E c \in Chan, s \in Orders : NamesReplyUnknown(c, s)
    <3>1. PICK c \in Chan, s \in Orders : NamesReplyUnknown(c, s)
      BY <2>3
    <3> DEFINE r == [chans[Len(chans)] EXCEPT !.users = Listed(chans[Len(chans)].users, s, op[c])]
               written == [chans EXCEPT ![Len(chans)] = r]
    <3>2. /\ due = c /\ on' = on /\ chans' = Append(written, NewChannel(c))
      BY <3>1 DEF NamesReplyUnknown, Asked, WithRecord, server, members
    <3>3. \A k \in DOMAIN chans : chans[k] \in Record
      BY <1>0, RecordsAreSound DEF Sound
    <3>4. /\ DOMAIN written = 1..Len(chans) /\ written \in Seq({written[k] : k \in 1..Len(chans)})
          /\ Len(written) = Len(chans)
          /\ \A k \in DOMAIN chans : written[k].name = chans[k].name
      <4>1. \A k \in DOMAIN chans : written[k].name = chans[k].name
        BY <3>3 DEF Record
      <4> HIDE DEF r
      <4>2. DOMAIN written = 1..Len(chans) /\ written \in [1..Len(chans) -> {written[k] : k \in 1..Len(chans)}]
        BY <1>1
      <4> HIDE DEF written
      <4>3. written \in Seq({written[k] : k \in 1..Len(chans)}) /\ Len(written) = Len(chans)
        BY SMTT(30), <1>1, <4>2
      <4> QED BY <4>1, <4>2, <4>3
    <3> HIDE DEF written
    <3>5. /\ Len(chans') = Len(chans) + 1
          /\ \A k \in 1..Len(chans) : chans'[k] = written[k]
          /\ chans'[Len(chans) + 1] = NewChannel(c)
      <4> DEFINE T == {written[k] : k \in 1..Len(chans)} \cup {NewChannel(c)}
      <4>1. written \in Seq(T)
        BY <3>4
      <4>2. NewChannel(c) \in T
        OBVIOUS
      <4> HIDE DEF T
      <4> QED BY <3>2, <3>4, <4>1, <4>2, AppendProperties
    <3>6. ConfiguredStay'
      BY <1>1, <2>1, <3>4, <3>5
    <3>7. ASSUME NEW d \in Chan, Bot \in on'[d], due' # d PROVE ChanAt(d)' # 0
      <4>1. \E k \in DOMAIN chans' : chans'[k].name = d
        <5>1. CASE d = c
          BY <1>1, <3>5, <5>1 DEF NewChannel
        <5>2. CASE d # c
          <6>1. ChanAt(d) # 0
            BY <3>2, <3>7, <5>2 DEF OneIsThere
          <6>2. ChanAt(d) \in DOMAIN chans /\ chans[ChanAt(d)].name = d
            BY <1>0, <6>1, ChanAtProperties
          <6> QED BY <1>1, <3>4, <3>5, <6>2
        <5> QED BY <5>1, <5>2
      <4> DEFINE I == {k \in DOMAIN chans' : chans'[k].name = d}
      <4>2. ChanAt(d)' = FirstFrom(1, I) /\ I \in SUBSET (Nat \ {0}) /\ I # {}
        BY <1>1, <4>1 DEF ChanAt
      <4> HIDE DEF I
      <4>3. 0 \notin I /\ \A i \in I : 1 <= i
        BY <4>2
      <4>4. FirstFrom(1, I) # 0
        BY <4>2, <4>3, FirstFromProperties
      <4> QED BY <4>2, <4>4
    <3> QED BY <3>6, <3>7 DEF OneIsThere
  <2>4. CASE \E c \in Chan : Redirected(c)
    <3>1. PICK to \in Chan : Redirected(to)
      BY <2>4
    <3>2. /\ due = None /\ due' = None /\ on' = on /\ Bot \notin on[to] /\ ChanAt(to) # 0
          /\ chans' = [chans EXCEPT ![ChanAt(to)].name = None]
      BY <3>1 DEF Redirected, server, members, asked
    <3>3. ChanAt(to) \in DOMAIN chans /\ chans[ChanAt(to)].name = to /\ chans[ChanAt(to)] \in Record
      BY <1>0, <3>2, ChanAtProperties, RecordsAreSound DEF Sound
    <3>4. /\ DOMAIN chans' = DOMAIN chans
          /\ \A k \in DOMAIN chans : k # ChanAt(to) => chans'[k] = chans[k]
          /\ chans'[ChanAt(to)].name = None
      BY <3>2, <3>3 DEF Record
    <3>5. ConfiguredStay'
      BY <2>1, <3>4
    <3>6. ASSUME NEW d \in Chan, Bot \in on'[d] PROVE ChanAt(d)' # 0
      <4>1. d # to /\ d # None /\ ChanAt(d) # 0
        BY <3>2, <3>6 DEF OneIsThere
      <4>2. \A k \in DOMAIN chans : chans'[k].name = d <=> chans[k].name = d
        BY <3>3, <3>4, <4>1
      <4>3. ChanAt(d)' = ChanAt(d)
        BY <3>4, <4>2, SameNamesSamePlace
      <4> QED BY <4>1, <4>3
    <3> QED BY <3>5, <3>6 DEF OneIsThere
  <2> QED BY <1>0, <1>3, <2>2, <2>3, <2>4, StepsAreSmall
<1> QED BY <1>2, <1>3

\* Options that are inserted in front one by one, twice, are in their order again.
LEMMA InsertedTwice ==
    ASSUME NEW S, NEW s \in Seq(S), s # << >>
    PROVE  /\ Inserted(s) \in Seq(S) /\ Inserted(s) # << >>
           /\ Inserted(Inserted(s)) = s
<1>1. Len(s) \in Nat /\ Len(s) # 0 /\ DOMAIN s = 1..Len(s)
  BY EmptySeq
<1>2. /\ Inserted(s) \in Seq(S) /\ Len(Inserted(s)) = Len(s)
      /\ \A i \in 1..Len(s) : Inserted(s)[i] = s[(Len(s) - i) + 1]
  <2>1. Inserted(s) = [i \in 1..Len(s) |-> s[(Len(s) - i) + 1]]
    BY DEF Inserted, Reverse
  <2>2. \A i \in 1..Len(s) : s[(Len(s) - i) + 1] \in S
    BY <1>1, ElementOfSeq
  <2> QED BY <1>1, <2>1, <2>2
<1>3. Inserted(Inserted(s)) = [i \in 1..Len(s) |-> Inserted(s)[(Len(s) - i) + 1]]
  BY <1>2 DEF Inserted, Reverse
<1>4. \A i \in 1..Len(s) : Inserted(s)[(Len(s) - i) + 1] = s[i]
  BY <1>1, <1>2
<1>5. s = [i \in 1..Len(s) |-> s[i]]
  BY <1>1
<1>6. Inserted(s) # << >>
  BY <1>1, <1>2, EmptySeq
<1> QED BY <1>2, <1>3, <1>4, <1>5, <1>6

\* A save that opens the file and does not end the program leaves in it a block for each
\* record; as blocks of a configuration they stand for the configured channels, in their
\* order and with their options, and none that was met only in a 353 line; none that the bot
\* is in is left out.
THEOREM TheFileIsTheChannels == Spec => []ChannelsAreSaved
<1>1. ASSUME IInv, ConfiguredStay, OneIsThere PROVE ChannelsAreSaved
  <2> DEFINE given == world.configured
             n == Len(given)
             names == [k \in DOMAIN chans |-> chans[k].name]
  <2>0. TypeOK
    BY <1>1 DEF IInv
  <2>1. /\ given \in Seq(Chan) /\ n \in Nat /\ DOMAIN given = 1..n
        /\ Len(chans) \in Nat /\ DOMAIN chans = 1..Len(chans) /\ n <= Len(chans)
        /\ \A k \in 1..n : given[k] \in Chan
    BY <1>1, <2>0, WorldIsSound, ElementOfSeq DEF TypeOK, ConfiguredStay
  <2>2. \A k \in 1..n : Options[given[k]] \in Seq(STRING) \ {<< >>}
    BY <2>0, <2>1, OptionsAssumption DEF TypeOK
  <2>3. ASSUME NEW k \in DOMAIN chans
        PROVE  EggVars(k) = IF k <= n THEN Inserted(Options[given[k]]) ELSE << >>
    BY <2>1 DEF EggVars
  <2>4. ASSUME NEW k \in DOMAIN chans
        PROVE  /\ EggVars(k) \in Seq(STRING)
               /\ EggVars(k) # << >> <=> k <= n
               /\ k <= n => Inserted(EggVars(k)) = Options[given[k]]
    <3>1. CASE k <= n
      <4> DEFINE o == Options[given[k]]
      <4>1. o \in Seq(STRING) /\ o # << >>
        BY <2>1, <2>2, <3>1
      <4>2. EggVars(k) = Inserted(o)
        BY <2>3, <3>1
      <4> HIDE DEF o
      <4>3. /\ Inserted(o) \in Seq(STRING) /\ Inserted(o) # << >>
            /\ Inserted(Inserted(o)) = o
        BY <4>1, InsertedTwice
      <4> QED BY <3>1, <4>2, <4>3 DEF o
    <3>2. CASE ~(k <= n)
      <4>1. EggVars(k) = << >>
        BY <2>3, <3>2
      <4>2. << >> \in Seq(STRING)
        BY EmptySeq
      <4> QED BY <3>2, <4>1, <4>2
    <3> QED BY <3>1, <3>2
  <2>5. \A k \in DOMAIN chans : chans[k].name \in Chan \cup {None}
    BY <2>0, RecordsAreSound
  <2> HIDE DEF given, n
  <2>6. ASSUME NEW c \in Chan, Bot \in on[c], due # c
        PROVE  c \in ToSet(ChannelNames) /\ \E k \in DOMAIN Blocks : Blocks[k].name = c
    <3>1. ChanAt(c) \in DOMAIN chans /\ chans[ChanAt(c)].name = c
      BY <1>1, <2>0, <2>6, ChanAtProperties DEF OneIsThere
    <3>2. \E k \in DOMAIN Blocks : Blocks[k].name = c
      BY <3>1 DEF Blocks
    <3>3. names \in Seq(Chan \cup {None}) /\ Len(names) = Len(chans)
      BY <2>1, <2>5
    <3> DEFINE I == {k \in DOMAIN chans : chans[k].name # None}
    <3>4. ToSet(Picked(names, I)) = {names[i] : i \in I \cap (1..Len(names))}
      <4> HIDE DEF I, names
      <4> QED BY <3>3, PickedProperties
    <3>5. ChanAt(c) \in I \cap (1..Len(names)) /\ names[ChanAt(c)] = c
      BY <2>1, <3>1, <3>3
    <3> QED BY <3>2, <3>4, <3>5 DEF ChannelNames
  <2>7. ASSUME \A k \in DOMAIN chans : chans[k].name # None
        PROVE  MadeOf(Blocks) = [k \in DOMAIN given |-> [name |-> given[k], options |-> Options[given[k]]]]
    <3> DEFINE blocks == Blocks
               I == {k \in DOMAIN blocks : blocks[k].options # << >>}
               made == Picked(blocks, I)
    <3>1. \A k \in DOMAIN chans : [name |-> chans[k].name, options |-> EggVars(k)] \in Block
      BY <2>4, <2>5 DEF Block
    <3>2. /\ blocks \in Seq(Block) /\ Len(blocks) = Len(chans) /\ DOMAIN blocks = DOMAIN chans
          /\ \A k \in DOMAIN chans : blocks[k].name = chans[k].name /\ blocks[k].options = EggVars(k)
      BY <2>1, <3>1 DEF Blocks
    <3> HIDE DEF blocks
    <3>3. \A i \in 1..Len(blocks) : i \in I <=> i <= n
      BY <2>1, <2>4, <3>2
    <3> HIDE DEF I
    <3>4. /\ made \in Seq(Block) /\ Len(made) = n
          /\ \A k \in 1..n : made[k] = blocks[k]
      BY <2>1, <3>2, <3>3, PickedFirst
    <3> HIDE DEF made
    <3>5. ASSUME NEW k \in 1..n
          PROVE  made[k].name = given[k] /\ Inserted(made[k].options) = Options[given[k]]
      <4>1. k \in DOMAIN chans /\ chans[k].name = given[k]
        BY <1>1, <2>1, <2>7 DEF ConfiguredStay, given
      <4> QED BY <2>4, <3>2, <3>4, <4>1
    <3>6. MadeOf(blocks) = [k \in DOMAIN made |-> [name |-> made[k].name, options |-> Inserted(made[k].options)]]
      BY DEF MadeOf, made, I
    <3>7. DOMAIN made = 1..n
      BY <2>1, <3>4
    <3> QED BY <2>1, <3>5, <3>6, <3>7 DEF blocks
  <2>8. ASSUME NEW named \in BOOLEAN, NEW o \in SaveOutcomes(named), o.up, o.opened
        PROVE  o.written = Blocks /\ \A k \in DOMAIN chans : chans[k].name # None
    BY <2>8 DEF SaveOutcomes, Outcome
  <2> QED BY <2>6, <2>7, <2>8 DEF ChannelsAreSaved, given
<1>2. Init => ConfiguredStay /\ OneIsThere
  BY ConfiguredInit
<1>3. IInv /\ IInv' /\ ConfiguredStay /\ OneIsThere /\ [Next]_vars => ConfiguredStay' /\ OneIsThere'
  BY ConfiguredKept
<1> QED BY <1>1, <1>2, <1>3, IInvHolds, PTL DEF Spec
=============================================================================
