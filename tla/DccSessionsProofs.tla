-------------------------- MODULE DccSessionsProofs -------------------------
(***************************************************************************)
(* The memory discipline and the login of the DCC partyline, for any       *)
(* number of sessions, users and lines.                                    *)
(***************************************************************************)
EXTENDS DccQueries, CursorListProofs

USE DccAssumption

\* What a rehash leaves behind, which the memory discipline rests on: before the
\* first one no session has lost its record, and while the loop still holds the
\* replaced record every listed session has.
RehashLeaves ==
    /\ old \subseteq Addr
    /\ record = "first" => old = {} /\ cfgType = StartType
    /\ record = "moved" => Members(dccs) \subseteq old /\ pc \in {"walk", "parse", "fault"}

\* The invariant is the conjunction of the checked properties: each is needed
\* for another (a session can only be freed safely because the walk is in the
\* list; only an allocated session is known to have a user once it has named one).
IInv ==
    /\ TypeOK
    /\ RehashLeaves
    /\ ListHoldsLiveSessions
    /\ WalkStaysInList
    /\ pc = "parse" => at # Null
    /\ ListedSessionsHaveSockets
    /\ LoginIsBackedByUser
    /\ NoLineLeftBehind
    /\ hup \subseteq live
    /\ \A s \in Addr \ live : sess[s] = BlankSession

-----------------------------------------------------------------------------
\* A set of numbers with a bound has a greatest one.
LEMMA MaxOfBounded ==
    ASSUME NEW S \in SUBSET Int, S # {}, NEW m \in Int, \A x \in S : x <= m
    PROVE  Max(S) \in S /\ \A x \in S : x <= Max(S)
<1> DEFINE T == {m - x : x \in S}
<1>1. T \in SUBSET Nat /\ T # {}
  <2>1. \A x \in S : x \in Int /\ m - x \in Nat
    OBVIOUS
  <2>2. T \in SUBSET Nat
    BY <2>1
  <2>3. PICK x \in S : TRUE
    OBVIOUS
  <2>4. m - x \in T
    BY <2>3
  <2> QED BY <2>2, <2>4
<1>2. PICK t \in T : \A y \in T : t <= y
  BY <1>1, LeastNat
<1>3. PICK x \in S : t = m - x
  BY <1>2
<1>4. ASSUME NEW y \in S PROVE x >= y
  <2>1. m - y \in T /\ x \in Int /\ y \in Int
    OBVIOUS
  <2>2. m - x <= m - y
    BY <2>1, <1>2, <1>3
  <2> HIDE DEF T
  <2> QED BY <2>1, <2>2
<1>5. \E z \in S : \A y \in S : z >= y
  BY <1>4
<1>6. Max(S) \in S /\ \A y \in S : Max(S) >= y
  BY <1>5 DEF Max
<1> QED BY <1>6

\* The first line ends at its newline and holds none.
LEMMA FirstLineIsLine ==
    ASSUME NEW b \in Seq(Text \cup {NL}), HasLine(b)
    PROVE  /\ LineEnd(b) \in 1..Len(b)
           /\ FirstLine(b) \in Line
<1>1. DOMAIN b = 1..Len(b) /\ Len(b) \in Nat
  OBVIOUS
<1> DEFINE T == {i \in DOMAIN b : b[i] = NL}
<1>2. T \in SUBSET Nat /\ T # {}
  BY <1>1 DEF HasLine
<1>3. PICK i \in T : \A j \in T : i <= j
  BY <1>2, LeastNat
<1>4. b[i] = NL /\ i \in DOMAIN b /\ \A j \in 1..(i - 1) : b[j] # NL
  BY <1>1, <1>3
<1>5. LineEnd(b) \in DOMAIN b /\ b[LineEnd(b)] = NL
      /\ \A j \in 1..(LineEnd(b) - 1) : b[j] # NL
  BY <1>4 DEF LineEnd
<1> DEFINE e == LineEnd(b)
<1> HIDE DEF e
<1>6. e \in 1..Len(b) /\ \A j \in 1..(e - 1) : b[j] # NL
  BY <1>1, <1>5 DEF e
<1>7. \A j \in 1..(e - 1) : b[j] \in Text
  <2>1. \A j \in 1..Len(b) : b[j] \in Text \cup {NL}
    BY ElementOfSeq
  <2> QED BY <2>1, <1>1, <1>6
<1>8. SubSeq(b, 1, e - 1) \in Seq(Text)
  <2>1. /\ SubSeq(b, 1, e - 1) = [j \in 1..(e - 1) |-> b[j]]
    BY <1>1, <1>6
  <2> QED BY <2>1, <1>1, <1>6, <1>7
<1> QED BY <1>6, <1>8 DEF FirstLine, Line, e

\* What follows the first line is again a buffer.
LEMMA LineRestIsBuffer ==
    ASSUME NEW b \in Seq(Text \cup {NL}), HasLine(b)
    PROVE  LineRest(b) \in Seq(Text \cup {NL})
<1> DEFINE n == Len(b)
           e == LineEnd(b)
           T == {i \in (e + 1)..(n + 1) : i \in DOMAIN b => b[i] # NL}
<1>1. n \in Nat /\ DOMAIN b = 1..n /\ e \in 1..n
  BY FirstLineIsLine
<1> HIDE DEF n, e
<1>2. T \in SUBSET Nat /\ n + 1 \in T
  BY <1>1
<1>3. PICK k \in T : \A j \in T : k <= j
  BY <1>2, LeastNat
<1>4. /\ k \in (e + 1)..(n + 1)
      /\ k \in DOMAIN b => b[k] # NL
      /\ \A j \in (e + 1)..(k - 1) : b[j] = NL
  <2>1. ASSUME NEW j \in (e + 1)..(k - 1) PROVE b[j] = NL
    <3>1. j \in (e + 1)..(n + 1) /\ j < k
      BY <1>1, <1>3
    <3>2. j \notin T
      BY <3>1, <1>1, <1>2, <1>3
    <3> QED BY <3>1, <3>2
  <2> QED BY <1>3, <2>1
<1> DEFINE r == CHOOSE i \in (e + 1)..(n + 1) :
                   /\ i \in DOMAIN b => b[i] # NL
                   /\ \A j \in (e + 1)..(i - 1) : b[j] = NL
<1>5. r \in (e + 1)..(n + 1)
  BY <1>4
<1>6. LineRest(b) = SubSeq(b, r, n)
  BY DEF LineRest, n, e
<1> HIDE DEF r
<1> QED BY <1>1, <1>5, <1>6, SubSeqProperties DEF n

-----------------------------------------------------------------------------
\* What one step does to the parts of the state, whichever action takes it.
LEMMA BlankIsSession == BlankSession \in Session
BY DEF BlankSession, Session, Waiting, Authenticated

\* Changing the status of a session makes a session.
LEMMA StatusUpdate ==
    ASSUME NEW r \in Session, NEW st \in Waiting..Authenticated
    PROVE  /\ [r EXCEPT !.status = st] \in Session
           /\ [r EXCEPT !.status = st].status = st
           /\ [r EXCEPT !.status = st].sock = r.sock
           /\ [r EXCEPT !.status = st].user = r.user
BY DEF Session

LEMMA StatusValues ==
    /\ NotReady \in Waiting..Authenticated
    /\ HasUsername \in Waiting..Authenticated
    /\ Authenticated \in Waiting..Authenticated
BY DEF Waiting, NotReady, HasUsername, Authenticated

\* The walk goes on from the session at to a listed session or ends.
LEMMA Advance ==
    ASSUME IInv, InForward(dccs, at)
    PROVE  /\ NextSession \in Addr \cup {Null}
           /\ NextSession # Null => /\ InForward(dccs, NextSession)
                                    /\ NextSession \in live \/ NextSession \in old
<1>1. IsList(dccs, Addr) /\ Members(dccs) \ live \subseteq old /\ live \subseteq Addr /\ old \subseteq Addr
  BY DEF IInv, TypeOK, ListHoldsLiveSessions
<1>2. NextSession = Null \/ InForward(dccs, NextSession)
  BY <1>1, SuccessorStaysForward DEF NextSession
<1> QED BY <1>1, <1>2, ForwardIsMember

\* Freeing the session at keeps the list of the others, with at itself still
\* linked where it is freed under a record that has no list; the link that is
\* read after it is freed leads to one of them.
LEMMA Removal ==
    ASSUME IInv, at \in live, InForward(dccs, at), NEW listed \in BOOLEAN,
           RemoveSession(at, listed),
           listed => record # "moved",
           ~listed => at \in old
    PROVE  /\ sess' \in [Addr -> Session]
           /\ live' = live \ {at}
           /\ IsList(dccs', Addr)
           /\ live' \subseteq Members(dccs')
           /\ Members(dccs') \ live' \subseteq old'
           /\ old' \subseteq old
           /\ record = "moved" => Members(dccs') \subseteq old'
           /\ hup' \subseteq live'
           /\ \A s \in live' : sess'[s] = sess[s]
           /\ \A s \in Addr \ live' : sess'[s] = BlankSession
           /\ NextSession \in Addr \cup {Null}
           /\ NextSession # Null => /\ InForward(dccs', NextSession)
                                    /\ NextSession \in live' \/ NextSession \in old'
<1>1. /\ IsList(dccs, Addr) /\ live \subseteq Members(dccs) /\ Members(dccs) \ live \subseteq old
      /\ live \subseteq Addr /\ old \subseteq Addr /\ at \in Addr
  BY DEF IInv, TypeOK, ListHoldsLiveSessions
<1>2. /\ live' = live \ {at} /\ hup' = hup \ {at}
      /\ sess' = [sess EXCEPT ![at] = BlankSession]
      /\ listed => dccs' = ListDel(dccs, at) /\ old' = old \ {at}
      /\ ~listed => dccs' = dccs /\ old' = old
  BY DEF RemoveSession
<1>3. /\ IsList(dccs', Addr)
      /\ listed => Members(dccs') = Members(dccs) \ {at}
  BY <1>1, <1>2, ListDelProperties
<1>4. NextSession = Null \/ InForward(dccs', NextSession)
  <2>1. CASE listed
    BY <2>1, <1>1, <1>2, SuccessorStaysForward DEF NextSession
  <2>2. CASE ~listed
    BY <2>2, <1>1, <1>2, SuccessorStaysForward DEF NextSession
  <2> QED BY <2>1, <2>2
<1>5. /\ live' \subseteq Members(dccs') /\ Members(dccs') \ live' \subseteq old'
      /\ old' \subseteq old
  BY <1>1, <1>2, <1>3
<1>6. record = "moved" => Members(dccs') \subseteq old'
  BY <1>2 DEF IInv, RehashLeaves
<1>7. NextSession # Null => NextSession \in Members(dccs') /\ NextSession \in Addr
  <2>1. NextSession # Null => NextSession \in Members(dccs')
    BY <1>4, ForwardIsMember
  <2> QED BY <2>1, <1>1, <1>2, <1>3
<1>8. /\ sess' \in [Addr -> Session]
      /\ \A s \in live' : sess'[s] = sess[s]
      /\ \A s \in Addr \ live' : sess'[s] = BlankSession
  BY <1>1, <1>2, BlankIsSession DEF IInv, TypeOK
<1>9. hup' \subseteq live'
  BY <1>2 DEF IInv
<1> QED BY <1>2, <1>3, <1>4, <1>5, <1>6, <1>7, <1>8, <1>9

\* A new session is a member of the list, in no walk's way.
LEMMA Addition ==
    ASSUME IInv, NEW a \in Addr, a \notin live \cup Members(dccs),
           dccs' = ListAdd(dccs, a), live' = live \cup {a}, UNCHANGED old
    PROVE  /\ IsList(dccs', Addr)
           /\ Members(dccs') = Members(dccs) \cup {a}
           /\ live' \subseteq Members(dccs')
           /\ Members(dccs') \ live' \subseteq old'
BY ListAddProperties DEF IInv, TypeOK, ListHoldsLiveSessions

\* What is left of a fragment is a buffer without a line in it.
LEMMA FragmentIsBuffer ==
    ASSUME IInv, NEW f \in Fragment
    PROVE  /\ f \in Seq(Text \cup {NL})
           /\ ~HasLine(buffer) => ~HasLine(f)
<1>1. buffer \in Seq(Text \cup {NL}) /\ Len(buffer) \in Nat /\ DOMAIN buffer = 1..Len(buffer)
  BY DEF IInv, TypeOK
<1>2. CASE f = buffer
  BY <1>1, <1>2
<1>3. CASE \E i \in 0..(Len(buffer) - 1), x \in Piece : f = SubSeq(buffer, 1, i) \o x
  <2>1. PICK i \in 0..(Len(buffer) - 1), x \in Piece : f = SubSeq(buffer, 1, i) \o x
    BY <1>3
  <2> DEFINE b == SubSeq(buffer, 1, i)
  <2>2. b = [j \in 1..i |-> buffer[j]] /\ b \in Seq(Text \cup {NL}) /\ Len(b) = i
    BY <1>1, SubSeqProperties
  <2> HIDE DEF b
  <2>3. x = << >> \/ \E w \in Word : x = <<w>>
    BY DEF Piece
  <2>4. x \in Seq(Text \cup {NL}) /\ \A j \in DOMAIN x : x[j] # NL
    <3>1. CASE x = << >>
      BY <3>1, EmptySeq
    <3>2. ASSUME NEW w \in Word, x = <<w>> PROVE x \in Seq(Text \cup {NL}) /\ \A j \in DOMAIN x : x[j] # NL
      BY <3>2 DEF Text
    <3> QED BY <2>3, <3>1, <3>2
  <2>5. /\ f = b \o x /\ f \in Seq(Text \cup {NL}) /\ Len(f) = Len(b) + Len(x)
        /\ \A j \in 1..Len(f) : f[j] = IF j <= Len(b) THEN b[j] ELSE x[j - Len(b)]
    BY <2>1, <2>2, <2>4, ConcatProperties DEF b
  <2>6. ASSUME ~HasLine(buffer), NEW j \in DOMAIN f PROVE f[j] # NL
    <3>0. Len(x) \in Nat /\ DOMAIN x = 1..Len(x) /\ Len(f) \in Nat /\ DOMAIN f = 1..Len(f)
      BY <2>4, <2>5
    <3>1. CASE j <= i
      <4>1. f[j] = buffer[j] /\ j \in DOMAIN buffer
        BY <3>0, <3>1, <2>2, <2>5, <1>1
      <4> QED BY <4>1, <2>6 DEF HasLine
    <3>2. CASE ~(j <= i)
      <4>1. f[j] = x[j - i] /\ j - i \in DOMAIN x
        BY <3>0, <3>2, <2>2, <2>5
      <4> QED BY <4>1, <2>4
    <3> QED BY <3>1, <3>2
  <2> QED BY <2>5, <2>6 DEF HasLine
<1> QED BY <1>2, <1>3 DEF Fragment

\* The sizes are of the three kinds.
LEMMA SizeKinds ==
    ASSUME IInv
    PROVE  /\ Grown \in {"start", "own", "other"}
           /\ \A b \in BOOLEAN : (IF b THEN "own" ELSE IF size = "own" THEN "other" ELSE size)
                                    \in {"start", "own", "other"}
BY DEF IInv, TypeOK, Grown

\* The id of an outgoing session is a natural number.
LEMMA NewIdxIsNat == ASSUME IInv PROVE NewIdx \in Nat
<1>1. CASE dccs = EmptyList
  BY <1>1 DEF NewIdx
<1>2. CASE dccs # EmptyList
  <2> DEFINE n == Len(dccs.items)
             S == {sess[dccs.items[i]].idx : i \in 1..(n - 1)} \cup {sess[dccs.items[1]].idx}
  <2>1. /\ dccs \in [items : Seq(Addr), head : Nat]
        /\ dccs.head = 0 <=> dccs.items = << >>
    BY DEF IInv, TypeOK, IsList
  <2>2. dccs.items # << >>
    BY <1>2, <2>1 DEF EmptyList
  <2>3. n \in Nat \ {0} /\ \A i \in 1..n : dccs.items[i] \in Addr
    BY <2>1, <2>2, EmptySeq
  <2>4. \A i \in 1..n : sess[dccs.items[i]].idx \in -1..MaxIdx
    BY <2>3 DEF IInv, TypeOK, Session
  <2>5. S \in SUBSET Int /\ S # {} /\ \A x \in S : -1 <= x /\ x <= MaxIdx
    <3>1. \A x \in S : x \in -1..MaxIdx
      BY <2>3, <2>4
    <3>2. sess[dccs.items[1]].idx \in S
      OBVIOUS
    <3> QED BY <3>1, <3>2
  <2> HIDE DEF S
  <2>6. Max(S) \in S
    <3>1. MaxIdx \in Int
      OBVIOUS
    <3> QED BY <3>1, <2>5, MaxOfBounded
  <2>7. NewIdx = 1 + Max(S)
    BY <1>2 DEF NewIdx, S
  <2>8. Max(S) \in Int /\ -1 <= Max(S)
    BY <2>5, <2>6
  <2> QED BY <2>7, <2>8
<1> QED BY <1>1, <1>2

-----------------------------------------------------------------------------
\* One lemma per action, or per group of actions that change the same state.
LEMMA InitIInv == Init => IInv
<1> SUFFICES ASSUME Init PROVE IInv
  OBVIOUS
<1>1. IsList(dccs, Addr) /\ Members(dccs) = {}
  BY EmptyListIsList DEF Init
<1>2. hash \in [User -> Line \cup {NoHash}]
  BY DEF Init
<1>3. buffer \in Seq(Text \cup {NL}) /\ ~HasLine(buffer)
  BY EmptySeq DEF Init, HasLine
<1>4. TypeOK
  BY <1>1, <1>2, <1>3, BlankIsSession DEF Init, TypeOK
<1> QED BY <1>1, <1>3, <1>4 DEF Init, IInv, RehashLeaves, ListHoldsLiveSessions, WalkStaysInList,
        ListedSessionsHaveSockets, LoginIsBackedByUser, NoLineLeftBehind

\* The session at of a walk or of a parse.
LEMMA Current ==
    ASSUME IInv, Standing \/ pc = "parse"
    PROVE  at \in live /\ at \in Addr /\ InForward(dccs, at)
<1>1. at # Null
  BY DEF IInv, TypeOK, Standing
<1> QED BY <1>1 DEF IInv, WalkStaysInList, TypeOK, Standing

LEMMA FdSetIInv == ASSUME IInv, FdSet PROVE IInv'
<1>1. IsList(dccs, Addr) /\ Members(dccs) \subseteq live \cup old /\ live \subseteq Addr /\ old \subseteq Addr
  BY DEF IInv, TypeOK, ListHoldsLiveSessions
<1>2. ToSet(Forward(dccs)) \subseteq Addr
  BY <1>1, ForwardElements DEF IsList
<1>3. rset' \subseteq live /\ wset' \subseteq live
  <2>1. \A s \in Addr : s \notin live => sess[s].sock = "none" /\ sess[s].status # NonBlockConnect
    BY DEF IInv, BlankSession, Waiting, NonBlockConnect
  <2> QED BY <1>2, <2>1 DEF FdSet
<1>4. ASSUME NEW s \in Addr
      PROVE  /\ sess'[s] \in Session
             /\ sess'[s].sock = sess[s].sock /\ sess'[s].user = sess[s].user
             /\ s \notin live => sess'[s] = sess[s]
             /\ sess[s].status # Waiting => sess'[s].status # Waiting
             /\ sess'[s].status >= HasUsername <=> sess[s].status >= HasUsername
             /\ sess'[s].status < HasUsername <=> sess[s].status < HasUsername
             /\ sess'[s].status = Authenticated <=> sess[s].status = Authenticated
  <2>1. sess[s] \in Session
    BY DEF IInv, TypeOK
  <2>2. /\ sess'[s] = [sess[s] EXCEPT !.status =
                         IF s \in rset' /\ @ = NotReady THEN Connected
                         ELSE IF s \in wset' THEN WaitingConnect ELSE @]
        /\ s \in wset' => sess[s].status = NonBlockConnect
    BY DEF FdSet
  <2>3. s \notin live => sess'[s] = sess[s]
    BY <2>1, <2>2, <1>3 DEF Session
  <2> QED BY <2>1, <2>2, <2>3 DEF Session, Waiting, NonBlockConnect, WaitingConnect,
             NotReady, Connected, HasUsername, Authenticated
<1>5. sess' \in [Addr -> Session]
  <2>1. DOMAIN sess' = Addr /\ sess' = [s \in Addr |-> sess'[s]]
    BY DEF FdSet
  <2> QED BY <2>1, <1>4
<1>6. /\ UNCHANGED <<live, dccs, old, hup, hash, cfgType, buffer, size, record, at>>
      /\ pc' = "select" /\ pc = "fdset"
  BY DEF FdSet, users, input
<1>7. TypeOK'
  BY <1>1, <1>3, <1>5, <1>6 DEF IInv, TypeOK
<1>8. ListedSessionsHaveSockets'
  BY <1>1, <1>3, <1>4, <1>6 DEF IInv, ListedSessionsHaveSockets
<1>9. LoginIsBackedByUser'
  BY <1>1, <1>4, <1>6 DEF IInv, LoginIsBackedByUser
<1>10. NoLineLeftBehind'
  BY <1>6 DEF IInv, NoLineLeftBehind
<1>11. (\A s \in Addr \ live : sess[s] = BlankSession)'
  BY <1>4, <1>6 DEF IInv
<1> QED BY <1>6, <1>7, <1>8, <1>9, <1>10, <1>11
        DEF IInv, RehashLeaves, ListHoldsLiveSessions, WalkStaysInList

LEMMA HangUpIInv == ASSUME IInv, NEW s \in Addr, HangUp(s) PROVE IInv'
BY DEF IInv, HangUp, users, input, sets, TypeOK, RehashLeaves, ListHoldsLiveSessions,
   WalkStaysInList, ListedSessionsHaveSockets, LoginIsBackedByUser, NoLineLeftBehind

LEMMA SelectIInv == ASSUME IInv, Select PROVE IInv'
<1>1. rset' \subseteq rset /\ wset' \subseteq wset
  BY DEF Select
<1> QED BY <1>1 DEF IInv, Select, sessions, users, input, TypeOK, RehashLeaves,
           ListHoldsLiveSessions, WalkStaysInList,
           ListedSessionsHaveSockets, LoginIsBackedByUser, NoLineLeftBehind

LEMMA InitiateDccChatIInv ==
    ASSUME IInv, NEW a \in Addr, InitiateDccChat(a) PROVE IInv'
<1>1. /\ IsList(dccs', Addr) /\ live' \subseteq Members(dccs')
      /\ Members(dccs') \ live' \subseteq old'
  <2>1. a \notin live \cup Members(dccs)
    BY DEF InitiateDccChat, Online, IInv, RehashLeaves, ListHoldsLiveSessions
  <2> QED BY <2>1, Addition DEF InitiateDccChat
<1>2. NewIdx \in -1..MaxIdx
  BY NewIdxIsNat DEF InitiateDccChat
<1> DEFINE new == OpenSession(NonBlockConnect, NewIdx)
<1>3. /\ new \in Session /\ new.sock = "open" /\ new.status = NonBlockConnect
      /\ new.user = NoUser
  BY <1>2 DEF OpenSession, Session, Waiting, NonBlockConnect, Authenticated
<1>4. /\ sess' = [sess EXCEPT ![a] = new] /\ live' = live \cup {a}
      /\ pc = "irc" /\ record = "first"
      /\ UNCHANGED <<hash, cfgType, buffer, size, record, old, rset, wset, hup, pc, at>>
  BY DEF InitiateDccChat, Online, users, input, sets
<1> HIDE DEF new
<1>5. TypeOK'
  BY <1>1, <1>3, <1>4 DEF IInv, TypeOK
<1>6. /\ \A s \in live' : sess'[s] = IF s = a THEN new ELSE sess[s]
      /\ \A s \in Addr \ live' : sess'[s] = BlankSession
  BY <1>4 DEF IInv, TypeOK
<1>7. ListedSessionsHaveSockets' /\ LoginIsBackedByUser'
  BY <1>3, <1>4, <1>6 DEF IInv, ListedSessionsHaveSockets, LoginIsBackedByUser,
     Waiting, NonBlockConnect, HasUsername, Authenticated
<1> QED BY <1>1, <1>4, <1>5, <1>6, <1>7 DEF IInv, RehashLeaves, ListHoldsLiveSessions,
           WalkStaysInList, NoLineLeftBehind

\* A walk begins at a listed session or not at all.
LEMMA Beginning ==
    ASSUME NEW l, IsList(l, Addr)
    PROVE  First(l, Null) = Null \/ (InForward(l, First(l, Null)) /\ First(l, Null) \in Members(l)
                                      /\ First(l, Null) \in Addr)
<1>1. First(l, Null) = Null \/ InForward(l, First(l, Null))
  BY FirstIsForward
<1> QED BY <1>1, ForwardIsMember, PositionOfMember

LEMMA NewDccConnectionIInv ==
    ASSUME IInv, NEW a \in Addr, NewDccConnection(a) PROVE IInv'
<1>1. /\ IsList(dccs', Addr) /\ live' \subseteq Members(dccs')
      /\ Members(dccs') \ live' \subseteq old'
  BY Addition DEF NewDccConnection
<1> DEFINE new == OpenSession(NotReady, -1)
<1>2. /\ new \in Session /\ new.sock = "open" /\ new.status = NotReady
      /\ new.user = NoUser
  BY DEF OpenSession, Session, Waiting, NotReady, Authenticated
<1>3. /\ sess' = [sess EXCEPT ![a] = new] /\ live' = live \cup {a}
      /\ pc = "irc" /\ pc' = "walk" /\ at' = First(dccs', Null)
      /\ UNCHANGED <<hash, cfgType, buffer, size, record, old, rset, wset, hup>>
  BY DEF NewDccConnection, users, input, sets
<1> HIDE DEF new
<1>4. at' = Null \/ (InForward(dccs', at') /\ (at' \in live' \/ at' \in old') /\ at' \in Addr)
  BY <1>1, <1>3, Beginning
<1>5. TypeOK'
  BY <1>1, <1>2, <1>3, <1>4 DEF IInv, TypeOK
<1>6. /\ \A s \in live' : sess'[s] = IF s = a THEN new ELSE sess[s]
      /\ \A s \in Addr \ live' : sess'[s] = BlankSession
  BY <1>3 DEF IInv, TypeOK
<1>7. ListedSessionsHaveSockets' /\ LoginIsBackedByUser'
  BY <1>2, <1>3, <1>6 DEF IInv, ListedSessionsHaveSockets, LoginIsBackedByUser,
     Waiting, NotReady, HasUsername, Authenticated
<1> QED BY <1>1, <1>3, <1>4, <1>5, <1>6, <1>7 DEF IInv, RehashLeaves, ListHoldsLiveSessions,
           WalkStaysInList, NoLineLeftBehind

LEMMA NewUserPassIInv ==
    ASSUME IInv, NEW u \in User, NEW w \in Word, NewUserPass(u, w) PROVE IInv'
<1>1. <<w>> \in Line
  BY DEF Line, Text
<1>2. hash' \in [User -> Line \cup {NoHash}]
  BY <1>1 DEF IInv, TypeOK, NewUserPass
<1>3. \A v \in User : hash[v] # NoHash => hash'[v] # NoHash
  BY DEF NewUserPass, IInv, TypeOK
<1>4. LoginIsBackedByUser'
  BY <1>3 DEF IInv, LoginIsBackedByUser, NewUserPass, sessions, TypeOK, HasUsername, Authenticated
<1> QED BY <1>2, <1>4 DEF IInv, TypeOK, NewUserPass, sessions, input, sets, RehashLeaves,
           ListHoldsLiveSessions, WalkStaysInList, ListedSessionsHaveSockets, NoLineLeftBehind

LEMMA NoNewConnectionIInv == ASSUME IInv, NoNewConnection PROVE IInv'
<1>1. IsList(dccs, Addr) /\ Members(dccs) \ live \subseteq old
  BY DEF IInv, TypeOK, ListHoldsLiveSessions
<1>2. at' = Null \/ (InForward(dccs, at') /\ (at' \in live \/ at' \in old) /\ at' \in Addr)
  BY <1>1, Beginning DEF NoNewConnection
<1> QED BY <1>2 DEF IInv, TypeOK, NoNewConnection, sessions, users, input, sets, RehashLeaves,
        ListHoldsLiveSessions, WalkStaysInList, ListedSessionsHaveSockets, LoginIsBackedByUser,
        NoLineLeftBehind

-----------------------------------------------------------------------------
\* The steps of the walk over net->dccs.

\* The loop frees a session where it stands.
LEMMA LoopRemoval ==
    ASSUME IInv, Standing, RemoveSession(at, LoopIsCurrent)
    PROVE  /\ sess' \in [Addr -> Session]
           /\ live' = live \ {at} /\ IsList(dccs', Addr)
           /\ live' \subseteq Members(dccs') /\ Members(dccs') \ live' \subseteq old'
           /\ old' \subseteq old
           /\ record = "moved" => Members(dccs') \subseteq old'
           /\ hup' \subseteq live'
           /\ \A s \in live' : sess'[s] = sess[s]
           /\ \A s \in Addr \ live' : sess'[s] = BlankSession
           /\ NextSession \in Addr \cup {Null}
           /\ NextSession # Null => /\ InForward(dccs', NextSession)
                                    /\ NextSession \in live' \/ NextSession \in old'
<1>1. at \in live /\ InForward(dccs, at)
  BY Current
<1>2. ~LoopIsCurrent => at \in old
  BY <1>1 DEF LoopIsCurrent, IInv, RehashLeaves, ListHoldsLiveSessions
<1>3. LoopIsCurrent => record # "moved"
  BY DEF LoopIsCurrent
<1>4. LoopIsCurrent \in BOOLEAN
  BY DEF LoopIsCurrent
<1> QED BY <1>1, <1>2, <1>3, <1>4, Removal

LEMMA RecvErrorIInv == ASSUME IInv, RecvError PROVE IInv'
<1>1. InForward(dccs, at)
  BY Current DEF RecvError
<1>2. << >> \in Seq(Text \cup {NL}) /\ ~HasLine(<< >>)
  BY EmptySeq DEF HasLine
<1>3. /\ at' \in Addr \cup {Null}
      /\ at' # Null => InForward(dccs, at') /\ (at' \in live \/ at' \in old)
  BY <1>1, Advance DEF RecvError
<1> QED BY <1>2, <1>3 DEF IInv, TypeOK, RecvError, Standing, sessions, users, sets, RehashLeaves,
        ListHoldsLiveSessions, WalkStaysInList, ListedSessionsHaveSockets, LoginIsBackedByUser,
        NoLineLeftBehind

LEMMA RecvClosedIInv == ASSUME IInv, RecvClosed PROVE IInv'
<1>1. /\ Standing /\ RemoveSession(at, LoopIsCurrent) /\ at' = NextSession
      /\ UNCHANGED <<hash, cfgType, record, rset, wset, pc>>
  BY DEF RecvClosed, users, sets
<1>2. /\ sess' \in [Addr -> Session]
      /\ live' = live \ {at} /\ IsList(dccs', Addr)
      /\ live' \subseteq Members(dccs') /\ Members(dccs') \ live' \subseteq old'
      /\ old' \subseteq old
      /\ record = "moved" => Members(dccs') \subseteq old'
      /\ hup' \subseteq live'
      /\ \A s \in live' : sess'[s] = sess[s]
      /\ \A s \in Addr \ live' : sess'[s] = BlankSession
      /\ at' \in Addr \cup {Null}
      /\ at' # Null => InForward(dccs', at') /\ (at' \in live' \/ at' \in old')
  BY <1>1, LoopRemoval
<1>3. /\ buffer' \in Seq(Text \cup {NL}) /\ ~HasLine(buffer')
      /\ size' \in {"start", "own", "other"}
  <2>1. ~HasLine(buffer)
    BY <1>1 DEF IInv, NoLineLeftBehind, Standing
  <2>2. buffer' \in Fragment /\ size' = IF buffer = << >> THEN "start" ELSE Grown
    BY DEF RecvClosed
  <2> QED BY <2>1, <2>2, FragmentIsBuffer, SizeKinds
<1> QED BY <1>1, <1>2, <1>3 DEF IInv, TypeOK, Standing, RehashLeaves, ListHoldsLiveSessions,
        WalkStaysInList, ListedSessionsHaveSockets, LoginIsBackedByUser, NoLineLeftBehind

LEMMA RecvDataIInv == ASSUME IInv, NEW c \in Chunk, RecvData(c) PROVE IInv'
<1>1. PICK kept \in Fragment, junk \in IF Misjudged THEN Piece ELSE {<< >>} :
         buffer' = kept \o c \o junk
  BY DEF RecvData
<1>2. kept \in Seq(Text \cup {NL}) /\ c \in Seq(Text \cup {NL})
  BY FragmentIsBuffer
<1>3. junk \in Seq(Text \cup {NL})
  <2>1. junk = << >> \/ \E w \in Word : junk = <<w>>
    BY <1>1 DEF Piece
  <2>2. CASE junk = << >>
    BY <2>2, EmptySeq
  <2>3. ASSUME NEW w \in Word, junk = <<w>> PROVE junk \in Seq(Text \cup {NL})
    BY <2>3 DEF Text
  <2> QED BY <2>1, <2>2, <2>3
<1>4. buffer' \in Seq(Text \cup {NL})
  <2>1. kept \o c \in Seq(Text \cup {NL})
    BY <1>2, ConcatProperties
  <2> QED BY <2>1, <1>1, <1>3, ConcatProperties
<1>5. size' \in {"start", "own", "other"}
  BY SizeKinds DEF RecvData
<1> QED BY <1>4, <1>5 DEF IInv, TypeOK, RecvData, Standing, sessions, users, sets, RehashLeaves,
        ListHoldsLiveSessions, WalkStaysInList, ListedSessionsHaveSockets, LoginIsBackedByUser,
        NoLineLeftBehind

LEMMA ConnectOkIInv == ASSUME IInv, ConnectOk PROVE IInv'
<1>1. at \in live /\ InForward(dccs, at) /\ at \in Addr /\ sess[at] \in Session
  BY Current DEF ConnectOk, IInv, TypeOK
<1>2. /\ at' \in Addr \cup {Null}
      /\ at' # Null => InForward(dccs, at') /\ (at' \in live \/ at' \in old)
  BY <1>1, Advance DEF ConnectOk
<1>3. /\ sess' = [sess EXCEPT ![at].status = NotReady]
      /\ sess[at].status = WaitingConnect
  BY DEF ConnectOk, SelectedForWrite
<1>4. sess' \in [Addr -> Session]
  <2>1. [sess[at] EXCEPT !.status = NotReady] \in Session
    BY <1>1, StatusUpdate, StatusValues
  <2> QED BY <2>1, <1>1, <1>3 DEF IInv, TypeOK
<1>5. \A s \in Addr : /\ s # at => sess'[s] = sess[s]
                      /\ sess'[s].sock = sess[s].sock /\ sess'[s].user = sess[s].user
  BY <1>1, <1>3 DEF IInv, TypeOK, Session
<1>6. sess'[at].status = NotReady
  BY <1>1, <1>3 DEF IInv, TypeOK, Session
<1>7. /\ UNCHANGED <<live, dccs, old, hash, cfgType, buffer, size, record, rset, wset, hup, pc>>
      /\ pc = "walk"
  BY DEF ConnectOk, Standing, users, input, sets
<1>8. TypeOK'
  BY <1>2, <1>4, <1>7 DEF IInv, TypeOK
<1>9. live \subseteq Addr
  BY DEF IInv, TypeOK
<1>10. ListedSessionsHaveSockets' /\ LoginIsBackedByUser'
  BY <1>3, <1>5, <1>6, <1>7, <1>9 DEF IInv, ListedSessionsHaveSockets, LoginIsBackedByUser,
     WaitingConnect, NotReady, Waiting, HasUsername, Authenticated
<1>11. (\A s \in Addr \ live : sess[s] = BlankSession)'
  BY <1>1, <1>5, <1>7 DEF IInv
<1> QED BY <1>2, <1>7, <1>8, <1>10, <1>11 DEF IInv, RehashLeaves, ListHoldsLiveSessions,
           WalkStaysInList, NoLineLeftBehind

LEMMA ConnectFailedIInv == ASSUME IInv, ConnectFailed PROVE IInv'
<1>1. /\ Standing /\ RemoveSession(at, LoopIsCurrent) /\ at' = NextSession
      /\ UNCHANGED <<hash, cfgType, buffer, size, record, rset, wset, pc>>
  BY DEF ConnectFailed, users, input, sets
<1>2. /\ sess' \in [Addr -> Session]
      /\ live' = live \ {at} /\ IsList(dccs', Addr)
      /\ live' \subseteq Members(dccs') /\ Members(dccs') \ live' \subseteq old'
      /\ old' \subseteq old
      /\ record = "moved" => Members(dccs') \subseteq old'
      /\ hup' \subseteq live'
      /\ \A s \in live' : sess'[s] = sess[s]
      /\ \A s \in Addr \ live' : sess'[s] = BlankSession
      /\ at' \in Addr \cup {Null}
      /\ at' # Null => InForward(dccs', at') /\ (at' \in live' \/ at' \in old')
  BY <1>1, LoopRemoval
<1> QED BY <1>1, <1>2 DEF IInv, TypeOK, Standing, RehashLeaves, ListHoldsLiveSessions,
        WalkStaysInList, ListedSessionsHaveSockets, LoginIsBackedByUser, NoLineLeftBehind

LEMMA NothingToDoIInv == ASSUME IInv, NothingToDo PROVE IInv'
<1>1. InForward(dccs, at)
  BY Current DEF NothingToDo
<1>2. /\ at' \in Addr \cup {Null}
      /\ at' # Null => InForward(dccs, at') /\ (at' \in live \/ at' \in old)
  BY <1>1, Advance DEF NothingToDo
<1> QED BY <1>2 DEF IInv, TypeOK, NothingToDo, Standing, sessions, users, input, sets,
        RehashLeaves, ListHoldsLiveSessions, WalkStaysInList, ListedSessionsHaveSockets,
        LoginIsBackedByUser, NoLineLeftBehind

\* The walk may stand on a freed session, and goes on from it to a listed one.
LEMMA MeetsFreedIInv == ASSUME IInv, MeetsFreed PROVE IInv'
<1>1. InForward(dccs, at)
  BY DEF MeetsFreed, IInv, WalkStaysInList
<1>2. CASE at' = NextSession /\ UNCHANGED pc
  <2>1. /\ at' \in Addr \cup {Null}
        /\ at' # Null => InForward(dccs, at') /\ (at' \in live \/ at' \in old)
    BY <1>1, <1>2, Advance
  <2> QED BY <1>2, <2>1 DEF IInv, TypeOK, MeetsFreed, sessions, users, input, sets,
        RehashLeaves, ListHoldsLiveSessions, WalkStaysInList, ListedSessionsHaveSockets,
        LoginIsBackedByUser, NoLineLeftBehind
<1>3. CASE pc' = "fault" /\ UNCHANGED at
  BY <1>3 DEF IInv, TypeOK, MeetsFreed, sessions, users, input, sets,
     RehashLeaves, ListHoldsLiveSessions, WalkStaysInList, ListedSessionsHaveSockets,
     LoginIsBackedByUser, NoLineLeftBehind
<1> QED BY <1>2, <1>3 DEF MeetsFreed

\* The process has read what it must not.
LEMMA FaultIInv == ASSUME IInv, ReadsFreed \/ ReadsNull PROVE IInv'
<1>1. /\ pc' = "fault"
      /\ UNCHANGED <<sess, live, dccs, old, hup, hash, cfgType, buffer, size, record, rset, wset, at>>
  BY DEF ReadsFreed, ReadsNull, sessions, users, input, sets
<1> QED BY <1>1 DEF IInv, TypeOK, RehashLeaves, ListHoldsLiveSessions, WalkStaysInList,
        ListedSessionsHaveSockets, LoginIsBackedByUser, NoLineLeftBehind

LEMMA WalkEndIInv == ASSUME IInv, WalkEnd PROVE IInv'
BY DEF IInv, TypeOK, WalkEnd, sessions, users, input, RehashLeaves, ListHoldsLiveSessions,
   WalkStaysInList, ListedSessionsHaveSockets, LoginIsBackedByUser, NoLineLeftBehind

-----------------------------------------------------------------------------
\* The steps of dcc_in's loop over the lines it has received.

\* A line is about to be handled.
LEMMA LineSeen ==
    ASSUME IInv, NEW status, LineReady(status)
    PROVE  /\ at \in live /\ at \in Addr /\ InForward(dccs, at)
           /\ sess[at] \in Session /\ sess[at].status = status
           /\ pc = "parse"
           /\ FirstLine(buffer) \in Line
<1>1. at \in live /\ at \in Addr /\ InForward(dccs, at)
  BY Current DEF LineReady
<1>2. buffer \in Seq(Text \cup {NL}) /\ HasLine(buffer)
  BY DEF IInv, TypeOK, LineReady
<1> QED BY <1>1, <1>2, FirstLineIsLine DEF LineReady, IInv, TypeOK

\* It is taken: the input keeps its type.
LEMMA LineTaken ==
    ASSUME IInv, NEW status, LineReady(status), TakeLine
    PROVE  /\ buffer' \in Seq(Text \cup {NL})
           /\ size' \in {"start", "own", "other"}
           /\ buffer' = LineRest(buffer)
<1>1. buffer \in Seq(Text \cup {NL}) /\ HasLine(buffer)
  BY DEF IInv, TypeOK, LineReady
<1> QED BY <1>1, LineRestIsBuffer, SizeKinds DEF TakeLine

LEMMA GiveUsernameIInv == ASSUME IInv, GiveUsername PROVE IInv'
<1>1. /\ at \in live /\ at \in Addr /\ sess[at] \in Session
      /\ sess[at].status = Connected /\ pc = "parse"
      /\ buffer' \in Seq(Text \cup {NL}) /\ size' \in {"start", "own", "other"}
  BY LineSeen, LineTaken DEF GiveUsername
<1>2. PICK u \in Partyline :
         sess' = [sess EXCEPT ![at].user = u, ![at].status = HasUsername]
  BY DEF GiveUsername
<1>3. UNCHANGED <<live, dccs, old, hash, cfgType, record, rset, wset, hup, pc, at>>
  BY DEF GiveUsername, users, sets
<1>4. /\ sess' \in [Addr -> Session]
      /\ sess'[at].status = HasUsername /\ sess'[at].user = u
      /\ sess'[at].sock = sess[at].sock
      /\ \A s \in Addr : s # at => sess'[s] = sess[s]
  <2> DEFINE new == [sess[at] EXCEPT !.user = u, !.status = HasUsername]
  <2>1. /\ new \in Session /\ new.status = HasUsername /\ new.user = u
        /\ new.sock = sess[at].sock
    <3>1. u \in User
      OBVIOUS
    <3> QED BY <3>1, <1>1, StatusValues DEF Session
  <2>2. sess' = [sess EXCEPT ![at] = new]
    BY <1>1, <1>2 DEF IInv, TypeOK
  <2> HIDE DEF new
  <2> QED BY <2>1, <2>2, <1>1 DEF IInv, TypeOK
<1>5. TypeOK'
  BY <1>1, <1>3, <1>4 DEF IInv, TypeOK
<1>6. live \subseteq Addr
  BY DEF IInv, TypeOK
<1>7. ListedSessionsHaveSockets' /\ LoginIsBackedByUser'
  BY <1>1, <1>3, <1>4, <1>6 DEF IInv, ListedSessionsHaveSockets, LoginIsBackedByUser,
     HasUsername, Waiting, Authenticated
<1>8. (\A s \in Addr \ live : sess[s] = BlankSession)'
  BY <1>1, <1>3, <1>4 DEF IInv
<1> QED BY <1>1, <1>3, <1>5, <1>7, <1>8 DEF IInv, RehashLeaves, ListHoldsLiveSessions,
           WalkStaysInList, NoLineLeftBehind

LEMMA GivePasswordIInv == ASSUME IInv, GivePassword PROVE IInv'
<1> DEFINE u == sess[at].user
<1>1. /\ at \in live /\ at \in Addr /\ sess[at] \in Session
      /\ sess[at].status = HasUsername /\ pc = "parse"
      /\ buffer' \in Seq(Text \cup {NL}) /\ size' \in {"start", "own", "other"}
  BY LineSeen, LineTaken DEF GivePassword
<1>2. u \in Partyline /\ u \in User
  BY <1>1 DEF IInv, LoginIsBackedByUser, HasUsername
<1>3. /\ hash[u] # NoHash
      /\ hash' = ConvertHash(u)
      /\ sess' = [sess EXCEPT ![at].status = Authenticated]
      /\ UNCHANGED <<live, dccs, old, cfgType, record, rset, wset, hup, pc, at>>
  BY DEF GivePassword, PasswdOk, sets
<1> HIDE DEF u
<1>4. hash' \in [User -> Line \cup {NoHash}]
  BY <1>2, <1>3 DEF ConvertHash, IInv, TypeOK
<1>5. record = "first" => hash' = hash
  BY <1>3 DEF ConvertHash, IInv, RehashLeaves
<1>6. /\ sess' \in [Addr -> Session]
      /\ sess'[at].status = Authenticated
      /\ sess'[at].sock = sess[at].sock /\ sess'[at].user = u
      /\ \A s \in Addr : s # at => sess'[s] = sess[s]
  <2> DEFINE new == [sess[at] EXCEPT !.status = Authenticated]
  <2>1. /\ new \in Session /\ new.status = Authenticated
        /\ new.sock = sess[at].sock /\ new.user = u
    BY <1>1, StatusUpdate, StatusValues DEF u
  <2>2. sess' = [sess EXCEPT ![at] = new]
    BY <1>1, <1>3
  <2> HIDE DEF new
  <2> QED BY <2>1, <2>2, <1>1 DEF IInv, TypeOK
<1>7. TypeOK'
  BY <1>1, <1>3, <1>4, <1>6 DEF IInv, TypeOK
<1>8. live \subseteq Addr
  BY DEF IInv, TypeOK
<1>9. ListedSessionsHaveSockets'
  BY <1>1, <1>3, <1>6, <1>8 DEF IInv, ListedSessionsHaveSockets, Waiting, Authenticated
<1>10. LoginIsBackedByUser'
  <2>1. ASSUME NEW s \in live
        PROVE  /\ sess'[s].status >= HasUsername => sess'[s].user \in Partyline
               /\ sess'[s].status = Authenticated /\ record = "first"
                    => hash'[sess'[s].user] # NoHash
               /\ sess'[s].status < HasUsername => sess'[s].user = NoUser
    <3>1. CASE s = at
      BY <3>1, <1>2, <1>3, <1>5, <1>6 DEF HasUsername, Authenticated
    <3>2. CASE s # at
      BY <3>2, <1>5, <1>6, <1>8 DEF IInv, LoginIsBackedByUser, HasUsername, Authenticated
    <3> QED BY <3>1, <3>2
  <2> QED BY <2>1, <1>3 DEF LoginIsBackedByUser
<1>11. (\A s \in Addr \ live : sess[s] = BlankSession)'
  BY <1>1, <1>3, <1>6 DEF IInv
<1> QED BY <1>1, <1>3, <1>7, <1>9, <1>10, <1>11 DEF IInv, RehashLeaves, ListHoldsLiveSessions,
           WalkStaysInList, NoLineLeftBehind

LEMMA GiveCommandIInv == ASSUME IInv, GiveCommand PROVE IInv'
<1>1. /\ buffer' \in Seq(Text \cup {NL}) /\ size' \in {"start", "own", "other"} /\ pc = "parse"
  BY LineSeen, LineTaken DEF GiveCommand
<1> QED BY <1>1 DEF IInv, TypeOK, GiveCommand, sessions, users, sets, RehashLeaves,
        ListHoldsLiveSessions, WalkStaysInList, ListedSessionsHaveSockets, LoginIsBackedByUser,
        NoLineLeftBehind

LEMMA RehashIInv == ASSUME IInv, Rehash PROVE IInv'
<1>1. /\ buffer' \in Seq(Text \cup {NL}) /\ size' \in {"start", "own", "other"} /\ pc = "parse"
  BY LineSeen, LineTaken DEF Rehash
<1>2. Members(dccs) \subseteq Addr
  BY DEF IInv, TypeOK, ListHoldsLiveSessions
<1>3. /\ UNCHANGED <<sess, live, dccs, hup, hash, rset, wset, pc, at>>
      /\ old' = Members(dccs) /\ record' = "moved" /\ cfgType' \in HashType \cup {NoType}
  BY DEF Rehash, sets
<1>4. TypeOK' /\ RehashLeaves'
  BY <1>1, <1>2, <1>3 DEF IInv, TypeOK, RehashLeaves
<1>5. ListHoldsLiveSessions' /\ WalkStaysInList' /\ NoLineLeftBehind'
  BY <1>1, <1>3 DEF IInv, ListHoldsLiveSessions, WalkStaysInList, NoLineLeftBehind
<1>6. ListedSessionsHaveSockets' /\ LoginIsBackedByUser'
  BY <1>3 DEF IInv, ListedSessionsHaveSockets, LoginIsBackedByUser
<1> QED BY <1>1, <1>3, <1>4, <1>5, <1>6 DEF IInv

\* parse_dcc_line frees the session it handles a line of.
LEMMA LineRemoval ==
    ASSUME IInv, NEW status, LineReady(status), RemoveSession(at, at \notin old)
    PROVE  /\ sess' \in [Addr -> Session]
           /\ live' = live \ {at} /\ IsList(dccs', Addr)
           /\ live' \subseteq Members(dccs') /\ Members(dccs') \ live' \subseteq old'
           /\ old' \subseteq old
           /\ record = "moved" => Members(dccs') \subseteq old'
           /\ hup' \subseteq live'
           /\ \A s \in live' : sess'[s] = sess[s]
           /\ \A s \in Addr \ live' : sess'[s] = BlankSession
           /\ NextSession \in Addr \cup {Null}
           /\ NextSession # Null => /\ InForward(dccs', NextSession)
                                    /\ NextSession \in live' \/ NextSession \in old'
<1>1. at \in live /\ InForward(dccs, at)
  BY LineSeen
<1>2. at \notin old => record # "moved"
  BY <1>1 DEF IInv, RehashLeaves, ListHoldsLiveSessions
<1>3. (at \notin old) \in BOOLEAN /\ (~(at \notin old) => at \in old)
  OBVIOUS
<1> QED BY <1>1, <1>2, <1>3, Removal

LEMMA RefuseLoginIInv == ASSUME IInv, RefuseLogin PROVE IInv'
<1>1. PICK status \in {Connected, HasUsername} : LineReady(status)
  BY DEF RefuseLogin, Refused
<1>2. /\ RemoveSession(at, at \notin old) /\ TakeLine /\ ~HasLine(LineRest(buffer))
      /\ pc' = "walk" /\ at' = NextSession
      /\ UNCHANGED <<hash, cfgType, record, rset, wset>>
  BY DEF RefuseLogin, users, sets
<1>3. /\ buffer' \in Seq(Text \cup {NL}) /\ size' \in {"start", "own", "other"}
      /\ ~HasLine(buffer') /\ pc = "parse"
  BY <1>1, <1>2, LineSeen, LineTaken
<1>4. /\ sess' \in [Addr -> Session]
      /\ live' = live \ {at} /\ IsList(dccs', Addr)
      /\ live' \subseteq Members(dccs') /\ Members(dccs') \ live' \subseteq old'
      /\ old' \subseteq old
      /\ record = "moved" => Members(dccs') \subseteq old'
      /\ hup' \subseteq live'
      /\ \A s \in live' : sess'[s] = sess[s]
      /\ \A s \in Addr \ live' : sess'[s] = BlankSession
      /\ at' \in Addr \cup {Null}
      /\ at' # Null => InForward(dccs', at') /\ (at' \in live' \/ at' \in old')
  BY <1>1, <1>2, LineRemoval
<1> QED BY <1>2, <1>3, <1>4 DEF IInv, TypeOK, RehashLeaves, ListHoldsLiveSessions,
        WalkStaysInList, ListedSessionsHaveSockets, LoginIsBackedByUser, NoLineLeftBehind

LEMMA UseAfterFreeIInv == ASSUME IInv, UseAfterFree PROVE IInv'
<1>1. PICK status \in {Connected, HasUsername} : LineReady(status)
  BY DEF UseAfterFree, Refused
<1>2. /\ RemoveSession(at, at \notin old) /\ pc' = "fault"
      /\ UNCHANGED <<hash, cfgType, buffer, size, record, rset, wset, at>>
  BY DEF UseAfterFree, users, input, sets
<1>3. /\ sess' \in [Addr -> Session]
      /\ live' = live \ {at} /\ IsList(dccs', Addr)
      /\ live' \subseteq Members(dccs') /\ Members(dccs') \ live' \subseteq old'
      /\ old' \subseteq old
      /\ record = "moved" => Members(dccs') \subseteq old'
      /\ hup' \subseteq live'
      /\ \A s \in live' : sess'[s] = sess[s]
      /\ \A s \in Addr \ live' : sess'[s] = BlankSession
  BY <1>1, <1>2, LineRemoval
<1> QED BY <1>2, <1>3 DEF IInv, TypeOK, RehashLeaves, ListHoldsLiveSessions,
        WalkStaysInList, ListedSessionsHaveSockets, LoginIsBackedByUser, NoLineLeftBehind

LEMMA ParseEndIInv == ASSUME IInv, ParseEnd PROVE IInv'
<1>1. InForward(dccs, at)
  BY Current DEF ParseEnd
<1>2. /\ at' \in Addr \cup {Null}
      /\ at' # Null => InForward(dccs, at') /\ (at' \in live \/ at' \in old)
  BY <1>1, Advance DEF ParseEnd
<1> QED BY <1>2 DEF IInv, TypeOK, ParseEnd, sessions, users, input, sets, RehashLeaves,
        ListHoldsLiveSessions, WalkStaysInList, ListedSessionsHaveSockets, LoginIsBackedByUser,
        NoLineLeftBehind

-----------------------------------------------------------------------------
LEMMA NextIInv == IInv /\ [Next]_vars => IInv'
<1> SUFFICES ASSUME IInv, [Next]_vars PROVE IInv'
  OBVIOUS
<1>1. CASE UNCHANGED vars
  BY <1>1 DEF vars, sessions, users, input, sets, IInv, TypeOK, RehashLeaves,
     ListHoldsLiveSessions, WalkStaysInList,
     ListedSessionsHaveSockets, LoginIsBackedByUser, NoLineLeftBehind
<1>2. CASE \E s \in Addr : HangUp(s)
  BY <1>2, HangUpIInv
<1>3. CASE DccIn
  BY <1>3, RecvErrorIInv, RecvClosedIInv, RecvDataIInv, GiveUsernameIInv,
     GivePasswordIInv, GiveCommandIInv, RehashIInv, RefuseLoginIInv, UseAfterFreeIInv,
     FaultIInv, ParseEndIInv DEF DccIn
<1>4. CASE ConnectOk \/ ConnectFailed \/ NothingToDo \/ MeetsFreed \/ WalkEnd
  BY <1>4, ConnectOkIInv, ConnectFailedIInv, NothingToDoIInv, MeetsFreedIInv, WalkEndIInv
<1>5. CASE \E a \in Addr : NewDccConnection(a) \/ InitiateDccChat(a)
  BY <1>5, NewDccConnectionIInv, InitiateDccChatIInv
<1>6. CASE \E u \in User, w \in Word : NewUserPass(u, w)
  BY <1>6, NewUserPassIInv
<1>7. CASE FdSet \/ Select \/ NoNewConnection \/ ReadsFreed
  BY <1>7, FdSetIInv, SelectIInv, NoNewConnectionIInv, FaultIInv
<1> QED BY <1>1, <1>2, <1>3, <1>4, <1>5, <1>6, <1>7 DEF Next, Loop, Walk

THEOREM DccInvariant == Spec => []IInv
BY InitIInv, NextIInv, PTL DEF Spec

\* Every field of every session keeps its type, for any traffic.
THEOREM DccTypes == Spec => []TypeOK
<1>1. IInv => TypeOK
  BY DEF IInv
<1> QED BY <1>1, DccInvariant, PTL

\* Whatever order connections, refusals and disconnects come in, net->dccs
\* holds exactly the sessions that are allocated.
THEOREM NoSessionDanglesOrLeaks == Spec => []ListHoldsLiveSessions
<1>1. IInv => ListHoldsLiveSessions
  BY DEF IInv
<1> QED BY <1>1, DccInvariant, PTL

\* The loop's own pointer is never left behind by a deletion.
THEOREM WalkNeverLeavesTheList == Spec => []WalkStaysInList
<1>1. IInv => WalkStaysInList
  BY DEF IInv
<1> QED BY <1>1, DccInvariant, PTL

\* Nobody is logged in without having named a user with the flag p who has a
\* password.
THEOREM LoginsAreBacked == Spec => []LoginIsBackedByUser
<1>1. IInv => LoginIsBackedByUser
  BY DEF IInv
<1> QED BY <1>1, DccInvariant, PTL

\* A session without a socket leaves the list in the pass in which it lost it,
\* so that select() is given live descriptors only.
THEOREM ListedSessionsArePollable == Spec => []ListedSessionsHaveSockets
<1>1. IInv => ListedSessionsHaveSockets
  BY DEF IInv
<1> QED BY <1>1, DccInvariant, PTL

\* dcc_in hands on every complete line before it returns.
THEOREM LinesAreHandedOn == Spec => []NoLineLeftBehind
<1>1. IInv => NoLineLeftBehind
  BY DEF IInv
<1> QED BY <1>1, DccInvariant, PTL
-----------------------------------------------------------------------------
\* The ids of outgoing sessions: two sessions that share one are neighbours.
IdsAdjacent ==
    \A i, j \in DOMAIN dccs.items :
        /\ i < j
        /\ sess[dccs.items[i]].idx = sess[dccs.items[j]].idx
        /\ sess[dccs.items[i]].idx > 0
        => j = i + 1

\* The list's sequence, its length and its elements.
LEMMA Listing ==
    ASSUME IInv
    PROVE  /\ dccs.items \in Seq(Addr) /\ Len(dccs.items) \in Nat
           /\ DOMAIN dccs.items = 1..Len(dccs.items)
           /\ \A i \in 1..Len(dccs.items) : dccs.items[i] \in Addr /\ dccs.items[i] \in Members(dccs)
BY PositionIsUnique, ElementOfSeq DEF IInv, TypeOK, IsList

\* Every id is at most the new one, and only the last session may have it.
LEMMA NewIdxIsFresh ==
    ASSUME IInv
    PROVE  \A i \in 1..(Len(dccs.items) - 1) : sess[dccs.items[i]].idx < NewIdx
<1> DEFINE n == Len(dccs.items)
           S == {sess[dccs.items[i]].idx : i \in 1..(n - 1)} \cup {sess[dccs.items[1]].idx}
<1> SUFFICES ASSUME NEW i \in 1..(n - 1) PROVE sess[dccs.items[i]].idx < NewIdx
  OBVIOUS
<1>1. n \in Nat /\ n > 0 /\ \A k \in 1..n : dccs.items[k] \in Addr
  BY Listing
<1>2. \A k \in 1..n : sess[dccs.items[k]].idx \in -1..MaxIdx
  BY <1>1 DEF IInv, TypeOK, Session
<1>3. \A x \in S : x \in -1..MaxIdx
  BY <1>1, <1>2
<1>4. S \in SUBSET Int /\ S # {} /\ MaxIdx \in Int /\ \A x \in S : x <= MaxIdx
  BY <1>3
<1>5. dccs # EmptyList
  <2>1. CASE dccs = EmptyList
    <3>1. dccs.items = << >>
      BY <2>1 DEF EmptyList
    <3> QED BY <3>1, <1>1, EmptySeq
  <2> QED BY <2>1
<1>6. sess[dccs.items[i]].idx \in S
  OBVIOUS
<1>7. NewIdx = 1 + Max(S)
  BY <1>5 DEF NewIdx
<1> HIDE DEF S
<1>8. Max(S) \in S /\ \A x \in S : x <= Max(S)
  BY <1>4, MaxOfBounded
<1> DEFINE m == Max(S)
<1>9. m \in Int /\ sess[dccs.items[i]].idx \in Int /\ sess[dccs.items[i]].idx <= m
  BY <1>4, <1>6, <1>8
<1>10. NewIdx = 1 + m
  BY <1>7
<1> HIDE DEF m
<1> QED BY <1>9, <1>10

\* A session that joins the list shares an id with the last one at most.
LEMMA IdsAdded ==
    ASSUME IInv, IdsAdjacent, NEW a \in Addr, a \notin Members(dccs), NEW status,
           NEW idx \in Int, idx <= 0 \/ idx = NewIdx,
           dccs' = ListAdd(dccs, a), sess' = [sess EXCEPT ![a] = OpenSession(status, idx)]
    PROVE  IdsAdjacent'
<1> DEFINE n == Len(dccs.items)
<1>1. /\ dccs.items \in Seq(Addr) /\ n \in Nat /\ DOMAIN dccs.items = 1..n
      /\ \A i \in 1..n : dccs.items[i] \in Addr /\ dccs.items[i] \in Members(dccs)
  BY Listing
<1>2. dccs'.items = Append(dccs.items, a)
  BY DEF ListAdd
<1>3. /\ DOMAIN dccs'.items = 1..(n + 1)
      /\ \A i \in 1..n : dccs'.items[i] = dccs.items[i]
      /\ dccs'.items[n + 1] = a
  BY <1>1, <1>2, AppendProperties
<1>4. sess'[a].idx = idx /\ \A s \in Addr : s # a => sess'[s] = sess[s]
  BY DEF OpenSession, IInv, TypeOK
<1>5. \A i \in 1..n : sess'[dccs'.items[i]].idx = sess[dccs.items[i]].idx
  BY <1>1, <1>3, <1>4
<1>6. \A i \in 1..n : sess[dccs.items[i]].idx \in Int
  <2>1. \A s \in Addr : sess[s] \in Session
    BY DEF IInv, TypeOK
  <2>2. \A r \in Session : r.idx \in -1..MaxIdx
    BY DEF Session
  <2>3. \A s \in Addr : sess[s].idx \in Int
    BY <2>1, <2>2, DccAssumption DEF DccAssumption
  <2> QED BY <1>1, <2>3
<1> SUFFICES ASSUME NEW i \in DOMAIN dccs'.items, NEW j \in DOMAIN dccs'.items, i < j,
                    sess'[dccs'.items[i]].idx = sess'[dccs'.items[j]].idx,
                    sess'[dccs'.items[i]].idx > 0
             PROVE  j = i + 1
  BY DEF IdsAdjacent
<1>7. i \in 1..n
  BY <1>1, <1>3
<1>8. CASE j \in 1..n
  BY <1>1, <1>5, <1>7, <1>8 DEF IdsAdjacent
<1>9. CASE j = n + 1
  <2>1. sess[dccs.items[i]].idx = NewIdx
    <3>1. sess'[dccs'.items[j]].idx = idx
      BY <1>3, <1>4, <1>9
    <3>2. sess[dccs.items[i]].idx = idx /\ idx > 0
      BY <3>1, <1>5, <1>7
    <3> QED BY <3>2
  <2>2. ~(i \in 1..(n - 1))
    BY <2>1, <1>6, <1>7, NewIdxIsFresh
  <2> QED BY <2>2, <1>1, <1>7, <1>9
<1> QED BY <1>1, <1>3, <1>8, <1>9

\* A session that is freed has no id, whether or not it is still linked.
LEMMA IdsRemoved ==
    ASSUME IInv, IdsAdjacent, at \in live, InForward(dccs, at), NEW listed \in BOOLEAN,
           RemoveSession(at, listed)
    PROVE  IdsAdjacent'
<1> DEFINE n == Len(dccs.items)
           k == Position(dccs, at)
<1>1. /\ dccs.items \in Seq(Addr) /\ n \in Nat /\ DOMAIN dccs.items = 1..n
      /\ \A i \in 1..n : dccs.items[i] \in Addr
  BY Listing
<1>2. sess' = [sess EXCEPT ![at] = BlankSession] /\ at \in Addr
  BY DEF RemoveSession, IInv, TypeOK
<1>3. \A s \in Addr : sess'[s].idx > 0 => sess'[s].idx = sess[s].idx
  BY <1>2 DEF BlankSession, IInv, TypeOK
<1>4. CASE ~listed
  <2>1. dccs' = dccs
    BY <1>4 DEF RemoveSession
  <2> SUFFICES ASSUME NEW i \in 1..n, NEW j \in 1..n, i < j,
                      sess'[dccs.items[i]].idx = sess'[dccs.items[j]].idx,
                      sess'[dccs.items[i]].idx > 0
               PROVE  j = i + 1
    BY <2>1, <1>1 DEF IdsAdjacent
  <2>2. sess'[dccs.items[i]].idx = sess[dccs.items[i]].idx /\ sess'[dccs.items[j]].idx = sess[dccs.items[j]].idx
    BY <1>1, <1>3
  <2> QED BY <2>2, <1>1 DEF IdsAdjacent
<1>5. CASE listed
  <2>1. k \in 1..n
    BY PositionOfMember DEF InForward, IInv, TypeOK
  <2>2. dccs'.items = RemoveAt(dccs.items, k)
    BY <1>5 DEF RemoveSession, ListDel, RemoveNode
  <2>3. /\ DOMAIN dccs'.items = 1..(n - 1)
        /\ \A i \in 1..(n - 1) : dccs'.items[i] = IF i < k THEN dccs.items[i] ELSE dccs.items[i + 1]
    BY <1>1, <2>1, <2>2, RemoveAtElements
  <2> HIDE DEF k
  <2> SUFFICES ASSUME NEW i \in 1..(n - 1), NEW j \in 1..(n - 1), i < j,
                      sess'[dccs'.items[i]].idx = sess'[dccs'.items[j]].idx,
                      sess'[dccs'.items[i]].idx > 0
               PROVE  j = i + 1
    BY <2>3 DEF IdsAdjacent
  <2> DEFINE x == IF i < k THEN i ELSE i + 1
             y == IF j < k THEN j ELSE j + 1
  <2>4. /\ x \in 1..n /\ y \in 1..n /\ x < y
        /\ dccs'.items[i] = dccs.items[x] /\ dccs'.items[j] = dccs.items[y]
    BY <1>1, <2>1, <2>3
  <2>5. y = x + 1 => j = i + 1
    BY <1>1, <2>1
  <2> HIDE DEF x, y
  <2>6. sess[dccs.items[x]].idx = sess[dccs.items[y]].idx /\ sess[dccs.items[x]].idx > 0
    BY <1>1, <1>3, <2>4
  <2> QED BY <2>4, <2>5, <2>6, <1>1 DEF IdsAdjacent
<1> QED BY <1>4, <1>5

\* No other step changes the list or an id.
LEMMA IdsKept ==
    ASSUME IInv, IdsAdjacent, dccs' = dccs, \A s \in Addr : sess'[s].idx = sess[s].idx
    PROVE  IdsAdjacent'
<1>1. \A i \in DOMAIN dccs.items : dccs.items[i] \in Addr
  BY Listing
<1> QED BY <1>1 DEF IdsAdjacent

LEMMA NextIds == IInv /\ IdsAdjacent /\ [Next]_vars => IdsAdjacent'
<1> SUFFICES ASSUME IInv, IdsAdjacent, [Next]_vars PROVE IdsAdjacent'
  OBVIOUS
<1>0. sess \in [Addr -> Session]
  BY DEF IInv, TypeOK
<1>1. CASE \/ UNCHANGED vars \/ \E s \in Addr : HangUp(s)
           \/ Select \/ NoNewConnection \/ ReadsFreed \/ NothingToDo \/ MeetsFreed \/ WalkEnd
           \/ RecvError \/ (\E c \in Chunk : RecvData(c)) \/ GiveCommand \/ Rehash \/ ReadsNull
           \/ ParseEnd \/ (\E u \in User, w \in Word : NewUserPass(u, w))
  <2>1. dccs' = dccs /\ sess' = sess
    BY <1>1 DEF vars, sessions, HangUp, Select, NoNewConnection, ReadsFreed, NothingToDo, MeetsFreed,
       WalkEnd, RecvError, RecvData, GiveCommand, Rehash, ReadsNull, ParseEnd, NewUserPass
  <2> QED BY <2>1, IdsKept
<1>2. CASE FdSet \/ ConnectOk \/ GiveUsername \/ GivePassword
  <2>1. dccs' = dccs
    BY <1>2 DEF FdSet, ConnectOk, GiveUsername, GivePassword
  <2>2. \A s \in Addr : sess'[s].idx = sess[s].idx
    <3>1. CASE FdSet
      BY <3>1, <1>0 DEF FdSet, Session
    <3>2. CASE ConnectOk \/ GivePassword
      <4>1. \E status : sess' = [sess EXCEPT ![at].status = status]
        BY <3>2 DEF ConnectOk, GivePassword
      <4>2. PICK status : sess' = [sess EXCEPT ![at].status = status]
        BY <4>1
      <4> SUFFICES ASSUME NEW s \in Addr PROVE sess'[s].idx = sess[s].idx
        OBVIOUS
      <4>3. sess[s] \in Session
        BY <1>0
      <4>4. CASE s = at
        <5>1. sess'[s] = [sess[s] EXCEPT !.status = status]
          BY <1>0, <4>2, <4>4
        <5> QED BY <4>3, <5>1 DEF Session
      <4>5. CASE s # at
        BY <1>0, <4>2, <4>5
      <4> QED BY <4>4, <4>5
    <3>3. CASE GiveUsername
      BY <3>3, <1>0 DEF GiveUsername, Session
    <3> QED BY <1>2, <3>1, <3>2, <3>3
  <2> QED BY <2>1, <2>2, IdsKept
<1>3. CASE RecvClosed \/ ConnectFailed
  <2>1. Standing /\ RemoveSession(at, LoopIsCurrent) /\ LoopIsCurrent \in BOOLEAN
    BY <1>3 DEF RecvClosed, ConnectFailed, LoopIsCurrent
  <2> QED BY <2>1, Current, IdsRemoved
<1>4. CASE RefuseLogin \/ UseAfterFree
  <2>1. (\E status : LineReady(status)) /\ RemoveSession(at, at \notin old)
        /\ (at \notin old) \in BOOLEAN
    BY <1>4 DEF RefuseLogin, UseAfterFree, Refused
  <2> QED BY <2>1, LineSeen, IdsRemoved
<1>5. ASSUME NEW a \in Addr, NewDccConnection(a) PROVE IdsAdjacent'
  <2>1. /\ a \notin Members(dccs) /\ dccs' = ListAdd(dccs, a)
        /\ sess' = [sess EXCEPT ![a] = OpenSession(NotReady, -1)]
    BY <1>5 DEF NewDccConnection
  <2>2. -1 \in Int /\ -1 <= 0
    OBVIOUS
  <2> QED BY <2>1, <2>2, IdsAdded
<1>6. ASSUME NEW a \in Addr, InitiateDccChat(a) PROVE IdsAdjacent'
  <2>1. /\ a \notin Members(dccs) /\ dccs' = ListAdd(dccs, a)
        /\ sess' = [sess EXCEPT ![a] = OpenSession(NonBlockConnect, NewIdx)]
    BY <1>6 DEF InitiateDccChat, Online, IInv, RehashLeaves, ListHoldsLiveSessions
  <2>2. NewIdx \in Int
    BY NewIdxIsNat
  <2> QED BY <2>1, <2>2, IdsAdded
<1> QED BY <1>1, <1>2, <1>3, <1>4, <1>5, <1>6 DEF Next, Loop, Walk, DccIn

LEMMA InitIds == Init => IdsAdjacent
BY EmptySeq DEF Init, EmptyList, IdsAdjacent

\* The first of what a search along the list picks.
LEMMA FirstPicked ==
    ASSUME NEW s \in Seq(Addr), NEW I
    PROVE  LET t == Picked(s, I)
           IN  /\ t \in Seq(Addr)
               /\ \A x \in ToSet(t) : \E i \in I \cap (1..Len(s)) : x = s[i]
               /\ I \cap (1..Len(s)) # {} => t # << >>
               /\ t # << >> => \E i \in I \cap (1..Len(s)) :
                                  Head(t) = s[i] /\ \A j \in I \cap (1..Len(s)) : i <= j
<1> DEFINE t == Picked(s, I)
<1>1. t \in Seq(Addr) /\ Selects(t, s, I, Len(s))
  BY PickedElements
<1> HIDE DEF t
<1>2. PICK pos \in [1..Len(t) -> I \cap (1..Len(s))] :
        /\ \A k \in 1..Len(t) : t[k] = s[pos[k]]
        /\ \A j, k \in 1..Len(t) : j < k => pos[j] < pos[k]
        /\ \A i \in I \cap (1..Len(s)) : \E k \in 1..Len(t) : pos[k] = i
  BY <1>1 DEF Selects
<1>3. Len(t) \in Nat /\ DOMAIN t = 1..Len(t) /\ Len(s) \in Nat
  BY <1>1
<1>4. \A x \in ToSet(t) : \E i \in I \cap (1..Len(s)) : x = s[i]
  BY <1>2, <1>3 DEF ToSet
<1>5. I \cap (1..Len(s)) # {} => t # << >>
  <2>1. ASSUME t = << >>, NEW i \in I \cap (1..Len(s)) PROVE FALSE
    <3>1. Len(t) = 0
      BY <2>1
    <3> QED BY <3>1, <1>2
  <2> QED BY <2>1
<1>6. ASSUME t # << >>
      PROVE  \E i \in I \cap (1..Len(s)) :
                Head(t) = s[i] /\ \A j \in I \cap (1..Len(s)) : i <= j
  <2>1. 1 \in 1..Len(t) /\ Head(t) = t[1]
    BY <1>1, <1>3, <1>6, EmptySeq
  <2>2. pos[1] \in I \cap (1..Len(s)) /\ Head(t) = s[pos[1]]
    BY <1>2, <2>1
  <2>3. ASSUME NEW j \in I \cap (1..Len(s)) PROVE pos[1] <= j
    <3>1. PICK k \in 1..Len(t) : pos[k] = j
      BY <1>2
    <3>2. CASE k = 1
      BY <3>1, <3>2, <2>2
    <3>3. CASE 1 < k
      <4>1. pos[1] < pos[k]
        BY <1>2, <2>1, <3>3
      <4> QED BY <3>1, <4>1, <2>2
    <3> QED BY <3>2, <3>3, <1>3
  <2> QED BY <2>2, <2>3
<1> QED BY <1>1, <1>4, <1>5, <1>6 DEF t

\* What a walk from the kept pointer meets, by its positions in the list.
LEMMA MetPositions ==
    ASSUME IInv
    PROVE  LET met == Forward(dccs)
           IN  /\ met \in Seq(Addr)
               /\ \A i \in 1..Len(met) :
                    /\ dccs.head + i - 1 \in 1..Len(dccs.items)
                    /\ met[i] = dccs.items[dccs.head + i - 1]
<1>1. /\ dccs.items \in Seq(Addr) /\ dccs.head \in 0..Len(dccs.items)
      /\ Len(dccs.items) \in Nat
  BY DEF IInv, TypeOK, IsList
<1>2. CASE dccs.head = 0
  <2>1. Forward(dccs) = << >>
    BY <1>2 DEF Forward
  <2> QED BY <2>1, EmptySeq
<1>3. CASE dccs.head # 0
  <2> DEFINE f == SubSeq(dccs.items, dccs.head, Len(dccs.items))
  <2>1. /\ f \in Seq(Addr) /\ Len(f) = Len(dccs.items) - dccs.head + 1
        /\ \A i \in 1..(Len(dccs.items) - dccs.head + 1) : f[i] = dccs.items[dccs.head + i - 1]
    BY <1>1, <1>3, SubSeqProperties
  <2>2. Forward(dccs) = f
    BY <1>3 DEF Forward
  <2> HIDE DEF f
  <2> QED BY <1>1, <1>3, <2>1, <2>2
<1> QED BY <1>2, <1>3

\* The doubled ids that the scan of initiate_dcc_chat gives out stay harmless:
\* what is sent to the id hand2idx gives for a user reaches that user's session
\* or the one in front of it, however many sessions come, fail and go.
THEOREM IdsNameNeighbours == Spec => []IdsAreNearlyUnique
<1>1. ASSUME IInv, IdsAdjacent PROVE IdsAreNearlyUnique
  <2> DEFINE met == Forward(dccs)
  <2>1. /\ met \in Seq(Addr) /\ Len(met) \in Nat /\ DOMAIN met = 1..Len(met)
        /\ \A i \in 1..Len(met) : /\ dccs.head + i - 1 \in 1..Len(dccs.items)
                                  /\ met[i] = dccs.items[dccs.head + i - 1]
    BY <1>1, MetPositions
  <2> HIDE DEF met
  <2> SUFFICES ASSUME NEW u \in User, Hand2Idx(u) > 0
               PROVE  \/ PutDcc(Hand2Idx(u)) = SessionOf(u)
                      \/ Successor(dccs, PutDcc(Hand2Idx(u)), Null) = SessionOf(u)
    BY DEF IdsAreNearlyUnique
  <2> DEFINE s == SessionOf(u)
             idx == sess[s].idx
             R == {i \in DOMAIN met : sess[met[i]].status >= NotReady}
             H == {i \in DOMAIN Ready : sess[Ready[i]].user = u}
             J == {i \in DOMAIN met : sess[met[i]].idx = idx}
  <2>2. /\ Hand2Idx(u) = idx /\ idx > 0
        /\ Picked(Ready, H) # << >> /\ s = Head(Picked(Ready, H))
    BY DEF Hand2Idx, SessionOf
  <2>3. Ready = Picked(met, R)
    BY DEF Ready, met
  <2>4. /\ Ready \in Seq(Addr)
        /\ \A x \in ToSet(Ready) : \E i \in R \cap (1..Len(met)) : x = met[i]
    <3> HIDE DEF R
    <3> QED BY <2>1, <2>3, FirstPicked
  <2>5. PICK i \in 1..Len(Ready) : s = Ready[i]
    <3> HIDE DEF H
    <3> QED BY <2>2, <2>4, FirstPicked
  <2>6. s \in ToSet(Ready)
    BY <2>4, <2>5 DEF ToSet
  <2>7. PICK j \in 1..Len(met) : s = met[j]
    BY <2>4, <2>6
  <2>8. PutDcc(idx) = IF Picked(met, J) = << >> THEN Null ELSE Head(Picked(met, J))
    BY DEF PutDcc, met
  <2>9. j \in J \cap (1..Len(met))
    BY <2>1, <2>7
  <2>10. PICK k \in J \cap (1..Len(met)) : PutDcc(idx) = met[k] /\ k <= j
    <3> HIDE DEF J
    <3> QED BY <2>1, <2>8, <2>9, FirstPicked
  <2>11. sess[met[k]].idx = idx
    BY <2>10
  <2> DEFINE x == dccs.head + k - 1
             y == dccs.head + j - 1
  <2>12. /\ x \in 1..Len(dccs.items) /\ y \in 1..Len(dccs.items)
         /\ PutDcc(idx) = dccs.items[x] /\ s = dccs.items[y]
         /\ x = y \/ x < y
    <3>1. dccs.head \in Nat /\ k \in Nat /\ j \in Nat
      BY <1>1, <2>1 DEF IInv, TypeOK, IsList
    <3>2. /\ x \in 1..Len(dccs.items) /\ y \in 1..Len(dccs.items)
          /\ met[k] = dccs.items[x] /\ met[j] = dccs.items[y]
      BY <2>1
    <3>3. x = y \/ x < y
      BY <3>1, <2>10
    <3>4. PutDcc(idx) = met[k] /\ s = met[j]
      BY <2>7, <2>10
    <3> QED BY <3>2, <3>3, <3>4
  <2> HIDE DEF x, y, s
  <2>13. CASE x = y
    BY <2>2, <2>12, <2>13 DEF s
  <2>14. CASE x < y
    <3>1. y = x + 1
      <4>1. sess[dccs.items[x]].idx = sess[dccs.items[y]].idx /\ sess[dccs.items[x]].idx > 0
        BY <2>2, <2>10, <2>11, <2>12
      <4> QED BY <4>1, <1>1, <2>12, <2>14, Listing DEF IdsAdjacent
    <3>2. Position(dccs, dccs.items[x]) = x
      BY <1>1, <2>12, PositionIsUnique DEF IInv, TypeOK
    <3>3. Successor(dccs, PutDcc(idx), Null) = s
      BY <3>1, <3>2, <2>12, <1>1, Listing DEF Successor
    <3> QED BY <3>3, <2>2 DEF s
  <2> QED BY <2>12, <2>13, <2>14
<1>2. Init => IInv /\ IdsAdjacent
  BY InitIInv, InitIds
<1>3. IInv /\ IdsAdjacent /\ [Next]_vars => IInv' /\ IdsAdjacent'
  BY NextIInv, NextIds
<1> QED BY <1>1, <1>2, <1>3, PTL DEF Spec
=============================================================================
