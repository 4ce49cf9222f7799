------------------------- MODULE ConnectionsProofs --------------------------
(* The invariants of Connections, for any number of networks, tsockets and *)
(* rehashes, and of what is read from them (IrcInput), for any lines.      *)
EXTENDS Listener, IrcInput, SequenceTheorems, FiniteSetTheorems, TLAPS

Lists == INSTANCE CursorListProofs

\* A polled tsocket has a descriptor unless its connection has failed.
DescriptorMatchesStatus ==
    \A a \in tsockets : ts[a].sock = "none" <=> ts[a].status = "uninitialized"

RegisteredWhenUp ==
    pc # "gone" =>
        \A a \in tsockets : hello[a] = IF ts[a].sock = "open" /\ ts[a].status # "connecting"
                                       THEN 1 ELSE 0

\* The reconnect branch cannot meet a network that has a tsocket in the list.
DisconnectedHaveNone ==
    \A n \in nets : status[n] = "disconnected" => \A a \in tsockets : ts[a].data # n

\* The tsocket of an idle network is in the list, or it was left behind by a rehash.
IdleAreRegistered ==
    \A n \in nets : status[n] = "idle" /\ tsock[n] # Null =>
        /\ tsock[n] \in tsockets
        /\ ts[tsock[n]].data = n
        /\ hello[tsock[n]] = 1

\* What the walks of one pass rely on.
StartWalk ==
    pc = "start" => \A n \in todo : n \in nets /\ status[n] = "disconnected"

SetsAreCurrent ==
    /\ pc = "select" => /\ \A a \in rset : a \in tsockets /\ ts[a].status = "infdset"
                        /\ \A a \in wset : a \in tsockets /\ ts[a].status = "connecting"
    /\ pc = "dispatch" => /\ todo \subseteq tsockets
                          /\ \A a \in todo : /\ a \in rset => ts[a].status = "infdset"
                                             /\ a \in wset => ts[a].status = "connecting"

Inv ==
    /\ TypeOK
    /\ PolledSocketsBelong
    /\ DescriptorMatchesStatus
    /\ RegisteredWhenUp
    /\ DisconnectedHaveNone
    /\ IdleAreRegistered
    /\ StartWalk
    /\ SetsAreCurrent

\* The conjuncts of Inv that no walk's position enters.
StateInv ==
    /\ PolledSocketsBelong
    /\ DescriptorMatchesStatus
    /\ RegisteredWhenUp
    /\ DisconnectedHaveNone
    /\ IdleAreRegistered
-----------------------------------------------------------------------------
\* An attempt (network_connect) on a network without a tsocket keeps the
\* ownership, the registration and the types.
LEMMA AttemptKeepsState ==
    ASSUME Inv, NEW n \in nets, NEW a \in Addr, status[n] = "disconnected",
           NetworkConnect(n, a), pc' \in {"start", "fdset"}, pc # "gone"
    PROVE  /\ StateInv'
           /\ status' \in [Net -> {"disconnected", "inprogress", "idle"}]
           /\ tsock' \in [Net -> Addr \cup {Null}]
           /\ ts' \in [Addr -> Tsocket]
           /\ live' \subseteq Addr /\ tsockets' \subseteq Addr
           /\ hello' \in [Addr -> 0..1]
  <1>1. /\ n \in Net /\ a \notin live /\ a \notin tsockets
        /\ status' = [status EXCEPT ![n] = "inprogress"]
        /\ tsock' = [tsock EXCEPT ![n] = a]
        /\ nets' = nets
    BY DEF Inv, TypeOK, PolledSocketsBelong, NetworkConnect
  <1>2. \A b \in tsockets : b # a /\ ts[b].data # n
    BY <1>1 DEF Inv, DisconnectedHaveNone
  <1>3. status' \in [Net -> {"disconnected", "inprogress", "idle"}]
    BY <1>1 DEF Inv, TypeOK
  <1>4. tsock' \in [Net -> Addr \cup {Null}]
    BY <1>1 DEF Inv, TypeOK
  <1>5. ASSUME NEW s \in {"notinfdset", "connecting"},
               NEW h \in 0..1, h = IF s = "connecting" THEN 0 ELSE 1,
               Started(n, a, s, h)
        PROVE  /\ StateInv'
               /\ ts' \in [Addr -> Tsocket]
               /\ live' \subseteq Addr /\ tsockets' \subseteq Addr
               /\ hello' \in [Addr -> 0..1]
    <2>1. /\ ts' \in [Addr -> Tsocket]
          /\ live' \subseteq Addr /\ tsockets' \subseteq Addr
          /\ hello' \in [Addr -> 0..1]
      BY <1>1, <1>5 DEF Inv, TypeOK, Started, Tsocket, Status
    <2>2. /\ tsockets' = tsockets \cup {a}
          /\ live' = live \cup {a}
          /\ ts'[a] = [status |-> s, sock |-> "open", data |-> n]
          /\ hello'[a] = h
          /\ \A b \in tsockets : ts'[b] = ts[b] /\ hello'[b] = hello[b]
      BY <1>1, <1>2, <1>5 DEF Inv, TypeOK, Started
    <2>3. PolledSocketsBelong'
      BY <1>1, <1>2, <2>2 DEF Inv, TypeOK, PolledSocketsBelong
    <2>4. DescriptorMatchesStatus'
      BY <2>2 DEF Inv, DescriptorMatchesStatus
    <2>5. RegisteredWhenUp'
      BY <1>5, <2>2 DEF Inv, RegisteredWhenUp
    <2>6. DisconnectedHaveNone'
      BY <1>1, <2>2 DEF Inv, TypeOK, DisconnectedHaveNone
    <2>7. IdleAreRegistered'
      BY <1>1, <1>2, <2>2 DEF Inv, TypeOK, IdleAreRegistered
    <2> QED BY <2>1, <2>3, <2>4, <2>5, <2>6, <2>7 DEF StateInv
  <1>6. ASSUME UNCHANGED <<ts, hello, live, tsockets>>
        PROVE  /\ StateInv'
               /\ ts' \in [Addr -> Tsocket]
               /\ live' \subseteq Addr /\ tsockets' \subseteq Addr
               /\ hello' \in [Addr -> 0..1]
    <2>1. PolledSocketsBelong'
      BY <1>1, <1>2, <1>6 DEF Inv, TypeOK, PolledSocketsBelong
    <2>2. DescriptorMatchesStatus' /\ RegisteredWhenUp'
      BY <1>6 DEF Inv, DescriptorMatchesStatus, RegisteredWhenUp
    <2>3. DisconnectedHaveNone'
      BY <1>1, <1>6 DEF Inv, TypeOK, DisconnectedHaveNone
    <2>4. IdleAreRegistered'
      BY <1>1, <1>6 DEF Inv, TypeOK, IdleAreRegistered
    <2> QED BY <1>6, <2>1, <2>2, <2>3, <2>4 DEF StateInv, Inv, TypeOK
  <1>7. Started(n, a, "notinfdset", 1) \/ Started(n, a, "connecting", 0)
        \/ UNCHANGED <<ts, hello, live, tsockets>>
    BY DEF NetworkConnect
  <1> QED
    <2>1. CASE Started(n, a, "notinfdset", 1)
      BY <1>3, <1>4, <1>5, <2>1
    <2>2. CASE Started(n, a, "connecting", 0)
      BY <1>3, <1>4, <1>5, <2>2
    <2>3. CASE UNCHANGED <<ts, hello, live, tsockets>>
      BY <1>3, <1>4, <1>6, <2>3
    <2> QED BY <1>7, <2>1, <2>2, <2>3
-----------------------------------------------------------------------------
LEMMA InitInv == Init => Inv
  <1> SUFFICES ASSUME Init PROVE Inv
    OBVIOUS
  <1>1. TypeOK
    BY ConnectionsAssumption DEF Init, TypeOK, NewTsocket, Tsocket, Status
  <1>2. StateInv /\ StartWalk /\ SetsAreCurrent
    BY DEF Init, StateInv, PolledSocketsBelong, DescriptorMatchesStatus,
           RegisteredWhenUp, DisconnectedHaveNone, IdleAreRegistered,
           StartWalk, SetsAreCurrent
  <1> QED BY <1>1, <1>2 DEF Inv, StateInv

LEMMA ConnectingKeepsInv == Inv /\ Connecting => Inv'
  <1>1. ASSUME Inv, NEW n \in Net, NEW a \in Addr, StartUp(n, a) PROVE Inv'
    <2>1. /\ n \in nets /\ status[n] = "disconnected" /\ NetworkConnect(n, a)
          /\ pc = "start" /\ todo' = todo \ {n} /\ pc' \in {"start", "fdset"}
      BY <1>1 DEF StartUp, Inv, StartWalk
    <2>2. StateInv' /\ TypeOK'
      BY <1>1, <2>1, AttemptKeepsState DEF Inv, TypeOK, NetworkConnect
    <2>3. StartWalk'
      BY <1>1, <2>1 DEF Inv, TypeOK, StartWalk, NetworkConnect
    <2>4. SetsAreCurrent'
      BY <2>1 DEF SetsAreCurrent
    <2> QED BY <2>2, <2>3, <2>4 DEF Inv, StateInv
  <1>2. ASSUME Inv, NEW n \in Net, NEW a \in Addr, Reconnect(n, a) PROVE Inv'
    <2>1. /\ n \in nets /\ status[n] = "disconnected" /\ NetworkConnect(n, a)
          /\ pc = "fdset" /\ UNCHANGED <<todo, pc>>
      BY <1>2 DEF Reconnect, Disconnected
    <2>2. StateInv' /\ TypeOK'
      BY <1>2, <2>1, AttemptKeepsState DEF Inv, TypeOK, NetworkConnect
    <2>3. StartWalk' /\ SetsAreCurrent'
      BY <2>1 DEF StartWalk, SetsAreCurrent
    <2> QED BY <2>2, <2>3 DEF Inv, StateInv
  <1> QED BY <1>1, <1>2 DEF Connecting

LEMMA FdSetKeepsInv == Inv /\ FdSet => Inv'
  <1> SUFFICES ASSUME Inv, FdSet PROVE Inv'
    OBVIOUS
  <1>1. /\ rset' = {a \in tsockets : ts[a].status \in {"infdset", "notinfdset"}}
        /\ wset' = {a \in tsockets : ts[a].status = "connecting"}
        /\ ts' = [a \in Addr |-> IF a \in rset' THEN [ts[a] EXCEPT !.status = "infdset"]
                                 ELSE ts[a]]
        /\ pc = "fdset" /\ pc' = "select"
        /\ UNCHANGED <<nets, status, tsock, live, tsockets, hello, todo, rehashes>>
    BY DEF FdSet
  <1>2. /\ ts \in [Addr -> Tsocket]
        /\ tsockets \subseteq Addr
    BY DEF Inv, TypeOK
  <1>3. \A a \in tsockets :
            /\ ts'[a].data = ts[a].data
            /\ ts'[a].sock = ts[a].sock
            /\ ts'[a].status = IF a \in rset' THEN "infdset" ELSE ts[a].status
    BY <1>1, <1>2 DEF Tsocket
  <1>4. ts' \in [Addr -> Tsocket]
    BY <1>1, <1>2 DEF Tsocket, Status
  <1>5. TypeOK'
    BY <1>1, <1>4 DEF Inv, TypeOK
  <1>6. PolledSocketsBelong' /\ DisconnectedHaveNone'
    BY <1>1, <1>3 DEF Inv, PolledSocketsBelong, DisconnectedHaveNone
  <1>7. DescriptorMatchesStatus'
    BY <1>1, <1>3 DEF Inv, DescriptorMatchesStatus
  <1>8. RegisteredWhenUp'
    BY <1>1, <1>3 DEF Inv, RegisteredWhenUp
  <1>9. IdleAreRegistered'
    BY <1>1, <1>3 DEF Inv, IdleAreRegistered
  <1>10. StartWalk' /\ SetsAreCurrent'
    BY <1>1, <1>3 DEF StartWalk, SetsAreCurrent
  <1> QED BY <1>5, <1>6, <1>7, <1>8, <1>9, <1>10 DEF Inv

LEMMA SelectKeepsInv == Inv /\ Select => Inv'
  <1> SUFFICES ASSUME Inv, Select PROVE Inv'
    OBVIOUS
  <1> USE DEF Select
  <1>1. TypeOK'
    BY DEF Inv, TypeOK
  <1>2. StateInv'
    BY DEF Inv, StateInv, PolledSocketsBelong, DescriptorMatchesStatus,
           RegisteredWhenUp, DisconnectedHaveNone, IdleAreRegistered
  <1>3. StartWalk' /\ SetsAreCurrent'
    BY DEF Inv, StartWalk, SetsAreCurrent
  <1> QED BY <1>1, <1>2, <1>3 DEF Inv, StateInv
-----------------------------------------------------------------------------
\* What the visit of a tsocket may assume.
LEMMA Visited ==
    ASSUME Inv, NEW a \in Addr, Visit(a)
    PROVE  /\ a \in tsockets /\ a \in live
           /\ ts[a] \in Tsocket
           /\ ts[a].data \in nets /\ ts[a].data \in Net
           /\ tsock[ts[a].data] = a
           /\ pc = "dispatch"
  BY DEF Inv, TypeOK, Visit, SetsAreCurrent, PolledSocketsBelong, Tsocket

LEMMA ConnectOkKeepsInv == ASSUME Inv, NEW a \in Addr, ConnectOk(a) PROVE Inv'
  <1>1. /\ a \in tsockets /\ ts[a] \in Tsocket /\ ts[a].status = "connecting"
        /\ hello' = [hello EXCEPT ![a] = @ + 1]
        /\ ts' = [ts EXCEPT ![a].status = "notinfdset"]
        /\ pc = "dispatch" /\ pc' = "dispatch"
        /\ todo' = todo \ {a}
        /\ UNCHANGED <<nets, live, tsockets, rset, wset, rehashes, status, tsock>>
    BY Visited DEF ConnectOk, Visit
  <1>2. ts[a].sock = "open" /\ hello[a] = 0
    BY <1>1 DEF Inv, DescriptorMatchesStatus, RegisteredWhenUp, Tsocket
  <1>3. /\ ts'[a] = [ts[a] EXCEPT !.status = "notinfdset"]
        /\ hello'[a] = 1
        /\ \A b \in Addr \ {a} : ts'[b] = ts[b] /\ hello'[b] = hello[b]
    BY <1>1, <1>2 DEF Inv, TypeOK
  <1>4. TypeOK'
    BY <1>1, <1>2 DEF Inv, TypeOK, Tsocket, Status
  <1>5. \A b \in tsockets : b \in Addr
    BY DEF Inv, TypeOK
  <1>6. PolledSocketsBelong' /\ DisconnectedHaveNone'
    BY <1>1, <1>3, <1>5 DEF Inv, PolledSocketsBelong, DisconnectedHaveNone, Tsocket
  <1>7. DescriptorMatchesStatus' /\ RegisteredWhenUp'
    BY <1>1, <1>2, <1>3, <1>5 DEF Inv, DescriptorMatchesStatus, RegisteredWhenUp, Tsocket
  <1>8. IdleAreRegistered'
    BY <1>1, <1>2, <1>3, <1>5 DEF Inv, IdleAreRegistered, Tsocket
  <1>9. StartWalk' /\ SetsAreCurrent'
    BY <1>1, <1>3, <1>5 DEF Inv, StartWalk, SetsAreCurrent
  <1> QED BY <1>4, <1>6, <1>7, <1>8, <1>9 DEF Inv

\* A tsocket loses its descriptor before it has registered, or the process is gone.
Lost(a) ==
    /\ a \in tsockets /\ pc = "dispatch"
    /\ ts' = [ts EXCEPT ![a].status = "uninitialized", ![a].sock = "none"]
    /\ todo' = todo \ {a}
    /\ pc' = "gone" \/ (pc' = pc /\ hello[a] = 0)
    /\ UNCHANGED <<nets, live, tsockets, rset, wset, rehashes, status, tsock, hello>>

LEMMA LostKeepsInv == ASSUME Inv, NEW a \in Addr, Lost(a) PROVE Inv'
  <1>1. ts[a] \in Tsocket /\ (\A b \in tsockets : b \in Addr)
    BY DEF Inv, TypeOK
  <1>2. /\ ts'[a].status = "uninitialized" /\ ts'[a].sock = "none"
        /\ ts'[a].data = ts[a].data
        /\ \A b \in Addr : b # a => ts'[b] = ts[b]
        /\ nets' = nets /\ live' = live /\ tsockets' = tsockets /\ status' = status
        /\ tsock' = tsock /\ hello' = hello /\ rset' = rset /\ wset' = wset
        /\ todo' = todo \ {a}
        /\ pc = "dispatch"
        /\ pc' = "gone" \/ (pc' = "dispatch" /\ hello[a] = 0)
    BY <1>1 DEF Inv, TypeOK, Tsocket, Lost
  <1>3. TypeOK'
    BY <1>1 DEF Inv, TypeOK, Tsocket, Status, Lost
  <1>4. PolledSocketsBelong' /\ DisconnectedHaveNone'
    BY <1>1, <1>2 DEF Inv, PolledSocketsBelong, DisconnectedHaveNone
  <1>5. DescriptorMatchesStatus' /\ RegisteredWhenUp'
    BY <1>1, <1>2 DEF Inv, DescriptorMatchesStatus, RegisteredWhenUp
  <1>6. IdleAreRegistered'
    BY <1>1, <1>2 DEF Inv, IdleAreRegistered
  <1>7. StartWalk' /\ SetsAreCurrent'
    BY <1>1, <1>2 DEF Inv, StartWalk, SetsAreCurrent
  <1> QED BY <1>3, <1>4, <1>5, <1>6, <1>7 DEF Inv

LEMMA ConnectFailedKeepsInv == ASSUME Inv, NEW a \in Addr, ConnectFailed(a) PROVE Inv'
  <1>1. a \in tsockets /\ ts[a].status = "connecting" /\ pc = "dispatch"
    BY Visited DEF ConnectFailed
  <1>2. hello[a] = 0
    BY <1>1 DEF Inv, RegisteredWhenUp
  <1> QED BY <1>1, <1>2, LostKeepsInv DEF Lost, ConnectFailed, Visit

LEMMA IrcClosedKeepsInv == ASSUME Inv, NEW a \in Addr, IrcClosed(a) PROVE Inv'
  <1>1. a \in tsockets /\ tsock[ts[a].data] = a /\ pc = "dispatch"
    BY Visited DEF IrcClosed
  <1>2. ts' = [ts EXCEPT ![a].status = "uninitialized", ![a].sock = "none"]
    BY <1>1, Zenon DEF IrcClosed
  <1> QED BY <1>1, <1>2, LostKeepsInv DEF Lost, IrcClosed, Visit

LEMMA IrcInKeepsInv == ASSUME Inv, NEW a \in Addr, IrcIn(a) PROVE Inv'
  <1>1. /\ a \in tsockets /\ ts[a].data \in Net /\ tsock[ts[a].data] = a
        /\ ts[a] \in Tsocket /\ ts[a].status = "infdset" /\ pc = "dispatch"
    BY Visited DEF IrcIn
  <1>2. /\ todo' = todo \ {a}
        /\ UNCHANGED <<nets, live, tsockets, rset, wset, rehashes, tsock, ts, hello, pc>>
        /\ status' = status \/ status' = [status EXCEPT ![ts[a].data] = "idle"]
    BY DEF IrcIn, Visit
  <1>3. hello[a] = 1
    BY <1>1 DEF Inv, DescriptorMatchesStatus, RegisteredWhenUp, Tsocket
  <1>4. \A n \in Net : /\ n # ts[a].data => status'[n] = status[n]
                       /\ status'[n] # status[n] => status'[n] = "idle"
    BY <1>1, <1>2 DEF Inv, TypeOK
  <1>5. TypeOK'
    BY <1>1, <1>2 DEF Inv, TypeOK
  <1>6. PolledSocketsBelong' /\ DescriptorMatchesStatus' /\ RegisteredWhenUp'
    BY <1>2 DEF Inv, PolledSocketsBelong, DescriptorMatchesStatus, RegisteredWhenUp
  <1>7. DisconnectedHaveNone'
    BY <1>2, <1>4 DEF Inv, TypeOK, DisconnectedHaveNone
  <1>8. IdleAreRegistered'
    BY <1>1, <1>2, <1>3, <1>4 DEF Inv, TypeOK, IdleAreRegistered
  <1>9. StartWalk' /\ SetsAreCurrent'
    BY <1>1, <1>2 DEF Inv, StartWalk, SetsAreCurrent
  <1> QED BY <1>5, <1>6, <1>7, <1>8, <1>9 DEF Inv

LEMMA StandstillKeepsInv ==
    ASSUME Inv, UNCHANGED <<nets, status, tsock, ts, live, tsockets, hello>>,
           rset' \subseteq rset, wset' \subseteq wset, todo' \subseteq todo,
           rehashes' = rehashes,
           \/ pc' = pc /\ pc = "dispatch"
           \/ pc' \in {"fdset", "dcc", "gone"} /\ pc # "gone"
    PROVE  Inv'
  <1>1. TypeOK'
    BY DEF Inv, TypeOK
  <1>2. StateInv'
    BY DEF Inv, StateInv, PolledSocketsBelong, DescriptorMatchesStatus,
           RegisteredWhenUp, DisconnectedHaveNone, IdleAreRegistered
  <1>3. StartWalk' /\ SetsAreCurrent'
    BY DEF Inv, StartWalk, SetsAreCurrent
  <1> QED BY <1>1, <1>2, <1>3 DEF Inv, StateInv

LEMMA DispatchKeepsInv == Inv /\ Dispatch => Inv'
  <1>1. ASSUME Inv, NEW a \in Addr, NotReady(a) PROVE Inv'
    <2>1. pc = "dispatch"
      BY <1>1, Visited DEF NotReady
    <2> QED BY <1>1, <2>1, StandstillKeepsInv DEF NotReady, Visit
  <1>2. Inv /\ DispatchEnd => Inv'
    BY StandstillKeepsInv DEF DispatchEnd
  <1> QED
    BY <1>1, <1>2, ConnectOkKeepsInv, ConnectFailedKeepsInv, IrcInKeepsInv, IrcClosedKeepsInv
       DEF Dispatch

LEMMA PartylineKeepsInv == Inv /\ Partyline => Inv'
  <1>1. ASSUME Inv, NEW kept \in SUBSET Net, Rehash(kept) PROVE Inv'
    <2>1. /\ nets' \subseteq Net /\ tsockets' = {}
          /\ status' = [n \in Net |-> IF n \in kept \cap nets' THEN status[n] ELSE "disconnected"]
          /\ tsock' = [n \in Net |-> Null]
          /\ rehashes' = rehashes + 1 /\ rehashes < MaxRehash
          /\ rset' = {} /\ wset' = {} /\ pc' = "fdset"
          /\ UNCHANGED <<ts, live, hello, todo>>
      BY <1>1 DEF Rehash, Rehashed
    <2>2. TypeOK'
      BY <1>1, <2>1, ConnectionsAssumption DEF Inv, TypeOK
    <2>3. StateInv'
      BY <2>1 DEF StateInv, PolledSocketsBelong, DescriptorMatchesStatus,
             RegisteredWhenUp, DisconnectedHaveNone, IdleAreRegistered
    <2>4. StartWalk' /\ SetsAreCurrent'
      BY <2>1 DEF StartWalk, SetsAreCurrent
    <2> QED BY <2>2, <2>3, <2>4 DEF Inv, StateInv
  <1>2. Inv /\ RehashAstray => Inv'
    BY StandstillKeepsInv DEF RehashAstray
  <1>3. Inv /\ LoopEnd => Inv'
    BY StandstillKeepsInv DEF LoopEnd
  <1> QED BY <1>1, <1>2, <1>3 DEF Partyline
-----------------------------------------------------------------------------
LEMMA StutterKeepsInv == Inv /\ UNCHANGED vars => Inv'
  <1> SUFFICES ASSUME Inv, UNCHANGED vars PROVE Inv'
    OBVIOUS
  <1> USE DEF vars
  <1>1. TypeOK'
    BY DEF Inv, TypeOK
  <1>2. StateInv'
    BY DEF Inv, StateInv, PolledSocketsBelong, DescriptorMatchesStatus,
           RegisteredWhenUp, DisconnectedHaveNone, IdleAreRegistered
  <1>3. StartWalk' /\ SetsAreCurrent'
    BY DEF Inv, StartWalk, SetsAreCurrent
  <1> QED BY <1>1, <1>2, <1>3 DEF Inv, StateInv

\* The invariant of network_connect, irc_loop and egg_rehash together.
THEOREM ConnectionsInvariant == Spec => []Inv
  <1>1. Inv /\ [Next]_vars => Inv'
    BY ConnectingKeepsInv, FdSetKeepsInv, SelectKeepsInv, DispatchKeepsInv,
       PartylineKeepsInv, StutterKeepsInv DEF Next
  <1> QED BY InitInv, <1>1, PTL DEF Spec

\* Every field of the tsockets and of the walks over them keeps its type.
THEOREM ConnectionsTypes == Spec => []TypeOK
  <1>1. Inv => TypeOK
    BY DEF Inv
  <1> QED BY ConnectionsInvariant, <1>1, PTL

\* irc_loop polls only allocated tsockets of the networks it has, and the one each knows.
THEOREM PolledSocketsAreOwned == Spec => []PolledSocketsBelong
  <1>1. Inv => PolledSocketsBelong
    BY DEF Inv
  <1> QED BY ConnectionsInvariant, <1>1, PTL

\* select() and the callbacks of irc_loop meet no tsocket without a descriptor.
THEOREM PolledSocketsAreOpen == Spec => []PolledHaveDescriptors
  <1>1. Inv => PolledHaveDescriptors
    BY DEF Inv, TypeOK, DescriptorMatchesStatus, SetsAreCurrent, PolledHaveDescriptors, Tsocket
  <1> QED BY ConnectionsInvariant, <1>1, PTL

\* irc_ball_start_rolling is called once for each connection that comes up, and
\* before the server's numeric 376.
THEOREM ConnectionsRegisterOnce == Spec => []RegisteredOnce
  <1>1. Inv => RegisteredOnce
    BY DEF Inv, RegisteredWhenUp, IdleAreRegistered, RegisteredOnce
  <1> QED BY ConnectionsInvariant, <1>1, PTL
-----------------------------------------------------------------------------
\* The listening sockets that Listener adds.
ListeningTypes ==
    /\ shostFrom \in [Net -> {"none", "server", "vhost"}]
    /\ listener \in [Net -> {"none", "open", "dead"}]
    /\ opened \in [Net -> Nat]

\* A listener is made with the host, and a record without a host has not made one.
MadeWithHost ==
    \A n \in Net :
        /\ opened[n] <= 1
        /\ opened[n] = 1 <=> listener[n] # "none"
        /\ listener[n] # "none" => shostFrom[n] = "server"

ListeningInv == ListeningTypes /\ MadeWithHost
-----------------------------------------------------------------------------
\* Every step of Listener is a step of Connections.
LEMMA ListenerStep == [LNext]_lvars => [Next]_vars
  <1> SUFFICES ASSUME LNext PROVE Next
    BY DEF lvars
  <1>1. CASE Connecting \/ FdSet \/ Select \/ Dispatch \/ RehashAstray \/ LoopEnd
    BY <1>1 DEF Next, Partyline
  <1>2. ASSUME NEW a \in Addr, HostReply(a) \/ ReverseChat(a)
        PROVE  Next
    <2>1. IrcIn(a)
      BY <1>2 DEF HostReply, ReverseChat
    <2> QED BY <2>1 DEF Next, Dispatch
  <1>3. ASSUME NEW kept \in SUBSET Net, RehashListening(kept)
        PROVE  Next
    <2>1. Rehash(kept)
      BY <1>3 DEF RehashListening
    <2> QED BY <2>1 DEF Next, Partyline
  <1> QED BY <1>1, <1>2, <1>3 DEF LNext

\* The first host a record gets from the server is the only one it makes a listener for.
LEMMA HostReplyKeeps ==
    ASSUME ListeningInv, NEW a \in Addr, HostReply(a)
    PROVE  ListeningInv'
  <1> DEFINE n == ts[a].data
  <1>1. /\ shostFrom[n] = "none" /\ shostFrom' = [shostFrom EXCEPT ![n] = "server"]
        /\ InitListener(n)
    BY DEF HostReply
  <1>2. CASE n \notin Net
    <2>1. shostFrom' = shostFrom /\ listener' = listener /\ opened' = opened
      BY <1>1, <1>2 DEF InitListener, ListeningInv, ListeningTypes
    <2> QED BY <2>1 DEF ListeningInv, ListeningTypes, MadeWithHost
  <1>3. CASE n \in Net
    <2> HIDE DEF n
    <2>0. listener[n] = "none" /\ opened[n] = 0
      BY <1>1, <1>3 DEF ListeningInv, ListeningTypes, MadeWithHost
    <2>1. CASE UNCHANGED <<listener, opened>>
      BY <1>1, <1>3, <2>0, <2>1 DEF ListeningInv, ListeningTypes, MadeWithHost
    <2>2. ASSUME NEW s \in {"open", "dead"},
                 listener' = [listener EXCEPT ![n] = s], opened' = [opened EXCEPT ![n] = @ + 1]
          PROVE  ListeningInv'
      <3>1. ListeningTypes'
        <4>1. shostFrom' \in [Net -> {"none", "server", "vhost"}]
          BY <1>1 DEF ListeningInv, ListeningTypes
        <4>2. listener' \in [Net -> {"none", "open", "dead"}]
          BY <2>2 DEF ListeningInv, ListeningTypes
        <4>3. opened[n] + 1 \in Nat
          BY <2>0
        <4>4. opened' \in [Net -> Nat]
          BY <2>2, <4>3 DEF ListeningInv, ListeningTypes
        <4> QED BY <4>1, <4>2, <4>4 DEF ListeningTypes
      <3>2. opened'[n] = 1 /\ listener'[n] = s /\ shostFrom'[n] = "server"
        BY <1>1, <1>3, <2>0, <2>2 DEF ListeningInv, ListeningTypes
      <3>3. \A o \in Net \ {n} : /\ opened'[o] = opened[o] /\ listener'[o] = listener[o]
                                 /\ shostFrom'[o] = shostFrom[o]
        BY <1>1, <2>2 DEF ListeningInv, ListeningTypes
      <3>4. MadeWithHost'
        BY <3>2, <3>3 DEF ListeningInv, MadeWithHost
      <3> QED BY <3>1, <3>4 DEF ListeningInv
    <2> QED BY <1>1, <2>1, <2>2 DEF InitListener
  <1> QED BY <1>2, <1>3

LEMMA ReverseChatKeeps ==
    ASSUME ListeningInv, NEW a \in Addr, ReverseChat(a)
    PROVE  ListeningInv'
  <1> DEFINE n == ts[a].data
  <1>1. /\ shostFrom[n] = "none" /\ shostFrom' = [shostFrom EXCEPT ![n] = "vhost"]
        /\ listener' = listener /\ opened' = opened
    BY DEF ReverseChat
  <1>2. ListeningTypes'
    BY <1>1 DEF ListeningInv, ListeningTypes
  <1>3. MadeWithHost'
    BY <1>1 DEF ListeningInv, ListeningTypes, MadeWithHost
  <1> QED BY <1>2, <1>3 DEF ListeningInv

\* A record gets host and listener together from the old one, or neither.
LEMMA RehashKeeps ==
    ASSUME ListeningInv, NEW kept \in SUBSET Net, RehashListening(kept)
    PROVE  ListeningInv'
  <1> DEFINE carried(f, none) == [n \in Net |-> IF n \in kept \cap nets' THEN f[n] ELSE none]
  <1>1. /\ shostFrom' = carried(shostFrom, "none")
        /\ listener' = carried(listener, "none")
        /\ opened' = carried(opened, 0)
    BY DEF RehashListening
  <1>2. ListeningTypes'
    BY <1>1 DEF ListeningInv, ListeningTypes
  <1>3. MadeWithHost'
    BY <1>1 DEF ListeningInv, ListeningTypes, MadeWithHost
  <1> QED BY <1>2, <1>3 DEF ListeningInv

LEMMA ListeningKeeps == ListeningInv /\ [LNext]_lvars => ListeningInv'
  <1> SUFFICES ASSUME ListeningInv, [LNext]_lvars PROVE ListeningInv'
    OBVIOUS
  <1>1. CASE UNCHANGED listening
    BY <1>1 DEF ListeningInv, ListeningTypes, MadeWithHost, listening
  <1>2. ASSUME NEW a \in Addr, HostReply(a) \/ ReverseChat(a) PROVE ListeningInv'
    BY <1>2, HostReplyKeeps, ReverseChatKeeps
  <1>3. ASSUME NEW kept \in SUBSET Net, RehashListening(kept) PROVE ListeningInv'
    BY <1>3, RehashKeeps
  <1> QED BY <1>1, <1>2, <1>3 DEF LNext, lvars, listening
-----------------------------------------------------------------------------
\* What dcc_init_listener, reverse_dcc_chat and the rehash add to the connections
\* takes nothing from them: the steps they take part in are steps of Connections.
THEOREM ListenerImplementsConnections == LSpec => Init /\ [][Next]_vars
  <1>1. LInit => Init
    BY DEF LInit
  <1> QED BY <1>1, ListenerStep, PTL DEF LSpec

\* Over any connections and rehashes dcc_init_listener makes at most one socket for a
\* network, and only for a host the server told (shostFrom).
THEOREM NetworksHaveOneListener == LSpec => []OneListener
  <1>1. LInit => Inv /\ ListeningInv
    BY InitInv DEF LInit, ListeningInv, ListeningTypes, MadeWithHost
  <1>2. Inv /\ [LNext]_lvars => Inv'
    BY ListenerStep, ConnectingKeepsInv, FdSetKeepsInv, SelectKeepsInv, DispatchKeepsInv,
       PartylineKeepsInv, StutterKeepsInv DEF Next
  <1>3. Inv /\ ListeningInv => OneListener
    BY DEF Inv, TypeOK, ListeningInv, MadeWithHost, OneListener
  <1> QED BY <1>1, <1>2, <1>3, ListeningKeeps, PTL DEF LSpec
-----------------------------------------------------------------------------
\* The recursion of FlattenSeq, up to n.
FlattensUpTo(f, s, n) == f = [k \in 1..n |-> IF k = 1 THEN s[k] ELSE f[k - 1] \o s[k]]

\* It defines a function.
LEMMA FlatteningExists ==
    ASSUME NEW s, NEW n \in Nat
    PROVE  \E f : FlattensUpTo(f, s, n)
<1> DEFINE Bad == {k \in Nat : ~ \E f : FlattensUpTo(f, s, k)}
<1> SUFFICES ASSUME Bad # {} PROVE FALSE
  OBVIOUS
<1>1. PICK k \in Bad : \A y \in Bad : k <= y
  <2>1. Bad \in SUBSET Nat
    OBVIOUS
  <2> HIDE DEF Bad
  <2> QED BY <2>1, Lists!LeastNat
<1>2. CASE k = 0
  <2>1. FlattensUpTo([j \in 1..0 |-> << >>], s, 0)
    BY DEF FlattensUpTo
  <2> QED BY <1>2, <2>1
<1>3. CASE k # 0
  <2>1. k - 1 \in Nat /\ k - 1 \notin Bad
    BY <1>1, <1>3
  <2>2. PICK f : FlattensUpTo(f, s, k - 1)
    BY <2>1
  <2> DEFINE g == [j \in 1..k |-> IF j < k THEN f[j]
                                  ELSE IF j = 1 THEN s[j] ELSE f[k - 1] \o s[k]]
  <2>3. \A j \in 1..(k - 1) : f[j] = IF j = 1 THEN s[j] ELSE f[j - 1] \o s[j]
    BY <2>1, <2>2 DEF FlattensUpTo
  <2>4. ASSUME NEW j \in 1..k
        PROVE  g[j] = IF j = 1 THEN s[j] ELSE g[j - 1] \o s[j]
    <3>1. CASE j = k
      BY <1>3, <2>1, <3>1
    <3>2. CASE j < k
      BY <1>3, <2>1, <2>3, <3>2
    <3> QED BY <3>1, <3>2
  <2>5. g = [j \in 1..k |-> g[j]]
    OBVIOUS
  <2> HIDE DEF g
  <2>6. FlattensUpTo(g, s, k)
    BY <2>4, <2>5 DEF FlattensUpTo
  <2> QED BY <2>6
<1> QED BY <1>2, <1>3

\* f[k] is the first k sequences of s, one after the other.
Flattens(f, s) ==
    /\ f[0] = << >>
    /\ \A k \in 1..Len(s) : f[k] = f[k - 1] \o s[k]

LEMMA FlatteningIsUnique ==
    ASSUME NEW s, Len(s) \in Nat, NEW f, NEW g, Flattens(f, s), Flattens(g, s)
    PROVE  \A k \in 0..Len(s) : f[k] = g[k]
<1> DEFINE Bad == {k \in 0..Len(s) : f[k] # g[k]}
<1> SUFFICES ASSUME Bad # {} PROVE FALSE
  OBVIOUS
<1>1. PICK k \in Bad : \A y \in Bad : k <= y
  <2>1. Bad \in SUBSET Nat
    OBVIOUS
  <2> HIDE DEF Bad
  <2> QED BY <2>1, Lists!LeastNat
<1>2. k # 0
  BY <1>1 DEF Flattens
<1>3. k - 1 \in 0..Len(s) /\ k - 1 \notin Bad /\ k \in 1..Len(s)
  BY <1>1, <1>2
<1> QED BY <1>1, <1>3 DEF Flattens

\* FlattenSeq puts the sequences one after the other.
LEMMA FlattenedStepByStep ==
    ASSUME NEW S, NEW s \in Seq(Seq(S))
    PROVE  \E f : /\ Flattens(f, s) /\ FlattenSeq(s) = f[Len(s)]
                  /\ \A k \in 0..Len(s) : f[k] \in Seq(S)
<1>0. Len(s) \in Nat /\ DOMAIN s = 1..Len(s) /\ \A k \in 1..Len(s) : s[k] \in Seq(S)
  OBVIOUS
<1>1. << >> \in Seq(S)
  BY EmptySeq
<1>2. CASE Len(s) = 0
  <2>1. PICK f : f = [k \in {0} |-> << >>]
    OBVIOUS
  <2>2. s = << >>
    BY <1>2, EmptySeq
  <2>3. FlattenSeq(s) = << >> /\ f[0] = << >>
    BY <2>1, <2>2 DEF FlattenSeq
  <2>4. Flattens(f, s)
    BY <1>2, <2>3 DEF Flattens
  <2>5. ASSUME NEW k \in 0..Len(s) PROVE f[k] \in Seq(S)
    <3>1. k = 0
      BY <1>2
    <3> QED BY <1>1, <2>3, <3>1
  <2> QED BY <1>2, <2>3, <2>4, <2>5
<1>3. CASE Len(s) # 0
  <2>1. PICK h : FlattensUpTo(h, s, Len(s)) /\ FlattenSeq(s) = h[Len(s)]
    <3> DEFINE q == CHOOSE q : FlattensUpTo(q, s, Len(s))
    <3>1. FlattenSeq(s) = q[Len(s)]
      BY <1>3, Zenon DEF FlattenSeq, FlattensUpTo
    <3>2. \E r : FlattensUpTo(r, s, Len(s))
      BY <1>0, FlatteningExists
    <3>3. FlattensUpTo(q, s, Len(s))
      BY <3>2, Zenon
    <3> QED BY <3>1, <3>3
  <2>2. \A k \in 1..Len(s) : h[k] = IF k = 1 THEN s[k] ELSE h[k - 1] \o s[k]
    BY <1>0, <2>1 DEF FlattensUpTo
  <2> DEFINE f == [k \in 0..Len(s) |-> IF k = 0 THEN << >> ELSE h[k]]
  <2>3. Flattens(f, s)
    <3>1. ASSUME NEW k \in 1..Len(s) PROVE f[k] = f[k - 1] \o s[k]
      <4>1. CASE k = 1
        <5>1. << >> \o s[k] = s[k]
          BY <1>0, ConcatEmptySeq
        <5>2. f[k] = s[k] /\ f[k - 1] = << >>
          BY <1>0, <2>2, <4>1
        <5> QED BY <5>1, <5>2
      <4>2. CASE k # 1
        <5>1. k - 1 \in 1..Len(s) /\ k - 1 # 0
          BY <1>0, <4>2
        <5>2. f[k] = h[k] /\ f[k - 1] = h[k - 1]
          BY <5>1
        <5> QED BY <2>2, <4>2, <5>2
      <4> QED BY <4>1, <4>2
    <3>2. f[0] = << >>
      BY <1>0
    <3> HIDE DEF f
    <3> QED BY <3>1, <3>2 DEF Flattens
  <2>4. FlattenSeq(s) = f[Len(s)]
    BY <1>0, <1>3, <2>1
  <2> HIDE DEF f
  <2> DEFINE Bad == {k \in 0..Len(s) : f[k] \notin Seq(S)}
  <2>5. ASSUME Bad # {} PROVE FALSE
    <3>1. PICK k \in Bad : \A y \in Bad : k <= y
      <4>1. Bad \in SUBSET Nat
        BY <1>0
      <4> HIDE DEF Bad
      <4> QED BY <2>5, <4>1, Lists!LeastNat
    <3>2. k # 0
      BY <1>1, <2>3, <3>1 DEF Flattens
    <3>3. k \in 1..Len(s) /\ k - 1 \in 0..Len(s) /\ f[k - 1] \in Seq(S)
      BY <1>0, <3>1, <3>2
    <3>4. f[k] \in Seq(S)
      BY <1>0, <2>3, <3>3, ConcatProperties DEF Flattens
    <3> QED BY <3>1, <3>4
  <2> QED BY <2>3, <2>4, <2>5
<1> QED BY <1>2, <1>3

LEMMA FlattenedType == ASSUME NEW S, NEW s \in Seq(Seq(S)) PROVE FlattenSeq(s) \in Seq(S)
<1>1. Len(s) \in 0..Len(s)
  OBVIOUS
<1> QED BY <1>1, FlattenedStepByStep

LEMMA FlattenedBy ==
    ASSUME NEW S, NEW s \in Seq(Seq(S)), NEW g, Flattens(g, s)
    PROVE  FlattenSeq(s) = g[Len(s)]
<1>1. PICK f : Flattens(f, s) /\ FlattenSeq(s) = f[Len(s)]
  BY FlattenedStepByStep
<1>2. Len(s) \in Nat /\ Len(s) \in 0..Len(s)
  OBVIOUS
<1> QED BY <1>1, <1>2, FlatteningIsUnique

LEMMA ConcatenationIsAssociative ==
    ASSUME NEW S
    PROVE  \A u, v, w \in Seq(S) : (u \o v) \o w = u \o (v \o w)
BY ConcatAssociative, SMTT(60)

\* One more sequence in front, or at the end.
\* Kept folded where only the elements of s matter.
IsListOver(s, S) == s \in Seq(Seq(S))

LEMMA FlattenedFromTheFront ==
    ASSUME NEW S, NEW s, IsListOver(s, S), NEW t, IsListOver(t, S), NEW n \in Nat,
           Len(s) = n + 1, Len(t) = n, \A k \in 1..n : t[k] = s[k + 1]
    PROVE  FlattenSeq(s) = s[1] \o FlattenSeq(t)
<1>1. \A k \in 1..(n + 1) : s[k] \in Seq(S)
  BY DEF IsListOver
<1>2. \A u, v, w \in Seq(S) : (u \o v) \o w = u \o (v \o w)
  BY ConcatenationIsAssociative
<1>3. \E f : /\ Flattens(f, t) /\ FlattenSeq(t) = f[n]
             /\ \A k \in 0..n : f[k] \in Seq(S)
  BY FlattenedStepByStep DEF IsListOver
<1>4. PICK f : /\ Flattens(f, t) /\ FlattenSeq(t) = f[n]
               /\ \A k \in 0..n : f[k] \in Seq(S)
  BY <1>3
<1>5. f[0] = << >> /\ \A k \in 1..n : f[k] = f[k - 1] \o s[k + 1]
  BY <1>4 DEF Flattens
<1> DEFINE g == [k \in 0..(n + 1) |-> IF k = 0 THEN << >> ELSE s[1] \o f[k - 1]]
<1>6. ASSUME NEW k \in 1..(n + 1) PROVE g[k] = s[1] \o f[k - 1]
  <2>1. k \in 0..(n + 1) /\ k # 0
    OBVIOUS
  <2> QED BY <2>1
<1>7. g[0] = << >> /\ g[n + 1] = s[1] \o f[n]
  <2>1. n + 1 \in 1..(n + 1) /\ (n + 1) - 1 = n /\ 0 \in 0..(n + 1)
    OBVIOUS
  <2> QED BY <1>6, <2>1
<1> HIDE DEF g
<1>8. ASSUME NEW k \in 1..(n + 1) PROVE g[k] = g[k - 1] \o s[k]
  <2>1. CASE k = 1
    <3>1. s[1] \in Seq(S) /\ 1 \in 1..(n + 1) /\ 1 - 1 = 0
      BY <1>1
    <3>2. s[1] \o << >> = s[1] /\ << >> \o s[1] = s[1]
      BY <3>1, ConcatEmptySeq
    <3>3. g[1] = s[1] \o f[0]
      BY <1>6, <3>1
    <3> QED BY <1>5, <1>7, <2>1, <3>1, <3>2, <3>3
  <2>2. CASE k # 1
    <3>1. PICK j \in 1..n : k = j + 1
      <4>1. k - 1 \in 1..n /\ k = (k - 1) + 1
        BY <2>2
      <4> QED BY <4>1
    <3>2. j \in 1..(n + 1) /\ k - 1 = j /\ j - 1 \in 0..n
      BY <3>1
    <3>3. s[1] \in Seq(S) /\ f[j - 1] \in Seq(S) /\ s[k] \in Seq(S) /\ 1 \in 1..(n + 1)
      BY <1>1, <1>4, <3>2
    <3>4. (s[1] \o f[j - 1]) \o s[k] = s[1] \o (f[j - 1] \o s[k])
      BY <1>2, <3>3
    <3>5. g[k] = s[1] \o f[j] /\ f[j] = f[j - 1] \o s[k] /\ g[j] = s[1] \o f[j - 1]
      BY <1>5, <1>6, <3>1, <3>2
    <3> QED BY <3>2, <3>4, <3>5
  <2> QED BY <2>1, <2>2
<1>9. Flattens(g, s)
  BY <1>7, <1>8 DEF Flattens
<1>10. FlattenSeq(s) = g[n + 1]
  BY <1>9, FlattenedBy DEF IsListOver
<1> QED BY <1>4, <1>7, <1>10

LEMMA FlattenedAtTheEnd ==
    ASSUME NEW S, NEW s \in Seq(Seq(S)), NEW x \in Seq(S)
    PROVE  FlattenSeq(Append(s, x)) = FlattenSeq(s) \o x
<1>1. PICK n \in Nat : n = Len(s)
  OBVIOUS
<1>2. PICK t \in Seq(Seq(S)) : t = Append(s, x)
  <2>1. Append(s, x) \in Seq(Seq(S))
    OBVIOUS
  <2> QED BY <2>1
<1>3. Len(t) = n + 1 /\ t[n + 1] = x /\ \A k \in 1..n : t[k] = s[k]
  BY <1>1, <1>2
<1>4. PICK f : Flattens(f, s) /\ FlattenSeq(s) = f[n]
  BY <1>1, FlattenedStepByStep
<1>5. f[0] = << >> /\ \A k \in 1..n : f[k] = f[k - 1] \o t[k]
  BY <1>1, <1>3, <1>4 DEF Flattens
<1> DEFINE g == [k \in 0..(n + 1) |-> IF k = n + 1 THEN f[n] \o x ELSE f[k]]
<1>6. ASSUME NEW k \in 1..(n + 1) PROVE g[k] = g[k - 1] \o t[k]
  <2>0. k - 1 \in 0..(n + 1) /\ k - 1 # n + 1 /\ k \in 0..(n + 1)
    OBVIOUS
  <2>1. g[k - 1] = f[k - 1]
    BY <2>0
  <2>2. CASE k = n + 1
    <3>1. g[k] = f[n] \o x /\ k - 1 = n
      BY <2>0, <2>2
    <3> HIDE DEF g
    <3> QED BY <1>3, <2>1, <2>2, <3>1
  <2>3. CASE k # n + 1
    <3>1. g[k] = f[k] /\ k \in 1..n
      BY <2>0, <2>3
    <3> HIDE DEF g
    <3> QED BY <1>5, <2>1, <3>1
  <2> QED BY <2>2, <2>3
<1>7. g[0] = << >> /\ g[n + 1] = f[n] \o x
  <2>1. n + 1 \in 0..(n + 1) /\ 0 \in 0..(n + 1) /\ 0 # n + 1
    OBVIOUS
  <2>2. g[0] = f[0] /\ g[n + 1] = f[n] \o x
    BY <2>1
  <2> QED BY <1>5, <2>2
<1> HIDE DEF g
<1>8. Flattens(g, t)
  BY <1>3, <1>6, <1>7 DEF Flattens
<1>9. FlattenSeq(t) = g[n + 1]
  BY <1>3, <1>8, FlattenedBy
<1> QED BY <1>2, <1>4, <1>7, <1>9

\* Nothing put together is nothing.
LEMMA FlattenedNone == FlattenSeq(<< >>) = << >>
  BY DEF FlattenSeq
-----------------------------------------------------------------------------
\* What IrcInputAssumption says of characters and lines.
LEMMA CharFacts ==
    /\ CR = "\r" /\ LF = "\n" /\ CR # LF
    /\ Char \subseteq Byte /\ CR \in Byte /\ LF \in Byte /\ Junk \in Byte
    /\ \A c \in Char : ~IsEnd(c)
    /\ IsEnd(CR) /\ IsEnd(LF) /\ ~IsEnd(Junk)
BY IrcInputAssumption DEF Byte, CR, LF, Junk, NUL, IsEnd

LEMMA SeqMonotone ==
    ASSUME NEW S, NEW T, S \subseteq T
    PROVE  Seq(S) \subseteq Seq(T)
<1> SUFFICES ASSUME NEW s \in Seq(S) PROVE s \in Seq(T)
  OBVIOUS
<1>1. Len(s) \in Nat /\ s = [i \in 1..Len(s) |-> s[i]] /\ \A i \in 1..Len(s) : s[i] \in S
  BY LenProperties, ElementOfSeq
<1>2. \A i \in 1..Len(s) : s[i] \in T
  BY <1>1
<1> QED BY <1>1, <1>2, IsASeq

WorldOK == world \in World

LEMMA WorldFacts ==
    ASSUME WorldOK
    PROVE  /\ world.end \in {<<CR, LF>>, <<LF>>}
           /\ \A n \in Network : /\ world.lines[n] \in Seq(Seq(Char))
                                 /\ IsListOver(world.lines[n], Byte)
<1>1. world \in [lines : [Network -> Seq(Seq(Char))], end : {<<CR, LF>>, <<LF>>}]
  BY IrcInputAssumption DEF WorldOK
<1>2. world.end \in {<<CR, LF>>, <<LF>>}
  BY <1>1
<1>3. world.lines \in [Network -> Seq(Seq(Char))]
  BY <1>1
<1>4. Seq(Char) \subseteq Seq(Byte)
  BY CharFacts, SeqMonotone
<1>5. Seq(Seq(Char)) \subseteq Seq(Seq(Byte))
  BY <1>4, SeqMonotone
<1> QED BY <1>2, <1>3, <1>5 DEF IsListOver

\* The end of a line: its last character is the LF, and both may follow a line's text only.
LEMMA EndFacts ==
    ASSUME WorldOK
    PROVE  /\ world.end \in Seq(Byte) /\ Len(world.end) \in {1, 2}
           /\ \A i \in 1..Len(world.end) : IsEnd(world.end[i]) /\ (world.end[i] = LF => i = Len(world.end))
<1>1. CR \in Byte /\ LF \in Byte /\ IsEnd(CR) /\ IsEnd(LF) /\ CR # LF
  BY CharFacts
<1>2. CASE world.end = <<CR, LF>>
  BY <1>1, <1>2
<1>3. CASE world.end = <<LF>>
  BY <1>1, <1>3
<1> QED BY <1>2, <1>3, WorldFacts

\* The lines of a list with their ends.
Ended1(ls) == [i \in DOMAIN ls |-> ls[i] \o world.end]

LEMMA EndedLines ==
    ASSUME WorldOK, NEW ls, IsListOver(ls, Byte)
    PROVE  IsListOver(Ended1(ls), Byte) /\ Len(Ended1(ls)) = Len(ls)
<1>1. world.end \in Seq(Byte)
  BY EndFacts
<1>2. PICK n \in Nat : n = Len(ls) /\ DOMAIN ls = 1..n /\ \A i \in 1..n : ls[i] \in Seq(Byte)
  BY DEF IsListOver
<1>3. ASSUME NEW i \in 1..n PROVE ls[i] \o world.end \in Seq(Byte)
  BY <1>1, <1>2, ConcatProperties
<1>4. Ended1(ls) = [i \in 1..n |-> ls[i] \o world.end]
  BY <1>2 DEF Ended1
<1> QED BY <1>2, <1>3, <1>4, IsASeq DEF IsListOver

LEMMA LinesType ==
    ASSUME WorldOK, NEW ls, IsListOver(ls, Byte)
    PROVE  Lines(ls) \in Seq(Byte)
<1>1. IsListOver(Ended1(ls), Byte)
  BY EndedLines
<1>2. Lines(ls) = FlattenSeq(Ended1(ls))
  BY DEF Lines, Ended1
<1> QED BY <1>1, <1>2, FlattenedType DEF IsListOver

\* What is left of a list from its line h + 1 on.
From(ls, h) == SubSeq(ls, h + 1, Len(ls))

LEMMA FromType ==
    ASSUME NEW ls, IsListOver(ls, Byte), NEW h \in Nat
    PROVE  IsListOver(From(ls, h), Byte)
<1>1. PICK n \in Nat : n = Len(ls) /\ \A i \in 1..n : ls[i] \in Seq(Byte)
  BY DEF IsListOver
<1>2. h + 1 \in Int /\ n \in Int /\ \A i \in (h + 1)..n : ls[i] \in Seq(Byte)
  BY <1>1
<1>3. SubSeq(ls, h + 1, n) \in Seq(Seq(Byte))
  BY <1>2, SubSeqProperties
<1> QED BY <1>1, <1>3 DEF From, IsListOver

LEMMA LinesAtTheEnd ==
    ASSUME NEW ls, NEW h \in Nat, Len(ls) \in Nat, Len(ls) <= h
    PROVE  Lines(From(ls, h)) = << >>
<1>1. From(ls, h) = << >>
  BY SubSeqEmpty DEF From
<1>2. [i \in DOMAIN << >> |-> << >>[i] \o world.end] = << >>
  OBVIOUS
<1> QED BY <1>1, <1>2, FlattenedNone DEF Lines

LEMMA LinesFromTheFront ==
    ASSUME WorldOK, NEW ls, IsListOver(ls, Byte), NEW h \in Nat, h < Len(ls)
    PROVE  Lines(From(ls, h)) = (ls[h + 1] \o world.end) \o Lines(From(ls, h + 1))
<1>1. PICK l \in Nat : l = Len(ls) /\ \A i \in 1..l : ls[i] \in Seq(Byte)
  BY DEF IsListOver
<1>2. PICK n \in Nat : l = h + 1 + n
  <2>1. l - (h + 1) \in Nat /\ l = h + 1 + (l - (h + 1))
    BY <1>1
  <2> QED BY <2>1
<1>3. /\ Len(From(ls, h)) = n + 1 /\ DOMAIN From(ls, h) = 1..(n + 1)
      /\ \A k \in 1..(n + 1) : From(ls, h)[k] = ls[h + k]
  <2>1. h + 1 \in Int /\ l \in Int /\ \A i \in (h + 1)..l : ls[i] \in Seq(Byte)
    BY <1>1
  <2>2. /\ SubSeq(ls, h + 1, l) \in Seq(Seq(Byte))
        /\ Len(SubSeq(ls, h + 1, l)) = IF h + 1 <= l THEN l - (h + 1) + 1 ELSE 0
        /\ \A i \in 1..(l - (h + 1) + 1) : SubSeq(ls, h + 1, l)[i] = ls[h + 1 + i - 1]
    BY <2>1, SubSeqProperties
  <2> QED BY <1>1, <1>2, <2>2 DEF From
<1>4. /\ Len(From(ls, h + 1)) = n /\ DOMAIN From(ls, h + 1) = 1..n
      /\ \A k \in 1..n : From(ls, h + 1)[k] = ls[h + 1 + k]
  <2>1. h + 2 \in Int /\ l \in Int /\ \A i \in (h + 2)..l : ls[i] \in Seq(Byte)
    BY <1>1
  <2>2. /\ SubSeq(ls, h + 2, l) \in Seq(Seq(Byte))
        /\ Len(SubSeq(ls, h + 2, l)) = IF h + 2 <= l THEN l - (h + 2) + 1 ELSE 0
        /\ \A i \in 1..(l - (h + 2) + 1) : SubSeq(ls, h + 2, l)[i] = ls[h + 2 + i - 1]
    BY <2>1, SubSeqProperties
  <2>3. From(ls, h + 1) = SubSeq(ls, h + 2, l) /\ l - (h + 2) + 1 = n
    BY <1>1, <1>2 DEF From
  <2>4. /\ From(ls, h + 1) \in Seq(Seq(Byte)) /\ Len(From(ls, h + 1)) = n
        /\ \A i \in 1..n : From(ls, h + 1)[i] = ls[h + 2 + i - 1]
    <3>1. h + 2 <= l => l - (h + 2) + 1 = n
      BY <2>3
    <3>2. ~(h + 2 <= l) => n = 0
      BY <1>2
    <3> QED BY <2>2, <2>3, <3>1, <3>2
  <2>5. DOMAIN From(ls, h + 1) = 1..n
    BY <2>4, LenProperties
  <2>6. ASSUME NEW i \in 1..n PROVE From(ls, h + 1)[i] = ls[h + 1 + i]
    <3>1. h + 2 + i - 1 = h + 1 + i
      OBVIOUS
    <3> QED BY <2>4, <3>1
  <2> QED BY <2>4, <2>5, <2>6
<1>5. /\ IsListOver(Ended1(From(ls, h)), Byte) /\ Len(Ended1(From(ls, h))) = n + 1
      /\ IsListOver(Ended1(From(ls, h + 1)), Byte) /\ Len(Ended1(From(ls, h + 1))) = n
  <2>1. IsListOver(From(ls, h), Byte) /\ IsListOver(From(ls, h + 1), Byte)
    BY FromType
  <2>2. /\ IsListOver(Ended1(From(ls, h)), Byte)
        /\ Len(Ended1(From(ls, h))) = Len(From(ls, h))
    BY <2>1, EndedLines
  <2>3. /\ IsListOver(Ended1(From(ls, h + 1)), Byte)
        /\ Len(Ended1(From(ls, h + 1))) = Len(From(ls, h + 1))
    BY <2>1, EndedLines
  <2> QED BY <1>3, <1>4, <2>2, <2>3
<1>6. ASSUME NEW k \in 1..n PROVE Ended1(From(ls, h + 1))[k] = Ended1(From(ls, h))[k + 1]
  <2>1. k + 1 \in 1..(n + 1) /\ h + (k + 1) = h + 1 + k
    OBVIOUS
  <2>2. PICK a, b : a = From(ls, h) /\ b = From(ls, h + 1)
    OBVIOUS
  <2>3. k \in DOMAIN b /\ k + 1 \in DOMAIN a /\ a[k + 1] = ls[h + (k + 1)] /\ b[k] = ls[h + 1 + k]
    BY <1>3, <1>4, <2>1, <2>2
  <2>4. b[k] = a[k + 1]
    BY <2>1, <2>3, Zenon
  <2>5. Ended1(b)[k] = b[k] \o world.end /\ Ended1(a)[k + 1] = a[k + 1] \o world.end
    BY <2>3, Zenon DEF Ended1
  <2> QED BY <2>2, <2>4, <2>5, Zenon
<1>7. Ended1(From(ls, h))[1] = ls[h + 1] \o world.end
  <2>1. 1 \in 1..(n + 1)
    OBVIOUS
  <2> QED BY <1>3, <2>1 DEF Ended1
<1>8. FlattenSeq(Ended1(From(ls, h))) = Ended1(From(ls, h))[1] \o FlattenSeq(Ended1(From(ls, h + 1)))
  BY <1>5, <1>6, FlattenedFromTheFront
<1> QED BY <1>7, <1>8 DEF Lines, Ended1
-----------------------------------------------------------------------------
\* The parts of the type invariant, so that a step is looked at once.
StreamTypes ==
    /\ WorldOK /\ wire \in [Network -> Seq(Byte)]
    /\ place \in {"select", "lines", "prefix", "command", "params", "rest", "dispatch", "fault"}
    /\ net \in Network /\ owner \subseteq Network /\ broken \subseteq Network /\ fresh \in BOOLEAN
    /\ handled \in [Network -> Seq(Seq(Byte))] /\ shost \in [Network -> SUBSET Seq(Byte)]
BufferTypes ==
    /\ block \in Nat /\ size \in Nat \ {0}
    /\ text \in Seq(Byte) /\ zeros \in 0..block
    /\ block > 0 => Len(text) < zeros
ParserTypes ==
    /\ line \in Seq(Byte) /\ m \in Nat \ {0} /\ room \in Nat
    /\ data \in IrcData
    /\ place = "params" => Len(data.params) < room
    /\ place = "rest" => Len(data.rest) < room

LEMMA InputOKParts == InputOK <=> StreamTypes /\ BufferTypes /\ ParserTypes
BY DEF InputOK, StreamTypes, BufferTypes, ParserTypes, WorldOK

\* The buffer of irc_in.  Once a line has been taken from it, the static size is that of the
\* block, which no read makes more than BUFFER_SIZE longer than the string in it.
BufferInv ==
    /\ block = 0 => text = << >> /\ zeros = 0 /\ owner = {}
    /\ block # 0 => owner # {}
    /\ block # 0 /\ ~fresh => /\ size - 1 <= zeros
                              /\ Len(text) < size /\ size <= Len(text) + BufferSize
    /\ place # "select" => owner \subseteq {net} \cup broken
    /\ place # "select" /\ block # 0 => net \in owner
    /\ place = "select" => \A n \in Network \ broken : owner = {n} => LF \notin ToSet(text)
    /\ \A n \in Network \ broken : n \in owner => owner = {n}

\* What has been read of n and not been given to the parser.
Waiting(n) == IF owner = {n} THEN text ELSE << >>

\* The networks the stream is kept of: no line of theirs was damaged, and none is empty.
Proper(n) == n \in Network \ broken /\ << >> \notin ToSet(world.lines[n])

\* What no trigger has seen yet is the line that is parsed, what waits and what was not yet read.
StreamOf(n) ==
    /\ IsPrefix(handled[n], world.lines[n])
    /\ IF place \in {"select", "lines"} \/ net # n
       THEN Lines(From(world.lines[n], Len(handled[n]))) = Waiting(n) \o wire[n]
       ELSE /\ Len(handled[n]) < Len(world.lines[n])
            /\ line = world.lines[n][Len(handled[n]) + 1]
            /\ Lines(From(world.lines[n], Len(handled[n]) + 1)) = Waiting(n) \o wire[n]
StreamInv == \A n \in Network : Proper(n) => StreamOf(n)

\* The buffer and the streams; the parser is looked at by itself.
ReadInv == StreamTypes /\ BufferTypes /\ BufferInv /\ StreamInv

-----------------------------------------------------------------------------
LEMMA ToSetIs == ASSUME NEW S, NEW s \in Seq(S) PROVE ToSet(s) = {s[i] : i \in 1..Len(s)}
BY DEF ToSet

\* Reading: the text is longer by what the wire is shorter.
LEMMA ReadsCut ==
    ASSUME StreamTypes, NEW n \in Network, NEW k, Reads(n, k)
    PROVE  /\ k \in Nat /\ k > 0 /\ k < BufferSize /\ BufferSize \in Nat /\ k <= Len(wire[n])
           /\ Received(n, k) \in Seq(Byte) /\ Len(Received(n, k)) = k
           /\ wire' \in [Network -> Seq(Byte)]
           /\ \A p \in Network : p # n => wire'[p] = wire[p]
           /\ wire[n] = Received(n, k) \o wire'[n]
           /\ Len(wire[n]) - Len(wire'[n]) = k
<1>1. PICK w \in Seq(Byte) : w = wire[n]
  BY DEF StreamTypes
<1>2. Len(w) \in Nat /\ k \in 1..Len(w) /\ k < BufferSize /\ BufferSize \in Nat
  <2>1. k \in 1..Len(wire[n]) /\ k < BufferSize
    BY DEF Reads
  <2>2. BufferSize \in Nat
    BY IrcInputAssumption
  <2> QED BY <1>1, <2>1, <2>2
<1>3. PICK rest \in Seq(Byte) : rest = SubSeq(w, k + 1, Len(w))
  <2>1. \A i \in (k + 1)..Len(w) : w[i] \in Byte
    BY <1>2
  <2>2. SubSeq(w, k + 1, Len(w)) \in Seq(Byte)
    BY <1>2, <2>1, SubSeqProperties
  <2> QED BY <2>2
<1>4. Received(n, k) \in Seq(Byte) /\ Len(Received(n, k)) = k
  <2>1. \A i \in 1..k : w[i] \in Byte
    BY <1>2
  <2> QED BY <1>1, <1>2, <2>1, SubSeqProperties DEF Received
<1>5. w = Received(n, k) \o rest
  BY <1>1, <1>2, <1>3 DEF Received
<1>6. Len(w) - Len(rest) = k
  BY <1>2, <1>3
<1>7. wire \in [Network -> Seq(Byte)]
  BY DEF StreamTypes
<1>8. wire' = [wire EXCEPT ![n] = rest]
  BY <1>1, <1>3 DEF Reads
<1>9. /\ wire' \in [Network -> Seq(Byte)] /\ wire'[n] = rest
      /\ \A p \in Network : p # n => wire'[p] = wire[p]
  BY <1>7, <1>8
<1> QED BY <1>1, <1>2, <1>4, <1>5, <1>6, <1>9

\* A step that leaves the lines of n, what was handled of them and where the loop is
\* for n alone, and neither damages n nor moves its bytes from the order they are in.
LEMMA StreamKept ==
    ASSUME NEW n \in Network, StreamOf(n),
           UNCHANGED <<world, handled, line>>,
           (place' \in {"select", "lines"} \/ net' # n) <=> (place \in {"select", "lines"} \/ net # n),
           Waiting(n)' \o wire'[n] = Waiting(n) \o wire[n]
    PROVE  StreamOf(n)'
<1>1. \A h : Lines(From(world.lines[n], h))' = Lines(From(world.lines[n], h))
  BY DEF Lines, From
<1> QED BY DEF StreamOf, From, Lines

LEMMA StaysProper ==
    ASSUME NEW n \in Network, Proper(n)', world' = world, broken \subseteq broken'
    PROVE  Proper(n)
BY DEF Proper

LEMMA NoBuffer ==
    ASSUME BufferInv, block = 0
    PROVE  owner = {} /\ \A n : Waiting(n) = << >>
BY DEF BufferInv, Waiting

LEMMA RecvNewKeeps ==
    ASSUME ReadInv, NEW n \in Network, NEW k, RecvNew(n, k)
    PROVE  ReadInv'
<1> USE DEF ReadInv
<1>1. Reads(n, k) /\ place = "select" /\ net' = n /\ place' = "lines" /\ UNCHANGED <<world, line, handled, shost>>
  BY DEF RecvNew, Reads, parser
<1>2. /\ k \in Nat /\ k > 0 /\ k < BufferSize /\ BufferSize \in Nat
      /\ Received(n, k) \in Seq(Byte) /\ Len(Received(n, k)) = k
      /\ wire' \in [Network -> Seq(Byte)]
      /\ \A p \in Network : p # n => wire'[p] = wire[p]
      /\ wire[n] = Received(n, k) \o wire'[n]
  BY <1>1, ReadsCut
<1>3. owner = {} /\ \A p : Waiting(p) = << >>
  BY NoBuffer DEF RecvNew
<1>4. owner' = {n} /\ text' = Received(n, k) /\ UNCHANGED <<size, broken>> /\ fresh' = TRUE
      /\ block' = BufferSize + 1 /\ zeros' = BufferSize + 1
  BY DEF RecvNew
<1>5. StreamTypes'
  BY <1>1, <1>2, <1>4 DEF StreamTypes, WorldOK
<1>6. BufferTypes'
  BY <1>2, <1>4 DEF BufferTypes
<1>7. BufferInv'
  BY <1>1, <1>2, <1>4 DEF BufferInv
<1>8. ASSUME NEW p \in Network, Proper(p)' PROVE StreamOf(p)'
  <2>1. StreamOf(p)
    BY <1>1, <1>4, <1>8, StaysProper DEF StreamInv
  <2>2. Waiting(p)' \o wire'[p] = Waiting(p) \o wire[p]
    <3>1. wire[p] \in Seq(Byte) /\ << >> \o wire[p] = wire[p]
      BY ConcatEmptySeq DEF StreamTypes
    <3>2. CASE p = n
      BY <1>2, <1>3, <1>4, <3>1, <3>2 DEF Waiting
    <3>3. CASE p # n
      <4>1. Waiting(p)' = << >>
        BY <1>4, <3>3 DEF Waiting
      <4> QED BY <1>2, <1>3, <3>3, <4>1
    <3> QED BY <3>2, <3>3
  <2> QED BY <1>1, <2>1, <2>2, StreamKept
<1> QED BY <1>5, <1>6, <1>7, <1>8 DEF StreamInv

\* tcrealloc0 when size is right: everything is kept, and there is room behind it.
LEMMA RightSize ==
    ASSUME BufferTypes, BufferInv, block # 0, ~fresh, NEW k \in Nat, k < BufferSize,
           BufferSize \in Nat, NEW alloc, alloc = Len(text) + BufferSize + 1
    PROVE  Kept(alloc) = text /\ Zeroed(alloc) = alloc - 1 /\ Len(Kept(alloc)) + k < Zeroed(alloc)
<1>1. Len(text) \in Nat /\ size \in Nat /\ zeros \in Nat
  BY DEF BufferTypes
<1>2. size - 1 <= zeros /\ Len(text) < size /\ size <= Len(text) + BufferSize
  BY DEF BufferInv
<1>3. Grows(alloc)
  BY <1>1, <1>2 DEF Grows
<1>4. Kept(alloc) = text
  BY <1>1, <1>2 DEF Kept
<1>5. Zeroed(alloc) = alloc - 1
  BY <1>2, <1>3 DEF Zeroed
<1> QED BY <1>1, <1>4, <1>5

\* Whatever size is, what tcrealloc0 leaves of the string is a beginning of it.
LEMMA KeptAndZeroed ==
    ASSUME BufferTypes, NEW alloc \in Nat, Len(text) < alloc
    PROVE  /\ Kept(alloc) \in Seq(Byte) /\ Len(Kept(alloc)) <= Len(text)
           /\ Zeroed(alloc) \in 0..alloc
<1>1. text \in Seq(Byte) /\ Len(text) \in Nat /\ size \in Nat /\ zeros \in Nat
  BY DEF BufferTypes
<1>2. /\ Kept(alloc) \in Seq(Byte) /\ Len(Kept(alloc)) <= Len(text)
  <2>1. CASE Grows(alloc) /\ size - 1 < Len(text)
    <3>1. \A i \in 1..(size - 1) : text[i] \in Byte
      BY <1>1, <2>1
    <3>2. size - 1 \in Int /\ size - 1 <= Len(text)
      BY <1>1, <2>1
    <3>3. SubSeq(text, 1, size - 1) \in Seq(Byte) /\ Len(SubSeq(text, 1, size - 1)) <= Len(text)
      BY <1>1, <3>1, <3>2, SubSeqProperties
    <3> QED BY <2>1, <3>3 DEF Kept
  <2>2. CASE ~(Grows(alloc) /\ size - 1 < Len(text))
    BY <1>1, <2>2 DEF Kept
  <2> QED BY <2>1, <2>2
<1>3. Zeroed(alloc) \in 0..alloc
  BY <1>1 DEF Zeroed
<1> QED BY <1>2, <1>3

\* What may be behind a string that was left without its '\0'.
LEMMA TailFacts ==
    ASSUME NEW tail \in {<< >>, <<Junk>>}
    PROVE  tail \in Seq(Byte) /\ Len(tail) \in 0..1
<1>1. CASE tail = << >>
  BY <1>1, EmptySeq
<1>2. CASE tail = <<Junk>>
  BY <1>2, CharFacts
<1> QED BY <1>1, <1>2

LEMMA ThreeConcatenated ==
    ASSUME NEW S, NEW u \in Seq(S), NEW v \in Seq(S), NEW w \in Seq(S)
    PROVE  (u \o v) \o w \in Seq(S) /\ Len((u \o v) \o w) = Len(u) + Len(v) + Len(w)
<1>1. u \o v \in Seq(S) /\ Len(u \o v) = Len(u) + Len(v)
  BY ConcatProperties
<1>2. (u \o v) \o w \in Seq(S) /\ Len((u \o v) \o w) = Len(u \o v) + Len(w)
  BY <1>1, ConcatProperties
<1> QED BY <1>1, <1>2

\* What RecvMore does, with its LET opened.
LEMMA RecvMoreDoes ==
    ASSUME BufferTypes, BufferInv, NEW n \in Network, NEW k \in Nat, k < BufferSize, k > 0, RecvMore(n, k),
           Received(n, k) \in Seq(Byte), Len(Received(n, k)) = k, BufferSize \in Nat
    PROVE  \E kept \in Seq(Byte), tail \in {<< >>, <<Junk>>} :
             /\ text' = (kept \o Received(n, k)) \o tail
             /\ block' = Len(text) + BufferSize + 1 /\ size' = block'
             /\ zeros' \in 0..block' /\ Len(text') < zeros'
             /\ owner' = owner \cup {n} /\ fresh' = fresh
             /\ broken' = IF owner' = {n} /\ kept = text /\ tail = << >> THEN broken
                          ELSE broken \cup owner'
             /\ ~fresh => kept = text /\ tail = << >> /\ zeros' = block' - 1
<1> DEFINE alloc == Len(text) + BufferSize + 1
<1>0. Len(text) \in Nat
  BY DEF BufferTypes
<1>1. alloc \in Nat /\ Len(text) < alloc
  BY <1>0
<1>2. PICK kept : kept = Kept(alloc)
  OBVIOUS
<1>3. kept \in Seq(Byte) /\ Len(kept) <= Len(text) /\ Zeroed(alloc) \in 0..alloc
  BY <1>1, <1>2, KeptAndZeroed
<1>4. PICK tail \in IF Len(kept) + k < Zeroed(alloc) THEN {<< >>} ELSE {<< >>, <<Junk>>} :
             /\ block' = alloc /\ size' = alloc
             /\ text' = kept \o Received(n, k) \o tail
             /\ zeros' = IF Len(kept) + k < Zeroed(alloc) THEN Zeroed(alloc) ELSE Len(text') + 1
             /\ owner' = owner \cup {n}
             /\ broken' = IF owner' = {n} /\ kept = text /\ tail = << >> THEN broken
                          ELSE broken \cup owner'
  BY <1>2 DEF RecvMore
<1>5. tail \in {<< >>, <<Junk>>}
  BY <1>4
<1>6. tail \in Seq(Byte) /\ Len(tail) \in 0..1
  BY <1>5, TailFacts
<1>7. text' = (kept \o Received(n, k)) \o tail /\ Len(text') = Len(kept) + k + Len(tail)
  <2>1. /\ (kept \o Received(n, k)) \o tail \in Seq(Byte)
        /\ Len((kept \o Received(n, k)) \o tail) = Len(kept) + Len(Received(n, k)) + Len(tail)
    BY <1>3, <1>6, ThreeConcatenated
  <2>2. text' = (kept \o Received(n, k)) \o tail
    BY <1>4
  <2> QED BY <2>1, <2>2
<1>8. zeros' \in 0..block' /\ Len(text') < zeros'
  <2>1. CASE Len(kept) + k < Zeroed(alloc)
    <3>1. tail = << >> /\ Len(tail) = 0
      BY <1>4, <2>1
    <3> QED BY <1>3, <1>4, <1>7, <2>1, <3>1
  <2>2. CASE ~(Len(kept) + k < Zeroed(alloc))
    <3>1. zeros' = Len(text') + 1 /\ Len(tail) \in Nat /\ Len(kept) \in Nat
      BY <1>3, <1>4, <1>6, <2>2
    <3>2. Len(text') + 1 <= alloc /\ Len(text') \in Nat
      <4>1. \A a, b, c, d \in Nat : a <= b /\ c <= 1 => a + k + c + 1 <= b + BufferSize + 1
        OBVIOUS
      <4>2. Len(kept) + k + Len(tail) + 1 <= alloc /\ Len(kept) + k + Len(tail) \in Nat
        <5>1. PICK a \in Nat, b \in Nat, c \in Nat : a = Len(kept) /\ b = Len(text) /\ c = Len(tail)
          BY <1>0, <3>1
        <5>2. a <= b
          BY <1>3, <5>1
        <5>3. c <= 1
          BY <1>6, <5>1, SMTT(60)
        <5> QED BY <4>1, <5>1, <5>2, <5>3
      <4> HIDE DEF alloc
      <4> QED BY <1>7, <4>2
    <3>3. block' = alloc
      BY <1>4
    <3> HIDE DEF alloc
    <3> QED BY <1>1, <3>1, <3>2, <3>3
  <2> QED BY <2>1, <2>2
<1>9. ASSUME ~fresh PROVE kept = text /\ tail = << >> /\ zeros' = block' - 1
  <2>1. block # 0
    BY DEF RecvMore
  <2>2. Kept(alloc) = text /\ Zeroed(alloc) = alloc - 1 /\ Len(Kept(alloc)) + k < Zeroed(alloc)
    BY <1>9, <2>1, RightSize
  <2> QED BY <1>2, <1>4, <2>2
<1>10. fresh' = fresh
  BY DEF RecvMore
<1> QED BY <1>3, <1>4, <1>5, <1>7, <1>8, <1>9, <1>10

LEMMA RecvMoreKeeps ==
    ASSUME ReadInv, NEW n \in Network, NEW k, RecvMore(n, k)
    PROVE  ReadInv'
<1> USE DEF ReadInv
<1>1. Reads(n, k) /\ place = "select" /\ net' = n /\ place' = "lines" /\ UNCHANGED <<world, line, handled, shost>>
  BY DEF RecvMore, Reads, parser
<1>2. /\ k \in Nat /\ k > 0 /\ k < BufferSize /\ BufferSize \in Nat
      /\ Received(n, k) \in Seq(Byte) /\ Len(Received(n, k)) = k
      /\ wire' \in [Network -> Seq(Byte)]
      /\ \A p \in Network : p # n => wire'[p] = wire[p]
      /\ wire[n] = Received(n, k) \o wire'[n]
  BY <1>1, ReadsCut
<1>3. block # 0 /\ owner # {} /\ owner \subseteq Network
  BY DEF RecvMore, BufferInv, StreamTypes
<1>4. PICK kept \in Seq(Byte), tail \in {<< >>, <<Junk>>} :
             /\ text' = (kept \o Received(n, k)) \o tail
             /\ block' = Len(text) + BufferSize + 1 /\ size' = block'
             /\ zeros' \in 0..block' /\ Len(text') < zeros'
             /\ owner' = owner \cup {n} /\ fresh' = fresh
             /\ broken' = IF owner' = {n} /\ kept = text /\ tail = << >> THEN broken
                          ELSE broken \cup owner'
             /\ ~fresh => kept = text /\ tail = << >> /\ zeros' = block' - 1
  BY <1>2, RecvMoreDoes
<1>5. broken \subseteq broken' /\ broken' \subseteq Network
  BY <1>3, <1>4 DEF StreamTypes
<1>6. StreamTypes'
  BY <1>1, <1>2, <1>3, <1>4, <1>5 DEF StreamTypes, WorldOK
<1>7. Len(text) \in Nat /\ text' \in Seq(Byte) /\ Len(text') = Len(kept) + k + Len(tail)
      /\ Len(kept) \in Nat /\ Len(tail) \in Nat
  <2>1. text \in Seq(Byte) /\ kept \in Seq(Byte) /\ Received(n, k) \in Seq(Byte)
    BY <1>2, <1>4 DEF BufferTypes
  <2>2. tail \in Seq(Byte) /\ Len(tail) \in 0..1
    BY <1>4, TailFacts
  <2>3. text' \in Seq(Byte) /\ Len(text') = Len(kept) + Len(Received(n, k)) + Len(tail)
    BY <1>4, <2>1, <2>2, ThreeConcatenated
  <2> QED BY <1>2, <2>1, <2>2, <2>3
<1>8. BufferTypes'
  <2>1. block' \in Nat /\ size' \in Nat \ {0} /\ (block' > 0 => Len(text') < zeros')
    BY <1>2, <1>4, <1>7, SMTT(60)
  <2> QED BY <1>4, <1>7, <2>1 DEF BufferTypes
<1>9. BufferInv'
  <2>1. block' # 0 /\ owner' # {} /\ place' = "lines" /\ net' \in owner'
    BY <1>1, <1>2, <1>4, <1>7
  <2>2. ~fresh' => size' - 1 <= zeros' /\ Len(text') < size' /\ size' <= Len(text') + BufferSize
    BY <1>2, <1>4, <1>7
  <2>3. CASE owner' = {n}
    BY <1>1, <2>1, <2>2, <2>3 DEF BufferInv
  <2>4. CASE owner' # {n}
    <3>1. owner' \subseteq broken'
      BY <1>4, <2>4
    <3> QED BY <1>1, <2>1, <2>2, <3>1 DEF BufferInv
  <2> QED BY <2>3, <2>4
<1>10. ASSUME NEW p \in Network, Proper(p)' PROVE StreamOf(p)'
  <2>1. StreamOf(p) /\ Proper(p)
    BY <1>1, <1>5, <1>10, StaysProper DEF StreamInv
  <2>2. Waiting(p)' \o wire'[p] = Waiting(p) \o wire[p]
    <3>1. CASE owner' = {n} /\ kept = text /\ tail = << >>
      <4>1. owner = {n}
        BY <1>3, <1>4, <3>1
      <4>2. CASE p = n
        <5>1. text' = text \o Received(n, k)
          <6>1. text \o Received(n, k) \in Seq(Byte)
            BY <1>2, <1>4, <3>1, ConcatProperties
          <6> QED BY <1>4, <3>1, <6>1, ConcatEmptySeq
        <5>2. text \in Seq(Byte) /\ wire'[n] \in Seq(Byte)
          BY <1>2 DEF BufferTypes
        <5>3. (text \o Received(n, k)) \o wire'[n] = text \o (Received(n, k) \o wire'[n])
          BY <1>2, <5>2, ConcatenationIsAssociative, SMTT(60)
        <5> QED BY <1>2, <3>1, <4>1, <4>2, <5>1, <5>3 DEF Waiting
      <4>3. CASE p # n
        BY <1>2, <3>1, <4>1, <4>3 DEF Waiting
      <4> QED BY <4>2, <4>3
    <3>2. CASE ~(owner' = {n} /\ kept = text /\ tail = << >>)
      <4>1. owner' \subseteq broken' /\ p \notin broken'
        BY <1>4, <1>10, <3>2 DEF Proper
      <4>2. p \notin owner' /\ p \notin owner /\ p # n
        BY <1>4, <4>1
      <4>3. Waiting(p)' = << >> /\ Waiting(p) = << >>
        BY <4>2 DEF Waiting
      <4> QED BY <1>2, <4>2, <4>3
    <3> QED BY <3>1, <3>2
  <2> QED BY <1>1, <2>1, <2>2, StreamKept
<1> QED BY <1>6, <1>8, <1>9, <1>10 DEF StreamInv

LEMMA RecvNothingKeeps ==
    ASSUME ReadInv, NEW n \in Network, RecvNothing(n)
    PROVE  ReadInv'
<1> USE DEF ReadInv
<1>1. /\ place = "select" /\ place' = "select" /\ net' = n /\ fresh' = fresh
      /\ UNCHANGED <<world, line, handled, shost, wire>>
      /\ block' = 0 /\ text' = << >> /\ zeros' = 0 /\ broken' = broken \cup owner /\ owner' = {}
      /\ size' = IF block = 0 THEN size ELSE Len(text) + BufferSize + 1
  BY DEF RecvNothing, parser
<1>2. Len(text) \in Nat /\ BufferSize \in Nat /\ << >> \in Seq(Byte) /\ Len(<< >>) = 0
  <2>1. BufferSize \in Nat
    BY IrcInputAssumption
  <2> QED BY <2>1, EmptySeq DEF BufferTypes
<1>3. StreamTypes'
  BY <1>1 DEF StreamTypes, WorldOK
<1>4. BufferTypes'
  BY <1>1, <1>2 DEF BufferTypes
<1>5. BufferInv'
  BY <1>1 DEF BufferInv
<1>6. ASSUME NEW p \in Network, Proper(p)' PROVE StreamOf(p)'
  <2>1. StreamOf(p) /\ broken \subseteq broken' /\ p \notin broken'
    BY <1>1, <1>6, StaysProper DEF StreamInv, Proper
  <2>2. p \notin owner
    BY <1>1, <2>1
  <2>3. Waiting(p)' = << >> /\ Waiting(p) = << >>
    BY <1>1, <2>2 DEF Waiting
  <2> QED BY <1>1, <2>1, <2>3, StreamKept
<1> QED BY <1>3, <1>4, <1>5, <1>6 DEF StreamInv
-----------------------------------------------------------------------------
\* Kept folded where only the lengths and the elements matter.
Joins(x, a, b) == x = a \o b

\* What a concatenation is made of, by the lengths of its parts.
LEMMA Concatenated ==
    ASSUME NEW S, NEW a \in Seq(S), NEW b \in Seq(S), NEW x, Joins(x, a, b)
    PROVE  /\ x \in Seq(S) /\ Len(x) = Len(a) + Len(b)
           /\ \A i \in 1..Len(a) : x[i] = a[i]
           /\ \A i \in 1..Len(b) : x[Len(a) + i] = b[i]
<1>1. PICK la \in Nat, lb \in Nat : la = Len(a) /\ lb = Len(b)
  OBVIOUS
<1>2. /\ \A i \in 1..la : (a \o b)[i] = a[i]
      /\ \A i \in (la + 1)..(la + lb) : (a \o b)[i] = b[i - la]
      /\ a \o b \in Seq(S) /\ Len(a \o b) = la + lb
  BY <1>1, ConcatProperties
<1>3. ASSUME NEW i \in 1..lb PROVE (a \o b)[la + i] = b[i]
  <2>1. la + i \in (la + 1)..(la + lb) /\ (la + i) - la = i
    OBVIOUS
  <2> QED BY <1>2, <2>1
<1> QED BY <1>1, <1>2, <1>3 DEF Joins

\* Two ways to cut one sequence.
LEMMA CutTwice ==
    ASSUME NEW S, NEW a \in Seq(S), NEW b \in Seq(S), NEW c \in Seq(S), NEW d \in Seq(S),
           NEW x, Joins(x, a, b), Joins(x, c, d),
           Len(c) <= Len(a)
    PROVE  /\ \A i \in 1..Len(c) : a[i] = c[i]
           /\ \A i \in 1..(Len(a) - Len(c)) : a[Len(c) + i] = d[i] /\ i \in 1..Len(d)
           /\ Joins(d, SubSeq(a, Len(c) + 1, Len(a)), b)
<1>1. PICK lb \in Nat, ld \in Nat, la \in Nat, lc \in Nat :
          lb = Len(b) /\ ld = Len(d) /\ la = Len(a) /\ lc = Len(c) /\ lc <= la
  OBVIOUS
<1>2. /\ Len(x) = la + lb
      /\ \A i \in 1..la : x[i] = a[i]
      /\ \A i \in 1..lb : x[la + i] = b[i]
  BY <1>1, Concatenated
<1>3. /\ Len(x) = lc + ld
      /\ \A i \in 1..lc : x[i] = c[i]
      /\ \A i \in 1..ld : x[lc + i] = d[i]
  BY <1>1, Concatenated
<1>4. la + lb = lc + ld
  BY <1>2, <1>3
<1>5. ASSUME NEW i \in 1..lc PROVE a[i] = c[i]
  <2>1. i \in 1..la
    BY <1>1
  <2> QED BY <1>2, <1>3, <2>1
<1>6. ASSUME NEW i \in 1..(la - lc) PROVE a[lc + i] = d[i] /\ i \in 1..ld
  <2>1. lc + i \in 1..la /\ i \in 1..ld
    BY <1>4
  <2> QED BY <1>2, <1>3, <2>1
<1>7. PICK le \in Nat : le = la - lc
  <2>1. la - lc \in Nat
    BY <1>1
  <2> QED BY <2>1
<1>8. PICK e \in Seq(S) : /\ e = SubSeq(a, lc + 1, la) /\ le = Len(e)
                          /\ \A i \in 1..le : e[i] = a[lc + i]
  <2>1. \A i \in (lc + 1)..la : a[i] \in S
    BY <1>1
  <2>2. /\ SubSeq(a, lc + 1, la) \in Seq(S)
        /\ Len(SubSeq(a, lc + 1, la)) = IF lc + 1 <= la THEN la - (lc + 1) + 1 ELSE 0
        /\ \A i \in 1..(la - (lc + 1) + 1) : SubSeq(a, lc + 1, la)[i] = a[(lc + 1) + i - 1]
    BY <2>1, SubSeqProperties
  <2>3. la - (lc + 1) + 1 = le /\ \A i \in Nat : (lc + 1) + i - 1 = lc + i
    BY <1>7
  <2>4. Len(SubSeq(a, lc + 1, la)) = le
    BY <1>7, <2>2
  <2>5. ASSUME NEW i \in 1..le PROVE SubSeq(a, lc + 1, la)[i] = a[lc + i]
    <3>1. i \in Nat /\ i \in 1..(la - (lc + 1) + 1) /\ (lc + 1) + i - 1 = lc + i
      BY <2>3
    <3> QED BY <2>2, <3>1
  <2> QED BY <2>2, <2>4, <2>5
<1>9. PICK y : Joins(y, e, b)
  BY DEF Joins
<1>10. /\ y \in Seq(S) /\ Len(y) = le + lb
       /\ \A i \in 1..le : y[i] = e[i]
       /\ \A i \in 1..lb : y[le + i] = b[i]
  <2>1. /\ y \in Seq(S) /\ Len(y) = Len(e) + Len(b)
        /\ \A i \in 1..Len(e) : y[i] = e[i]
        /\ \A i \in 1..Len(b) : y[Len(e) + i] = b[i]
    BY <1>9, Concatenated
  <2>2. Len(e) = le /\ Len(b) = lb
    BY <1>1, <1>8
  <2> QED BY <2>1, <2>2
<1>11. Len(y) = ld /\ Len(d) = ld
  BY <1>1, <1>4, <1>7, <1>10
<1>12. ASSUME NEW i \in 1..ld PROVE y[i] = d[i]
  <2>1. CASE i <= le
    <3>1. i \in 1..le /\ i \in 1..(la - lc)
      BY <1>7, <2>1
    <3> QED BY <1>6, <1>8, <1>10, <3>1
  <2>2. CASE i > le
    <3>1. PICK j \in 1..lb : i = le + j /\ lc + i = la + j
      <4>1. i - le \in 1..lb /\ i = le + (i - le) /\ lc + i = la + (i - le)
        BY <1>4, <1>7, <2>2
      <4> QED BY <4>1
    <3>2. y[i] = b[j]
      BY <1>10, <3>1
    <3>3. x[lc + i] = d[i] /\ x[la + j] = b[j]
      BY <1>2, <1>3
    <3> QED BY <3>1, <3>2, <3>3
  <2> QED BY <1>7, <2>1, <2>2
<1>13. y = d
  BY <1>10, <1>11, <1>12, SeqEqual
<1> QED BY <1>1, <1>5, <1>6, <1>8, <1>9, <1>13

\* Where a line ends, by what is there.
LEMMA LineEndIs ==
    ASSUME BufferTypes, NEW p \in 1..Len(text), IsEnd(text[p]), \A j \in 1..(p - 1) : ~IsEnd(text[j])
    PROVE  LineEnd = p
<1>1. DOMAIN text = 1..Len(text) /\ Len(text) \in Nat
  BY DEF BufferTypes
<1> DEFINE P(i) == IsEnd(text[i]) /\ \A j \in 1..(i - 1) : ~IsEnd(text[j])
<1>2. \A i \in 1..Len(text) : P(i) => i = p
  BY <1>1
<1>3. P(p)
  OBVIOUS
<1>4. LineEnd = CHOOSE i \in 1..Len(text) : P(i)
  BY <1>1 DEF LineEnd
<1> HIDE DEF P
<1> QED BY <1>2, <1>3, <1>4

LEMMA RemainderIs ==
    ASSUME BufferTypes, NEW p \in 1..Len(text), LineEnd = p, NEW q \in p..Len(text),
           \A j \in p..q : IsEnd(text[j]), q = Len(text) \/ ~IsEnd(text[q + 1])
    PROVE  Remainder = SubSeq(text, q + 1, Len(text))
<1>1. Len(text) \in Nat
  BY DEF BufferTypes
<1> DEFINE P(i) == (\A j \in p..i : IsEnd(text[j])) /\ (i = Len(text) \/ ~IsEnd(text[i + 1]))
<1>2. ASSUME NEW i \in p..Len(text), P(i) PROVE i = q
  <2>1. CASE i < q
    <3>1. i + 1 \in p..q /\ i # Len(text)
      BY <1>1, <2>1
    <3> QED BY <1>2, <3>1
  <2>2. CASE q < i
    <3>1. q + 1 \in p..i /\ q # Len(text)
      BY <1>1, <2>2
    <3> QED BY <1>2, <3>1
  <2> QED BY <1>1, <2>1, <2>2
<1>3. P(q)
  OBVIOUS
<1>4. PICK after : after = CHOOSE i \in p..Len(text) : P(i)
  OBVIOUS
<1>5. Remainder = SubSeq(text, after + 1, Len(text))
  BY <1>4 DEF Remainder
<1> HIDE DEF P
<1>6. after = q
  BY <1>2, <1>3, <1>4
<1> QED BY <1>5, <1>6

\* A text with a LF in it has a line, and behind it less text.
LEMMA LineTaken ==
    ASSUME BufferTypes, LF \in ToSet(text)
    PROVE  /\ SubSeq(text, 1, LineEnd - 1) \in Seq(Byte)
           /\ Remainder \in Seq(Byte)
<1>0. text \in Seq(Byte) /\ Len(text) \in Nat /\ \A i \in 1..Len(text) : text[i] \in Byte
  BY DEF BufferTypes
<1>1. PICK f \in 1..Len(text) : text[f] = LF
  BY <1>0, ToSetIs
<1>2. IsEnd(text[f])
  BY <1>1, CharFacts
<1> DEFINE Ends == {i \in 1..Len(text) : IsEnd(text[i])}
<1>3. PICK p \in Ends : \A y \in Ends : p <= y
  <2>1. Ends \in SUBSET Nat /\ Ends # {}
    BY <1>0, <1>2
  <2> HIDE DEF Ends
  <2> QED BY <2>1, Lists!LeastNat
<1>4. p \in 1..Len(text) /\ IsEnd(text[p]) /\ \A j \in 1..(p - 1) : ~IsEnd(text[j])
  BY <1>0, <1>3
<1>5. LineEnd = p
  BY <1>4, LineEndIs
<1> DEFINE Stops == {i \in p..Len(text) : i = Len(text) \/ ~IsEnd(text[i + 1])}
<1>6. PICK q \in Stops : \A y \in Stops : q <= y
  <2>1. Stops \in SUBSET Nat /\ Stops # {}
    BY <1>0, <1>4
  <2> HIDE DEF Stops
  <2> QED BY <2>1, Lists!LeastNat
<1>7. q \in p..Len(text) /\ (q = Len(text) \/ ~IsEnd(text[q + 1]))
  BY <1>6
<1>8. ASSUME NEW j \in p..q PROVE IsEnd(text[j])
  <2>1. CASE j = p
    BY <1>4, <2>1
  <2>2. CASE j # p
    <3>1. j - 1 \in p..Len(text) /\ ~(q <= j - 1) /\ (j - 1) + 1 = j
      BY <1>0, <1>4, <1>7, <2>2
    <3>2. j - 1 \notin Stops
      BY <1>6, <3>1
    <3> QED BY <3>1, <3>2
  <2> QED BY <2>1, <2>2
<1>9. Remainder = SubSeq(text, q + 1, Len(text))
  BY <1>4, <1>5, <1>7, <1>8, RemainderIs
<1>10. q + 1 \in Int /\ p - 1 \in Int /\ p - 1 <= Len(text) /\ q + 1 >= 1
  BY <1>0, <1>4, <1>7
<1>11. (\A i \in 1..(p - 1) : text[i] \in Byte) /\ (\A i \in (q + 1)..Len(text) : text[i] \in Byte)
  BY <1>0, <1>4, <1>7
<1>12. SubSeq(text, 1, p - 1) \in Seq(Byte)
  BY <1>10, <1>11, SubSeqProperties
<1>13. SubSeq(text, q + 1, Len(text)) \in Seq(Byte)
  BY <1>0, <1>10, <1>11, SubSeqProperties
<1> QED BY <1>5, <1>9, <1>12, <1>13

\* The line that is taken from a text that begins with a line and its end.
LEMMA FirstLineTaken ==
    ASSUME WorldOK, BufferTypes, LF \in ToSet(text),
           NEW l \in Seq(Byte), \A i \in 1..Len(l) : ~IsEnd(l[i]),
           NEW rest \in Seq(Byte), NEW w \in Seq(Byte), NEW c, Joins(c, l, world.end),
           NEW x, Joins(x, text, w), Joins(x, c, rest),
           rest # << >> => ~IsEnd(rest[1])
    PROVE  SubSeq(text, 1, LineEnd - 1) = l /\ Joins(rest, Remainder, w)
<1>1. text \in Seq(Byte) /\ world.end \in Seq(Byte)
  BY EndFacts DEF BufferTypes
<1>2. PICK ll \in Nat, le \in Nat, lt \in Nat : ll = Len(l) /\ le = Len(world.end) /\ lt = Len(text)
  BY <1>1
<1>3. le \in {1, 2} /\ \A i \in 1..le : IsEnd(world.end[i]) /\ (world.end[i] = LF => i = le)
  BY <1>2, EndFacts
<1>4. /\ c \in Seq(Byte) /\ Len(c) = ll + le
      /\ \A i \in 1..ll : c[i] = l[i]
      /\ \A i \in 1..le : c[ll + i] = world.end[i]
  BY <1>1, <1>2, Concatenated
<1>5. \A i \in 1..lt : x[i] = text[i]
  BY <1>1, <1>2, Concatenated
<1>6. \A i \in 1..(ll + le) : x[i] = c[i]
  BY <1>4, Concatenated, SMTT(60)
<1>7. PICK f \in 1..lt : text[f] = LF
  BY <1>1, <1>2, ToSetIs
<1>8. ll + le <= f
  <2> SUFFICES ASSUME f < ll + le PROVE FALSE
    BY <1>2
  <2>1. c[f] = LF /\ IsEnd(LF)
    BY <1>5, <1>6, <1>7, CharFacts
  <2>2. CASE f <= ll
    <3>1. f \in 1..ll
      BY <2>2
    <3> QED BY <1>2, <1>4, <2>1, <3>1
  <2>3. CASE f > ll
    <3>1. PICK i \in 1..le : f = ll + i /\ i # le
      <4>1. f - ll \in 1..le /\ f = ll + (f - ll) /\ f - ll # le
        BY <2>3
      <4> QED BY <4>1
    <3> QED BY <1>3, <1>4, <2>1, <3>1
  <2> QED BY <2>2, <2>3
<1>9. PICK lc \in Nat : lc = ll + le /\ lc <= lt /\ lc = Len(c)
  BY <1>4, <1>7, <1>8
<1>10. /\ \A i \in 1..lc : text[i] = c[i]
       /\ \A i \in 1..(lt - lc) : text[lc + i] = rest[i] /\ i \in 1..Len(rest)
       /\ Joins(rest, SubSeq(text, lc + 1, lt), w)
  <2>1. Len(c) <= Len(text)
    BY <1>2, <1>9
  <2>2. /\ \A i \in 1..Len(c) : text[i] = c[i]
        /\ \A i \in 1..(Len(text) - Len(c)) : text[Len(c) + i] = rest[i] /\ i \in 1..Len(rest)
        /\ Joins(rest, SubSeq(text, Len(c) + 1, Len(text)), w)
    BY <1>1, <1>4, <2>1, CutTwice
  <2> QED BY <1>2, <1>9, <2>2
<1>11. \A i \in 1..ll : text[i] = l[i] /\ ~IsEnd(text[i])
  <2> SUFFICES ASSUME NEW i \in 1..ll PROVE text[i] = l[i] /\ ~IsEnd(text[i])
    OBVIOUS
  <2>1. i \in 1..lc
    BY <1>9
  <2> QED BY <1>2, <1>4, <1>10, <2>1
<1>12. ASSUME NEW j \in (ll + 1)..lc PROVE IsEnd(text[j])
  <2>1. PICK i \in 1..le : j = ll + i
    <3>1. j - ll \in 1..le /\ j = ll + (j - ll)
      BY <1>9
    <3> QED BY <3>1
  <2>2. j \in 1..lc
    OBVIOUS
  <2>3. text[j] = c[ll + i] /\ c[ll + i] = world.end[i]
    BY <1>4, <1>10, <2>1, <2>2
  <2> QED BY <1>3, <2>3
<1>13. LineEnd = ll + 1
  <2>1. ll + 1 \in 1..lt /\ ll + 1 \in (ll + 1)..lc /\ (ll + 1) - 1 = ll
    BY <1>3, <1>9
  <2>2. IsEnd(text[ll + 1]) /\ \A j \in 1..((ll + 1) - 1) : ~IsEnd(text[j])
    BY <1>11, <1>12, <2>1
  <2> QED BY <1>2, <2>1, <2>2, LineEndIs
<1>14. Remainder = SubSeq(text, lc + 1, lt)
  <2>1. ll + 1 \in 1..lt /\ lc \in (ll + 1)..lt
    BY <1>3, <1>9
  <2>2. lc = lt \/ ~IsEnd(text[lc + 1])
    <3> SUFFICES ASSUME lc # lt PROVE ~IsEnd(text[lc + 1])
      OBVIOUS
    <3>1. 1 \in 1..(lt - lc)
      BY <1>9
    <3>2. text[lc + 1] = rest[1] /\ 1 \in 1..Len(rest)
      BY <1>10, <3>1
    <3>3. rest # << >>
      BY <3>2
    <3> QED BY <3>2, <3>3
  <2> QED BY <1>2, <1>12, <1>13, <2>1, <2>2, RemainderIs
<1>15. SubSeq(text, 1, ll) = l
  <2>1. \A i \in 1..ll : text[i] \in Byte
    BY <1>2, <1>11
  <2>2. /\ SubSeq(text, 1, ll) \in Seq(Byte)
        /\ Len(SubSeq(text, 1, ll)) = IF 1 <= ll THEN ll - 1 + 1 ELSE 0
        /\ \A i \in 1..(ll - 1 + 1) : SubSeq(text, 1, ll)[i] = text[1 + i - 1]
    BY <2>1, SubSeqProperties
  <2>3. PICK s \in Seq(Byte) : s = SubSeq(text, 1, ll)
    BY <2>2
  <2>4. Len(s) = ll
    BY <2>2, <2>3
  <2>5. ASSUME NEW i \in 1..ll PROVE s[i] = l[i]
    <3>1. i \in 1..(ll - 1 + 1) /\ 1 + i - 1 = i
      OBVIOUS
    <3> QED BY <1>11, <2>2, <2>3, <3>1
  <2>6. s = l
    BY <1>2, <2>4, <2>5, SeqEqual
  <2> QED BY <2>3, <2>6
<1>16. LineEnd - 1 = ll
  BY <1>13
<1> QED BY <1>10, <1>14, <1>15, <1>16

\* A network that sends no empty line has text behind the end of a line.
LEMMA NextLineBegins ==
    ASSUME WorldOK, NEW n \in Network, << >> \notin ToSet(world.lines[n]), NEW h \in Nat,
           Lines(From(world.lines[n], h)) # << >>
    PROVE  /\ h < Len(world.lines[n])
           /\ ~IsEnd(Lines(From(world.lines[n], h))[1])
<1>1. /\ world.lines[n] \in Seq(Seq(Char)) /\ IsListOver(world.lines[n], Byte)
      /\ world.end \in Seq(Byte)
  BY WorldFacts, EndFacts
<1>2. Len(world.lines[n]) \in Nat
  BY <1>1
<1>3. h < Len(world.lines[n])
  BY <1>2, LinesAtTheEnd
<1>4. PICK l \in Seq(Char) : l = world.lines[n][h + 1] /\ l # << >>
  <2>1. h + 1 \in 1..Len(world.lines[n])
    BY <1>2, <1>3
  <2>2. world.lines[n][h + 1] \in Seq(Char) /\ world.lines[n][h + 1] \in ToSet(world.lines[n])
    BY <1>1, <2>1, ToSetIs
  <2> QED BY <2>2
<1>5. l \in Seq(Byte) /\ 1 \in 1..Len(l) /\ l[1] \in Char
  <2>1. l \in Seq(Byte)
    BY CharFacts, SeqMonotone
  <2> QED BY <1>4, <2>1, EmptySeq
<1>6. PICK r \in Seq(Byte) : r = Lines(From(world.lines[n], h + 1))
  <2>1. IsListOver(From(world.lines[n], h + 1), Byte)
    BY <1>1, FromType
  <2> QED BY <2>1, LinesType
<1>7. PICK c : Joins(c, l, world.end)
  BY DEF Joins
<1>8. PICK x : Joins(x, c, r)
  BY DEF Joins
<1>9. Lines(From(world.lines[n], h)) = x
  BY <1>1, <1>3, <1>4, <1>6, <1>7, <1>8, LinesFromTheFront DEF Joins
<1>10. c \in Seq(Byte) /\ 1 \in 1..Len(c) /\ c[1] = l[1]
  <2>1. /\ c \in Seq(Byte) /\ Len(c) = Len(l) + Len(world.end)
        /\ \A i \in 1..Len(l) : c[i] = l[i]
    BY <1>1, <1>5, <1>7, Concatenated
  <2> QED BY <1>1, <1>5, <2>1
<1>11. x[1] = c[1]
  BY <1>6, <1>8, <1>10, Concatenated
<1> QED BY <1>3, <1>5, <1>9, <1>10, <1>11, CharFacts

-----------------------------------------------------------------------------
\* The stream of a network that is not the one that is read.
LEMMA StreamKeptElsewhere ==
    ASSUME NEW n \in Network, StreamOf(n), net # n, net' # n,
           world' = world, handled'[n] = handled[n],
           Waiting(n)' = Waiting(n), wire'[n] = wire[n]
    PROVE  StreamOf(n)'
<1>1. Lines(From(world.lines[n], Len(handled[n])))' = Lines(From(world.lines[n], Len(handled[n])))
  BY DEF Lines, From
<1> QED BY <1>1 DEF StreamOf

\* What TakeLine does to the buffer.
LEMMA TakeLineDoes ==
    ASSUME BufferTypes, StreamTypes, TakeLine
    PROVE  /\ place = "lines" /\ place' = "prefix" /\ block # 0 /\ LF \in ToSet(text)
           /\ UNCHANGED <<world, wire, net, shost, handled, broken>> /\ UNCHANGED <<m, data, room>>
           /\ text' = Remainder /\ text' \in Seq(Byte) /\ fresh' = FALSE
           /\ line' = SubSeq(text, 1, LineEnd - 1) /\ line' \in Seq(Byte)
           /\ \/ owner' = {} /\ text' = << >> /\ block' = 0 /\ zeros' = 0 /\ size' = size
              \/ /\ owner' = {net} /\ block' = Len(text') + 1
                 /\ zeros' = block' /\ size' = block'
<1>1. /\ place = "lines" /\ place' = "prefix" /\ block # 0 /\ LF \in ToSet(text)
      /\ UNCHANGED <<world, wire, net, shost, handled, broken>> /\ UNCHANGED <<m, data, room>>
      /\ text' = Remainder /\ line' = SubSeq(text, 1, LineEnd - 1) /\ fresh' = FALSE
  BY DEF TakeLine
<1>2. text' \in Seq(Byte) /\ line' \in Seq(Byte)
  BY <1>1, LineTaken
<1>3. CASE Remainder = << >>
  BY <1>1, <1>2, <1>3 DEF TakeLine
<1>4. CASE Remainder # << >>
  <2>1. Shifted(Remainder) /\ owner' = {net}
    BY <1>4 DEF TakeLine
  <2> QED BY <1>1, <1>2, <2>1 DEF Shifted
<1> QED BY <1>3, <1>4

LEMMA TakeLineKeeps ==
    ASSUME ReadInv, TakeLine
    PROVE  ReadInv'
<1> USE DEF ReadInv
<1>1. /\ place = "lines" /\ place' = "prefix" /\ block # 0 /\ LF \in ToSet(text)
      /\ UNCHANGED <<world, wire, net, shost, handled, broken>>
      /\ text' = Remainder /\ text' \in Seq(Byte) /\ fresh' = FALSE
      /\ line' = SubSeq(text, 1, LineEnd - 1)
      /\ \/ owner' = {} /\ text' = << >> /\ block' = 0 /\ zeros' = 0 /\ size' = size
         \/ /\ owner' = {net} /\ block' = Len(text') + 1
            /\ zeros' = block' /\ size' = block'
  BY TakeLineDoes
<1>2. Len(text') \in Nat /\ BufferSize > 1 /\ BufferSize \in Nat
  <2>1. BufferSize > 1 /\ BufferSize \in Nat
    BY IrcInputAssumption
  <2> QED BY <1>1, <2>1
<1>3. StreamTypes'
  BY <1>1 DEF StreamTypes, WorldOK
<1>4. BufferTypes'
  <2>1. size \in Nat \ {0} /\ (text' = << >> => Len(text') = 0)
    BY DEF BufferTypes
  <2> QED BY <1>1, <1>2, <2>1 DEF BufferTypes
<1>5. BufferInv'
  <2>1. CASE owner' = {} /\ text' = << >> /\ block' = 0 /\ zeros' = 0 /\ size' = size
    BY <1>1, <2>1 DEF BufferInv
  <2>2. CASE owner' = {net} /\ block' = Len(text') + 1 /\ zeros' = block' /\ size' = block'
    <3>1. block' # 0 /\ size' - 1 <= zeros' /\ Len(text') < size' /\ size' <= Len(text') + BufferSize
      BY <1>2, <2>2
    <3> QED BY <1>1, <2>2, <3>1 DEF BufferInv
  <2> QED BY <1>1, <2>1, <2>2
<1>6. net \in owner
  BY <1>1 DEF BufferInv
<1>7. ASSUME NEW p \in Network, Proper(p)', p # net PROVE StreamOf(p)'
  <2>1. StreamOf(p)
    BY <1>1, <1>7, StaysProper DEF StreamInv
  <2>2. owner # {p} /\ owner' # {p}
    <3>1. net \notin {p} /\ net' = net /\ {p} # {}
      BY <1>1, <1>7
    <3>2. owner' = {} \/ owner' = {net}
      BY <1>1
    <3>3. owner # {p}
      BY <1>6, <3>1
    <3>4. owner' # {p}
      BY <3>1, <3>2
    <3> QED BY <3>3, <3>4
  <2>3. Waiting(p) = << >> /\ Waiting(p)' = << >>
    BY <2>2 DEF Waiting
  <2> QED BY <1>1, <1>7, <2>1, <2>3, StreamKeptElsewhere
<1>8. ASSUME Proper(net)' PROVE StreamOf(net)'
  <2>1. net \in Network /\ Proper(net) /\ StreamOf(net)
    BY <1>1, <1>8, StaysProper DEF StreamInv, StreamTypes
  <2>2. PICK L, h : L = world.lines[net] /\ h = Len(handled[net])
    OBVIOUS
  <2>3. /\ owner = {net} /\ Waiting(net) = text /\ << >> \notin ToSet(L)
    BY <1>6, <2>1, <2>2 DEF BufferInv, Waiting, Proper
  <2>4. /\ L \in Seq(Seq(Char)) /\ IsListOver(L, Byte) /\ h \in Nat /\ Len(L) \in Nat
        /\ text \in Seq(Byte) /\ wire[net] \in Seq(Byte) /\ WorldOK /\ world.end \in Seq(Byte)
    <3>1. WorldOK
      BY DEF StreamTypes
    <3>2. L \in Seq(Seq(Char)) /\ IsListOver(L, Byte) /\ world.end \in Seq(Byte)
      BY <2>1, <2>2, <3>1, WorldFacts, EndFacts
    <3>3. handled[net] \in Seq(Seq(Byte)) /\ wire[net] \in Seq(Byte)
      BY <2>1 DEF StreamTypes
    <3>4. h \in Nat
      BY <2>2, <3>3
    <3>5. Len(L) \in Nat
      BY <3>2
    <3> QED BY <3>1, <3>2, <3>3, <3>4, <3>5 DEF BufferTypes
  <2>5. Lines(From(L, h)) = text \o wire[net]
    BY <1>1, <2>1, <2>2, <2>3 DEF StreamOf
  <2>6. Lines(From(L, h)) # << >>
    <3>1. 1 \in 1..Len(text)
      BY <1>1, <2>4, ToSetIs
    <3> QED BY <2>4, <2>5, <3>1
  <2>7. h < Len(L)
    BY <2>1, <2>2, <2>3, <2>4, <2>6, NextLineBegins
  <2>8. PICK l \in Seq(Char) : l = L[h + 1]
    <3>1. h + 1 \in 1..Len(L)
      BY <2>4, <2>7
    <3> QED BY <2>4, <3>1
  <2>9. l \in Seq(Byte) /\ \A i \in 1..Len(l) : ~IsEnd(l[i])
    <3>1. Seq(Char) \subseteq Seq(Byte)
      BY CharFacts, SeqMonotone
    <3>2. \A i \in 1..Len(l) : l[i] \in Char
      OBVIOUS
    <3> QED BY <3>1, <3>2, CharFacts
  <2>10. PICK rest \in Seq(Byte) : rest = Lines(From(L, h + 1))
    <3>1. IsListOver(From(L, h + 1), Byte)
      BY <2>4, FromType
    <3> QED BY <2>4, <3>1, LinesType
  <2>11. PICK c : Joins(c, l, world.end)
    BY DEF Joins
  <2>12. PICK x : Joins(x, text, wire[net])
    BY DEF Joins
  <2>13. Joins(x, c, rest)
    BY <2>4, <2>5, <2>7, <2>8, <2>10, <2>11, <2>12, LinesFromTheFront DEF Joins
  <2>14. rest # << >> => ~IsEnd(rest[1])
    BY <2>1, <2>2, <2>3, <2>4, <2>10, NextLineBegins
  <2>15. SubSeq(text, 1, LineEnd - 1) = l /\ Joins(rest, Remainder, wire[net])
    BY <1>1, <2>4, <2>9, <2>11, <2>12, <2>13, <2>14, FirstLineTaken
  <2>16. Waiting(net)' = Remainder
    BY <1>1 DEF Waiting
  <2>17. rest = Waiting(net)' \o wire'[net]
    BY <1>1, <2>15, <2>16 DEF Joins
  <2>18. Lines(From(L, h + 1))' = rest
    BY <1>1, <2>2, <2>10 DEF Lines, From
  <2>19. IsPrefix(handled[net], L)
    BY <2>1, <2>2 DEF StreamOf
  <2> QED BY <1>1, <2>2, <2>7, <2>8, <2>15, <2>17, <2>18, <2>19 DEF StreamOf, Lines, From
<1> QED BY <1>1, <1>3, <1>4, <1>5, <1>7, <1>8 DEF StreamInv

LEMMA NoLineKeeps ==
    ASSUME ReadInv, NoLine
    PROVE  ReadInv'
<1> USE DEF ReadInv
<1>1. /\ place = "lines" /\ (block = 0 \/ LF \notin ToSet(text)) /\ place' = "select"
      /\ UNCHANGED <<world, wire, block, text, zeros, size, net, line, shost, handled, owner, fresh, broken>>
  BY DEF NoLine, buffer, parser, history
<1>2. StreamTypes' /\ BufferTypes'
  BY <1>1 DEF StreamTypes, WorldOK, BufferTypes
<1>3. BufferInv'
  BY <1>1 DEF BufferInv
<1>4. ASSUME NEW p \in Network, Proper(p)' PROVE StreamOf(p)'
  <2>1. StreamOf(p)
    BY <1>1, <1>4, StaysProper DEF StreamInv
  <2>2. Waiting(p)' \o wire'[p] = Waiting(p) \o wire[p]
    BY <1>1 DEF Waiting
  <2> QED BY <1>1, <2>1, <2>2, StreamKept
<1> QED BY <1>2, <1>3, <1>4 DEF StreamInv

Parsing == {"prefix", "command", "params", "rest", "dispatch"}

\* The steps of parse_irc_line touch neither the buffer nor the streams.
LEMMA ParsingKeeps ==
    ASSUME ReadInv, Parses, place \in Parsing, place' \in Parsing \cup {"fault"}
    PROVE  ReadInv'
<1> USE DEF ReadInv
<1>1. /\ UNCHANGED <<world, wire, block, text, zeros, size, net, line, shost, handled, owner, fresh, broken>>
      /\ place \notin {"select", "lines"} /\ place' \notin {"select", "lines"}
      /\ place' \in Parsing \cup {"fault"}
  BY DEF Parses, buffer, history, Parsing
<1>2. StreamTypes' /\ BufferTypes'
  BY <1>1 DEF StreamTypes, WorldOK, BufferTypes, Parsing
<1>3. BufferInv'
  BY <1>1 DEF BufferInv
<1>4. ASSUME NEW p \in Network, Proper(p)' PROVE StreamOf(p)'
  <2>1. StreamOf(p)
    BY <1>1, <1>4, StaysProper DEF StreamInv
  <2>2. Waiting(p)' \o wire'[p] = Waiting(p) \o wire[p]
    BY <1>1 DEF Waiting
  <2> QED BY <1>1, <2>1, <2>2, StreamKept
<1> QED BY <1>2, <1>3, <1>4 DEF StreamInv

\* A beginning of t with the next element of t is one.
LEMMA PrefixGrows ==
    ASSUME NEW S, NEW s \in Seq(S), NEW t \in Seq(S), IsPrefix(s, t), Len(s) < Len(t)
    PROVE  IsPrefix(Append(s, t[Len(s) + 1]), t)
<1>1. PICK ls \in Nat, lt \in Nat : ls = Len(s) /\ lt = Len(t) /\ ls < lt
  OBVIOUS
<1>2. PICK u \in Seq(S) : /\ u = Append(s, t[ls + 1]) /\ Len(u) = ls + 1
                          /\ (\A i \in 1..ls : u[i] = s[i]) /\ u[ls + 1] = t[ls + 1]
  <2>1. ls + 1 \in 1..lt
    BY <1>1
  <2>2. PICK x \in S : x = t[ls + 1]
    BY <1>1, <2>1
  <2>3. /\ Append(s, x) \in Seq(S) /\ Len(Append(s, x)) = ls + 1
        /\ (\A i \in 1..ls : Append(s, x)[i] = s[i]) /\ Append(s, x)[ls + 1] = x
    BY <1>1, AppendProperties
  <2> QED BY <2>2, <2>3
<1>3. SubSeq(s, 1, ls) = SubSeq(t, 1, ls)
  BY <1>1 DEF IsPrefix
<1>4. ASSUME NEW i \in 1..ls PROVE s[i] = t[i]
  <2>1. SubSeq(s, 1, ls)[i] = s[i]
    BY <1>1
  <2>2. SubSeq(t, 1, ls)[i] = t[i]
    BY <1>1
  <2> QED BY <1>3, <2>1, <2>2
<1>5. ASSUME NEW i \in 1..(ls + 1) PROVE u[i] = t[i]
  BY <1>2, <1>4
<1>6. SubSeq(u, 1, ls + 1) = SubSeq(t, 1, ls + 1)
  BY <1>1, <1>2, <1>5
<1> QED BY <1>1, <1>2, <1>6 DEF IsPrefix

\* Behind the first "@" of s.
LEMMA BehindAt ==
    ASSUME NEW s \in Seq(Byte), "@" \in ToSet(s)
    PROVE  SubSeq(s, SelectInSeq(s, LAMBDA c : c = "@") + 1, Len(s)) \in Seq(Byte)
<1> DEFINE I == {i \in 1..Len(s) : s[i] = "@"}
<1>1. I # {} /\ I \subseteq Nat
  BY ToSetIs
<1>2. \E x \in I : \A y \in I : x <= y
  <2> HIDE DEF I
  <2> QED BY <1>1, Lists!LeastNat
<1>3. Min(I) \in I
  BY <1>2 DEF Min
<1>4. SelectInSeq(s, LAMBDA c : c = "@") = Min(I)
  BY <1>1 DEF SelectInSeq
<1>5. PICK k \in Nat : k = SelectInSeq(s, LAMBDA c : c = "@") /\ k >= 1
  <2>1. PICK k \in I : k = Min(I)
    BY <1>3
  <2>2. k \in Nat /\ k >= 1
    BY <2>1
  <2> HIDE DEF I
  <2> QED BY <1>4, <2>1, <2>2
<1>6. SubSeq(s, k + 1, Len(s)) \in Seq(Byte)
  <2>1. \A i \in (k + 1)..Len(s) : s[i] \in Byte
    BY <1>5
  <2> QED BY <1>5, <2>1, SubSeqProperties
<1> QED BY <1>5, <1>6

LEMMA RunTriggersKeeps ==
    ASSUME ReadInv, ParserTypes, RunTriggers
    PROVE  ReadInv'
<1> USE DEF ReadInv
<1>1. /\ place = "dispatch" /\ place' = "lines"
      /\ UNCHANGED <<world, wire, block, text, zeros, size, net, owner, fresh, broken>>
      /\ handled' = IF net \in broken THEN handled ELSE [handled EXCEPT ![net] = Append(@, line)]
  BY DEF RunTriggers, buffer
<1>2. net \in Network /\ line \in Seq(Byte) /\ handled \in [Network -> Seq(Seq(Byte))]
  BY DEF StreamTypes, ParserTypes
<1>3. handled' \in [Network -> Seq(Seq(Byte))]
  <2>1. Append(handled[net], line) \in Seq(Seq(Byte))
    BY <1>2, AppendProperties
  <2> QED BY <1>1, <1>2, <2>1
<1>4. shost' \in [Network -> SUBSET Seq(Byte)]
  <2>1. shost \in [Network -> SUBSET Seq(Byte)] /\ data.reststr \in Seq(Byte)
    BY DEF StreamTypes, ParserTypes, IrcData
  <2>2. CASE data.command = Userhost /\ shost[net] = {} /\ "@" \in ToSet(data.reststr)
    <3>1. PICK h \in Seq(Byte) :
              h = SubSeq(data.reststr, SelectInSeq(data.reststr, LAMBDA c : c = "@") + 1, Len(data.reststr))
      BY <2>1, <2>2, BehindAt
    <3>2. shost' = [shost EXCEPT ![net] = {h}]
      BY <2>2, <3>1 DEF RunTriggers
    <3> QED BY <2>1, <3>2
  <2>3. CASE ~(data.command = Userhost /\ shost[net] = {} /\ "@" \in ToSet(data.reststr))
    BY <2>1, <2>3 DEF RunTriggers
  <2> QED BY <2>2, <2>3
<1>5. StreamTypes' /\ BufferTypes'
  BY <1>1, <1>3, <1>4 DEF StreamTypes, WorldOK, BufferTypes
<1>6. BufferInv'
  BY <1>1 DEF BufferInv
<1>7. ASSUME NEW p \in Network, Proper(p)', p # net PROVE StreamOf(p)'
  <2>1. StreamOf(p)
    BY <1>1, <1>7, StaysProper DEF StreamInv
  <2>2. Waiting(p)' = Waiting(p) /\ handled'[p] = handled[p]
    BY <1>1, <1>2, <1>7 DEF Waiting
  <2> QED BY <1>1, <1>7, <2>1, <2>2, StreamKeptElsewhere
<1>8. ASSUME Proper(net)' PROVE StreamOf(net)'
  <2>1. Proper(net) /\ StreamOf(net)
    BY <1>1, <1>2, <1>8, StaysProper DEF StreamInv
  <2>2. PICK L \in Seq(Seq(Byte)), s \in Seq(Seq(Byte)) : L = world.lines[net] /\ s = handled[net]
    <3>1. world.lines[net] \in Seq(Seq(Byte))
      BY <1>2, WorldFacts DEF StreamTypes, IsListOver
    <3> QED BY <1>2, <3>1
  <2>3. /\ IsPrefix(s, L) /\ Len(s) < Len(L) /\ line = L[Len(s) + 1]
        /\ Lines(From(L, Len(s) + 1)) = Waiting(net) \o wire[net]
    BY <1>1, <2>1, <2>2 DEF StreamOf
  <2>4. handled'[net] = Append(s, line)
    BY <1>1, <1>2, <2>1, <2>2 DEF Proper
  <2>5. IsPrefix(handled'[net], L) /\ Len(handled'[net]) = Len(s) + 1
    <3>1. IsPrefix(Append(s, line), L)
      BY <2>3, PrefixGrows
    <3> QED BY <1>2, <2>4, <3>1, AppendProperties
  <2>6. Waiting(net)' = Waiting(net) /\ wire'[net] = wire[net]
    BY <1>1 DEF Waiting
  <2>7. Lines(From(L, Len(s) + 1))' = Lines(From(L, Len(s) + 1))
    BY <1>1, <2>2 DEF Lines, From
  <2>8. Lines(From(world.lines[net], Len(handled[net])))' = Lines(From(L, Len(s) + 1))
    <3>1. (world.lines[net])' = L /\ world'.end = world.end
      BY <1>1, <2>2
    <3>2. Len(handled[net])' = Len(s) + 1
      BY <1>1, <2>5
    <3>3. From(world.lines[net], Len(handled[net]))' = From(L, Len(s) + 1)
      BY <3>1, <3>2 DEF From
    <3> QED BY <3>1, <3>3 DEF Lines
  <2>9. net' = net /\ place' = "lines" /\ world'.lines[net] = L
    BY <1>1, <2>2
  <2> QED BY <2>3, <2>5, <2>6, <2>8, <2>9 DEF StreamOf
<1> QED BY <1>1, <1>5, <1>6, <1>7, <1>8 DEF StreamInv

-----------------------------------------------------------------------------
\* The array of words of parse_irc_line has room for the words and the NULL behind them.
Ended == Colon(m) \/ (At(m) = NUL /\ At(m - 1) # " ")
WordsFit ==
    /\ place \in {"select", "lines", "prefix", "command"} =>
          data.params = << >> /\ data.rest = << >> /\ room = Slots
    /\ place = "params" => Len(data.params) + 1 < room \/ (Len(data.params) < room /\ Ended)
    /\ place = "params" => data.rest = << >>
    /\ place = "rest" => Len(data.rest) + 1 < room \/ (Len(data.rest) < room /\ At(m) = NUL)

ParserInv == ParserTypes /\ WordsFit

LEMMA Room == Slots \in Nat /\ Slots > 1
BY IrcInputAssumption

\* Kept folded where only lengths and positions matter.
LineOK == line \in Seq(Byte)

LEMMA LineFacts == LineOK => Len(line) \in Nat
BY DEF LineOK

LEMMA AtIs ==
    ASSUME LineOK, NEW i \in Int
    PROVE  /\ At(i) = NUL <=> i \notin 1..Len(line)
           /\ i \in 1..Len(line) => At(i) = line[i]
<1>1. DOMAIN line = 1..Len(line) /\ \A j \in 1..Len(line) : line[j] \in Byte
  BY DEF LineOK
<1>2. NUL \notin Byte
  BY IrcInputAssumption DEF Byte, NUL, CR, LF, Junk
<1> QED BY <1>1, <1>2 DEF At

\* Pieces of a string are strings.
LEMMA Piece ==
    ASSUME NEW s \in Seq(Byte), NEW a \in Int, NEW b \in Int, 1 <= a, b <= Len(s)
    PROVE  SubSeq(s, a, b) \in Seq(Byte)
<1>1. \A i \in a..b : s[i] \in Byte
  OBVIOUS
<1> QED BY <1>1, SubSeqProperties

LEMMA LinePiece ==
    ASSUME LineOK, NEW a \in Int, NEW b \in Int, 1 <= a, b <= Len(line)
    PROVE  SubSeq(line, a, b) \in Seq(Byte)
BY Piece DEF LineOK

LEMMA Next1Is ==
    ASSUME line \in Seq(Byte), NEW c, NEW from \in Nat, from >= 1, Found(c, from)
    PROVE  /\ Next1(c, from) \in Nat /\ from <= Next1(c, from) /\ Next1(c, from) <= Len(line)
           /\ Len(line) \in Nat /\ line[Next1(c, from)] = c
           /\ \A j \in from..(Next1(c, from) - 1) : line[j] # c
<1> DEFINE I == {i \in from..Len(line) : line[i] = c}
<1>1. I # {} /\ I \in SUBSET Nat
  BY DEF Found
<1>2. PICK i \in I : \A j \in I : i <= j
  <2> HIDE DEF I
  <2> QED BY <1>1, Lists!LeastNat
<1>3. i \in from..Len(line) /\ line[i] = c /\ \A j \in from..(i - 1) : line[j] # c
  BY <1>2
<1>4. PICK x : x = Next1(c, from)
  OBVIOUS
<1>5. x \in from..Len(line) /\ line[x] = c /\ \A j \in from..(x - 1) : line[j] # c
  BY <1>3, <1>4 DEF Next1
<1>6. x \in Nat /\ from <= x /\ x <= Len(line) /\ Len(line) \in Nat
  BY <1>5
<1> QED BY <1>4, <1>5, <1>6

\* Where a prefix is split.
LEMMA PrefixIsCut ==
    ASSUME NEW s \in Seq(Byte), ~Hopeless(s), "!" \in ToSet(s)
    PROVE  \E bang \in 1..Len(s) : \E at \in bang..Len(s) :
               /\ s[bang] = "!" /\ s[at] = "@"
               /\ Prefix(s) = [nick |-> SubSeq(s, 1, bang - 1), user |-> SubSeq(s, bang + 1, at - 1),
                               host |-> SubSeq(s, at + 1, Len(s))]
<1> DEFINE I == {i \in 1..Len(s) : s[i] = "!"}
<1>1. I # {} /\ I \in SUBSET Nat
  BY ToSetIs
<1>2. \E x \in I : \A y \in I : x <= y
  <2> HIDE DEF I
  <2> QED BY <1>1, Lists!LeastNat
<1>3. Min(I) \in I
  BY <1>2 DEF Min
<1>4. SelectInSeq(s, LAMBDA c : c = "!") = Min(I)
  BY <1>1 DEF SelectInSeq
<1>5. PICK bang \in 1..Len(s) : bang = SelectInSeq(s, LAMBDA c : c = "!") /\ s[bang] = "!"
  <2>1. PICK k \in I : k = Min(I)
    BY <1>3
  <2>2. k \in 1..Len(s) /\ s[k] = "!"
    BY <2>1
  <2> HIDE DEF I
  <2> QED BY <1>4, <2>1, <2>2
<1>6. \E i \in bang..Len(s) : s[i] = "@"
  <2>1. "@" \in ToSet(SubSeq(s, bang, Len(s)))
    BY <1>5 DEF Hopeless
  <2>2. SubSeq(s, bang, Len(s)) \in Seq(Byte)
    BY <1>5, Piece
  <2>3. PICK i \in 1..Len(SubSeq(s, bang, Len(s))) : SubSeq(s, bang, Len(s))[i] = "@"
    BY <2>1, <2>2, ToSetIs
  <2>4. i \in Nat /\ bang + i - 1 \in bang..Len(s) /\ s[bang + i - 1] = "@"
    BY <1>5, <2>3
  <2> QED BY <2>4
<1> DEFINE J == {i \in bang..Len(s) : s[i] = "@"}
<1>7. PICK a \in J : \A j \in J : a <= j
  <2>1. J # {} /\ J \in SUBSET Nat
    BY <1>6
  <2> HIDE DEF J
  <2> QED BY <2>1, Lists!LeastNat
<1>8. a \in bang..Len(s) /\ s[a] = "@" /\ \A j \in bang..(a - 1) : s[j] # "@"
  BY <1>7
<1>9. PICK at \in bang..Len(s) : at = CHOOSE i \in bang..Len(s) :
                     s[i] = "@" /\ \A j \in bang..(i - 1) : s[j] # "@"
  BY <1>8
<1>10. s[at] = "@"
  BY <1>8, <1>9
<1>11. Prefix(s) = [nick |-> SubSeq(s, 1, bang - 1), user |-> SubSeq(s, bang + 1, at - 1),
                    host |-> SubSeq(s, at + 1, Len(s))]
  BY <1>5, <1>9 DEF Prefix
<1> QED BY <1>5, <1>10, <1>11

\* The types of a prefix that can be split.
LEMMA PrefixType ==
    ASSUME NEW s \in Seq(Byte), ~Hopeless(s)
    PROVE  Prefix(s) \in IrcPrefixes
<1>1. CASE "!" \in ToSet(s)
  <2>1. PICK bang \in 1..Len(s) : \E at \in bang..Len(s) :
            Prefix(s) = [nick |-> SubSeq(s, 1, bang - 1), user |-> SubSeq(s, bang + 1, at - 1),
                         host |-> SubSeq(s, at + 1, Len(s))]
    BY <1>1, PrefixIsCut
  <2>2. PICK at \in bang..Len(s) :
            Prefix(s) = [nick |-> SubSeq(s, 1, bang - 1), user |-> SubSeq(s, bang + 1, at - 1),
                         host |-> SubSeq(s, at + 1, Len(s))]
    BY <2>1
  <2>3. /\ 1 \in Int /\ bang - 1 \in Int /\ bang - 1 <= Len(s) /\ bang + 1 \in Int /\ 1 <= bang + 1
         /\ at - 1 \in Int /\ at - 1 <= Len(s) /\ at + 1 \in Int /\ 1 <= at + 1
         /\ Len(s) \in Int /\ Len(s) <= Len(s) /\ 1 <= 1
    OBVIOUS
  <2>4. PICK nick \in Seq(Byte), user \in Seq(Byte), host \in Seq(Byte) :
             /\ nick = SubSeq(s, 1, bang - 1) /\ user = SubSeq(s, bang + 1, at - 1)
             /\ host = SubSeq(s, at + 1, Len(s))
    <3>1. SubSeq(s, 1, bang - 1) \in Seq(Byte)
      BY <2>3, Piece
    <3>2. SubSeq(s, bang + 1, at - 1) \in Seq(Byte)
      BY <2>3, Piece
    <3>3. SubSeq(s, at + 1, Len(s)) \in Seq(Byte)
      BY <2>3, Piece
    <3> QED BY <3>1, <3>2, <3>3
  <2>5. Prefix(s) = [nick |-> nick, user |-> user, host |-> host]
    BY <2>2, <2>4
  <2>6. Prefix(s) \in [{"nick", "user", "host"} -> Seq(Byte)]
    BY <2>5
  <2> QED BY <2>6 DEF IrcPrefixes
<1>2. CASE "!" \notin ToSet(s)
  <2>1. Prefix(s) \in [{"nick"} -> Seq(Byte)] \/ Prefix(s) \in [{"servername"} -> Seq(Byte)]
    BY <1>2 DEF Prefix
  <2> QED BY <2>1 DEF IrcPrefixes
<1> QED BY <1>1, <1>2

\* The fields of the parsed line, one of them given a value.
LEMMA DataFields ==
    ASSUME data \in IrcData
    PROVE  /\ data.prefix \in IrcPrefixes /\ data.command \in Seq(Byte)
           /\ data.params \in Seq(Seq(Byte)) /\ data.rest \in Seq(Seq(Byte)) /\ data.reststr \in Seq(Byte)
BY DEF IrcData

LEMMA ParsePrefixFits ==
    ASSUME ParserInv, ParsePrefix
    PROVE  ParserInv' /\ Parses /\ place \in Parsing /\ place' \in Parsing \cup {"fault"}
<1> USE DEF ParserInv
<1>1. place = "prefix" /\ Parses /\ place' \in {"command", "fault"} /\ room' = room /\ line' = line
  BY DEF ParsePrefix, Fault, Parses
<1>2. data.params = << >> /\ data.rest = << >> /\ room = Slots
  BY <1>1 DEF WordsFit
<1>3. /\ data' \in IrcData /\ m' \in Nat \ {0}
      /\ data'.params = << >> /\ data'.rest = << >>
  <2>1. CASE UNCHANGED <<m, data>>
    BY <1>2, <2>1 DEF ParserTypes
  <2>2. CASE ~UNCHANGED <<m, data>>
    <3>1. PICK s : s = SubSeq(line, 2, Next1(" ", 1) - 1)
      OBVIOUS
    <3>2. /\ Found(" ", 1) /\ ~Hopeless(s)
          /\ data' = [data EXCEPT !.prefix = Prefix(s)] /\ m' = Next1(" ", 1) + 1
      BY <2>2, <3>1 DEF ParsePrefix, Fault
    <3>3. /\ line \in Seq(Byte) /\ Next1(" ", 1) \in Nat /\ Next1(" ", 1) <= Len(line)
          /\ Len(line) \in Nat
      <4>1. line \in Seq(Byte) /\ 1 \in Nat /\ 1 >= 1
        BY DEF ParserTypes
      <4> QED BY <3>2, <4>1, Next1Is
    <3>4. s \in Seq(Byte)
      <4>1. PICK b \in Int : b = Next1(" ", 1) - 1 /\ b <= Len(line)
        <5>1. PICK p \in Nat, l \in Nat : p = Next1(" ", 1) /\ l = Len(line) /\ p <= l
          BY <3>3
        <5>2. p <= l
          BY <5>1
        <5>3. p - 1 \in Int /\ p - 1 <= l
          BY <5>2
        <5> QED BY <5>1, <5>3
      <4>2. 2 \in Int /\ 1 <= 2
        OBVIOUS
      <4>3. SubSeq(line, 2, b) \in Seq(Byte)
        BY <3>3, <4>1, <4>2, Piece
      <4> QED BY <3>1, <4>1, <4>3
    <3>5. Prefix(s) \in IrcPrefixes
      BY <3>2, <3>4, PrefixType
    <3>6. data \in IrcData
      BY DEF ParserTypes
    <3>7. data' \in IrcData /\ data'.params = data.params /\ data'.rest = data.rest
      BY <3>2, <3>5, <3>6 DEF IrcData
    <3>8. m' \in Nat \ {0}
      <4>1. PICK p \in Nat : p = Next1(" ", 1)
        BY <3>3
      <4>2. p + 1 \in Nat \ {0}
        OBVIOUS
      <4>3. m' = p + 1
        BY <3>2, <4>1
      <4> QED BY <4>2, <4>3
    <3> QED BY <1>2, <3>7, <3>8
  <2> QED BY <2>1, <2>2
<1> QED BY <1>1, <1>2, <1>3 DEF ParserTypes, WordsFit, Parsing

LEMMA ParseCommandFits ==
    ASSUME ParserInv, ParseCommand
    PROVE  ParserInv' /\ Parses /\ place \in Parsing /\ place' \in Parsing \cup {"fault"}
<1> USE DEF ParserInv
<1>1. place = "command" /\ Parses /\ place' \in {"params", "fault"} /\ room' = room /\ line' = line
  BY DEF ParseCommand, Fault, Parses
<1>2. data.params = << >> /\ data.rest = << >> /\ room = Slots /\ room \in Nat /\ room > 1
  BY <1>1, Room DEF WordsFit
<1>3. /\ data' \in IrcData /\ m' \in Nat \ {0}
      /\ data'.params = << >> /\ data'.rest = << >>
  <2>1. CASE UNCHANGED <<m, data>>
    BY <1>2, <2>1 DEF ParserTypes
  <2>2. CASE ~UNCHANGED <<m, data>>
    <3>1. PICK s : s = SubSeq(line, m, Next1(" ", m) - 1)
      OBVIOUS
    <3>2. /\ Found(" ", m)
          /\ data' = [data EXCEPT !.command = s] /\ m' = Next1(" ", m) + 1
      BY <2>2, <3>1 DEF ParseCommand, Fault
    <3>3. m \in Nat /\ m >= 1 /\ line \in Seq(Byte)
      BY DEF ParserTypes
    <3>4. Next1(" ", m) \in Nat /\ Next1(" ", m) <= Len(line) /\ Len(line) \in Nat
      BY <3>2, <3>3, Next1Is
    <3>5. s \in Seq(Byte)
      <4>1. PICK b \in Int : b = Next1(" ", m) - 1 /\ b <= Len(line)
        <5>1. PICK p \in Nat, l \in Nat : p = Next1(" ", m) /\ l = Len(line) /\ p <= l
          BY <3>4
        <5>2. p <= l
          BY <5>1
        <5>3. p - 1 \in Int /\ p - 1 <= l
          BY <5>2
        <5> QED BY <5>1, <5>3
      <4>2. m \in Int /\ 1 <= m
        BY <3>3
      <4>3. SubSeq(line, m, b) \in Seq(Byte)
        BY <3>3, <4>1, <4>2, Piece
      <4> QED BY <3>1, <4>1, <4>3
    <3>6. data \in IrcData
      BY DEF ParserTypes
    <3>7. data' \in IrcData /\ data'.params = data.params /\ data'.rest = data.rest
      BY <3>2, <3>5, <3>6 DEF IrcData
    <3>8. m' \in Nat \ {0}
      <4>1. PICK p \in Nat : p = Next1(" ", m)
        BY <3>4
      <4>2. p + 1 \in Nat \ {0}
        OBVIOUS
      <4>3. m' = p + 1
        BY <3>2, <4>1
      <4> QED BY <4>2, <4>3
    <3> QED BY <1>2, <3>7, <3>8
  <2> QED BY <2>1, <2>2
<1>4. Len(data'.params) = 0 /\ Len(data'.params) + 1 < room' /\ Len(data'.params) < room'
  BY <1>1, <1>2, <1>3
<1> QED BY <1>1, <1>2, <1>3, <1>4 DEF ParserTypes, WordsFit, Parsing

\* Where a word ends: at a space, at the '\0', or before a colon that ends the parameters.
LEMMA LeastIn ==
    ASSUME NEW a \in Nat, NEW b \in Nat, NEW I \in SUBSET (a..b), I # {}
    PROVE  \E e \in a..b : e \in I /\ \A i \in a..(e - 1) : i \notin I
<1>1. PICK e \in I : \A j \in I : e <= j
  <2>1. I \in SUBSET Nat
    OBVIOUS
  <2> QED BY <2>1, Lists!LeastNat
<1>2. e \in a..b
  BY <1>1
<1>3. \A i \in a..(e - 1) : i \notin I
  BY <1>1, <1>2
<1> QED BY <1>1, <1>2, <1>3

StopsAt(i, stops) == At(i) \in {" ", NUL} \/ i \in stops

LEMMA WordEndIs ==
    ASSUME LineOK, NEW s \in Nat, s >= 1, NEW l \in Nat, l = Len(line), s <= l + 2, NEW stops
    PROVE  \E e \in s..(l + 2) :
               /\ e = WordEnd(s, stops) /\ StopsAt(e, stops)
               /\ \A i \in s..(e - 1) : ~StopsAt(i, stops)
<1> DEFINE I == {e \in s..(l + 2) : StopsAt(e, stops)}
<1>1. l + 2 \in I
  <2>1. At(l + 2) = NUL
    BY AtIs
  <2>2. l + 2 \in s..(l + 2)
    OBVIOUS
  <2> QED BY <2>1, <2>2 DEF StopsAt
<1>2. \E e \in s..(l + 2) : e \in I /\ \A i \in s..(e - 1) : i \notin I
  <2>1. I \in SUBSET (s..(l + 2)) /\ I # {} /\ l + 2 \in Nat
    BY <1>1
  <2> HIDE DEF I
  <2> QED BY <2>1, LeastIn, ZenonT(30)
<1>3. PICK e \in s..(l + 2) : e \in I /\ \A i \in s..(e - 1) : i \notin I
  BY <1>2
<1>4. \A i \in s..(e - 1) : i \in s..(l + 2)
  OBVIOUS
<1>5. StopsAt(e, stops) /\ \A i \in s..(e - 1) : ~StopsAt(i, stops)
  BY <1>3, <1>4
<1> DEFINE P(x) == StopsAt(x, stops) /\ \A i \in s..(x - 1) : ~StopsAt(i, stops)
<1>6. WordEnd(s, stops) = CHOOSE x \in s..(l + 2) : P(x)
  BY DEF WordEnd, StopsAt
<1>7. P(e)
  BY <1>5
<1>8. PICK x \in s..(l + 2) : x = WordEnd(s, stops) /\ P(x)
  <2> HIDE DEF P
  <2> QED BY <1>6, <1>7
<1> QED BY <1>8

\* A word and the position behind it.
Counts(n, words) == Len(words) = n /\ Len(Append(words, << >>)) = n + 1
HasMore(words) == At(m) # NUL \/ (words # << >> /\ At(m - 1) = " ")

LEMMA WordFits ==
    ASSUME LineOK, NEW p \in Nat, p = m, p >= 1, NEW words, NEW n \in Nat, Counts(n, words),
           NEW stops, NEW r \in Nat, r = room, n + 1 < r, Word(words, stops), HasMore(words)
    PROVE  /\ WordAt(words, stops) \in Seq(Byte)
           /\ m' \in Nat \ {0} /\ room' \in Nat
           /\ \/ n + 2 < room'
              \/ n + 1 < room' /\ m' \in stops
              \/ n + 1 < room' /\ m' - 1 \notin 1..Len(line) /\ m' \notin 1..Len(line)
<1>1. PICK l \in Nat : l = Len(line)
  BY LineFacts
<1>2. PICK s \in Nat : s = Start(p, words) /\ s >= 1 /\ s <= l + 2 /\ s >= p
  <2>1. CASE p \in 1..l
    <3>1. p + 1 \in Nat /\ p + 1 >= 1 /\ p <= l + 2 /\ p + 1 <= l + 2 /\ p + 1 >= p
      BY <2>1
    <3> QED BY <3>1 DEF Start
  <2>2. CASE p \notin 1..l
    <3>1. words # << >> /\ At(p - 1) = " "
      <4>1. At(p) = NUL
        BY <1>1, <2>2, AtIs
      <4> QED BY <4>1 DEF HasMore
    <3>2. At(p - 1) # NUL
      BY <3>1 DEF NUL
    <3>3. p - 1 \in Int
      OBVIOUS
    <3>4. p - 1 \in 1..l
      BY <1>1, <3>2, <3>3, AtIs
    <3>5. p + 1 \in Nat /\ p + 1 >= 1 /\ p + 1 <= l + 2 /\ p + 1 >= p
      BY <3>4
    <3> QED BY <3>1, <3>5 DEF Start
  <2> QED BY <2>1, <2>2
<1>3. PICK e \in s..(l + 2) : e = WordEnd(s, stops) /\ StopsAt(e, stops)
  BY <1>1, <1>2, WordEndIs
<1>4. e \in Nat \ {0} /\ e + 1 \in Nat \ {0} /\ e \in Int
  BY <1>2
<1>5. /\ room' = (IF At(e) = " " THEN Enlarged(Append(words, << >>)) ELSE room)
      /\ m' = (IF e \in stops THEN e ELSE e + 1)
  BY <1>2, <1>3 DEF Word
<1>6. m' \in Nat \ {0}
  BY <1>4, <1>5
<1>7. WordAt(words, stops) \in Seq(Byte)
  <2>1. PICK b \in Int : b = (IF e > l THEN l ELSE e - 1) /\ b <= l
    <3>1. CASE e > l
      BY <3>1
    <3>2. CASE ~(e > l)
      <4>1. e - 1 \in Int /\ e - 1 <= l
        BY <1>4, <3>2
      <4> QED BY <3>2, <4>1
    <3> QED BY <3>1, <3>2
  <2>2. WordAt(words, stops) = SubSeq(line, p, b)
    BY <1>1, <1>2, <1>3, <2>1 DEF WordAt
  <2>3. SubSeq(line, p, b) \in Seq(Byte)
    BY <1>1, <2>1, LinePiece
  <2> QED BY <2>2, <2>3
<1>8. CASE At(e) = " "
  <2>1. room' = IF n + 2 = r THEN r + 10 ELSE r
    <3>1. room' = IF (n + 1) + 1 = r THEN r + 10 ELSE r
      BY <1>5, <1>8 DEF Enlarged, Counts
    <3>2. (n + 1) + 1 = n + 2
      OBVIOUS
    <3> QED BY <3>1, <3>2
  <2>2. (IF n + 2 = r THEN r + 10 ELSE r) \in Nat /\ n + 2 < (IF n + 2 = r THEN r + 10 ELSE r)
    OBVIOUS
  <2> QED BY <1>6, <1>7, <2>1, <2>2
<1>9. CASE At(e) # " " /\ e \in stops
  BY <1>5, <1>6, <1>7, <1>9
<1>10. CASE At(e) # " " /\ e \notin stops
  <2>1. At(e) = NUL
    BY <1>3, <1>10 DEF StopsAt
  <2>2. e \notin 1..l
    BY <1>1, <1>4, <2>1, AtIs
  <2>3. e + 1 \notin 1..l /\ (e + 1) - 1 = e
    BY <1>4, <2>2
  <2>4. m' = e + 1 /\ room' = r
    BY <1>5, <1>10
  <2> QED BY <1>1, <1>6, <1>7, <2>2, <2>3, <2>4
<1> QED BY <1>8, <1>9, <1>10

LEMMA WordsLength ==
    ASSUME data \in IrcData
    PROVE  /\ \E n \in Nat : n = Len(data.params) /\ Counts(n, data.params)
           /\ \E n \in Nat : n = Len(data.rest) /\ Counts(n, data.rest)
<1>1. data.params \in Seq(Seq(Byte)) /\ data.rest \in Seq(Seq(Byte)) /\ << >> \in Seq(Byte)
  BY DataFields, EmptySeq
<1>2. Len(data.params) \in Nat /\ Len(Append(data.params, << >>)) = Len(data.params) + 1
  BY <1>1, AppendProperties
<1>3. Len(data.rest) \in Nat /\ Len(Append(data.rest, << >>)) = Len(data.rest) + 1
  BY <1>1, AppendProperties
<1> QED BY <1>2, <1>3 DEF Counts

LEMMA ParamFits ==
    ASSUME ParserInv, Param
    PROVE  ParserInv' /\ Parses /\ place \in Parsing /\ place' \in Parsing \cup {"fault"}
<1> USE DEF ParserInv
<1>1. /\ place = "params" /\ place' = "params" /\ Parses /\ line' = line /\ ~Colon(m)
      /\ HasMore(data.params) /\ Word(data.params, Colons)
      /\ data' = [data EXCEPT !.params = Append(data.params, WordAt(data.params, Colons))]
  BY DEF Param, Parses, Goes, HasMore
<1>2. /\ LineOK /\ m \in Nat /\ m >= 1 /\ room \in Nat /\ data \in IrcData /\ data.rest = << >>
  BY <1>1 DEF ParserTypes, WordsFit, LineOK
<1>3. ~Ended
  BY <1>1 DEF Ended, HasMore
<1>4. Len(data.params) + 1 < room
  BY <1>1, <1>3 DEF WordsFit
<1>5. PICK n \in Nat : n = Len(data.params) /\ Counts(n, data.params)
  BY <1>2, WordsLength
<1>6. /\ WordAt(data.params, Colons) \in Seq(Byte)
      /\ m' \in Nat \ {0} /\ room' \in Nat
      /\ \/ n + 2 < room'
         \/ n + 1 < room' /\ m' \in Colons
         \/ n + 1 < room' /\ m' - 1 \notin 1..Len(line) /\ m' \notin 1..Len(line)
  <2>1. n + 1 < room
    BY <1>4, <1>5
  <2> QED BY <1>1, <1>2, <1>5, <2>1, WordFits
<1>7. /\ data' \in IrcData /\ Len(data'.params) = n + 1 /\ data'.rest = << >>
  <2>1. PICK w \in Seq(Byte) : w = WordAt(data.params, Colons)
    BY <1>6
  <2>2. Append(data.params, w) \in Seq(Seq(Byte)) /\ Len(Append(data.params, w)) = n + 1
    BY <1>2, <1>5, DataFields, AppendProperties
  <2>3. data' = [data EXCEPT !.params = Append(data.params, w)]
    BY <1>1, <2>1
  <2> QED BY <1>2, <2>2, <2>3 DEF IrcData
<1>8. ASSUME m' \in Colons PROVE Ended'
  <2>1. Colon(m')
    BY <1>8 DEF Colons
  <2> QED BY <1>1, <2>1 DEF Ended, Colon, At
<1>9. ASSUME m' - 1 \notin 1..Len(line), m' \notin 1..Len(line) PROVE Ended'
  <2>1. PICK q \in Nat : q = m'
    BY <1>6
  <2>2. q \in Int /\ q - 1 \in Int
    OBVIOUS
  <2>3. At(q) = NUL /\ At(q - 1) = NUL
    BY <1>2, <1>9, <2>1, <2>2, AtIs
  <2>4. NUL # " "
    BY DEF NUL
  <2> QED BY <1>1, <2>1, <2>3, <2>4 DEF Ended, At
<1>10. n + 1 < room' /\ (n + 1 + 1 < room' \/ Ended')
  <2>1. \A x \in Nat : n + 2 < x => n + 1 < x /\ n + 1 + 1 < x
    OBVIOUS
  <2>2. n + 1 < room' /\ (n + 2 < room' \/ Ended')
    BY <1>6, <1>8, <1>9, <2>1
  <2> QED BY <1>6, <2>1, <2>2
<1>11. Len(data'.params) < room' /\ (Len(data'.params) + 1 < room' \/ Ended')
  BY <1>7, <1>10
<1> QED BY <1>1, <1>2, <1>6, <1>7, <1>11 DEF ParserTypes, WordsFit, Parsing, LineOK

LEMMA ParamsEndFits ==
    ASSUME ParserInv, ParamsEnd
    PROVE  ParserInv' /\ Parses /\ place \in Parsing /\ place' \in Parsing \cup {"fault"}
<1> USE DEF ParserInv
<1>1. place = "params" /\ Parses /\ line' = line
  BY DEF ParamsEnd, Parses
<1>2. line \in Seq(Byte) /\ m \in Nat /\ m >= 1 /\ data \in IrcData /\ data.rest = << >>
  BY <1>1 DEF ParserTypes, WordsFit
<1>3. CASE place' = "dispatch" /\ UNCHANGED <<m, data, room>>
  BY <1>1, <1>3 DEF ParserTypes, WordsFit, Parsing
<1>4. CASE ~(place' = "dispatch" /\ UNCHANGED <<m, data, room>>)
  <2>1. /\ place' = "rest" /\ m' = m + 1 /\ room' = Slots
        /\ data' = [data EXCEPT !.reststr = SubSeq(line, m + 1, Len(line))]
    BY <1>4 DEF ParamsEnd
  <2>2. SubSeq(line, m + 1, Len(line)) \in Seq(Byte)
    <3>1. PICK l \in Nat, a \in Nat : l = Len(line) /\ a = m + 1 /\ 1 <= a /\ l <= Len(line)
      <4>1. Len(line) \in Nat /\ m + 1 \in Nat /\ 1 <= m + 1 /\ Len(line) <= Len(line)
        BY <1>2
      <4> QED BY <4>1
    <3>2. SubSeq(line, a, l) \in Seq(Byte)
      BY <1>2, <3>1, Piece
    <3> QED BY <3>1, <3>2
  <2>3. data' \in IrcData /\ data'.rest = << >> /\ Len(data'.rest) = 0
    BY <1>2, <2>1, <2>2 DEF IrcData
  <2>4. m' \in Nat \ {0}
    BY <1>2, <2>1
  <2>5. Len(data'.rest) < room' /\ Len(data'.rest) + 1 < room' /\ room' \in Nat
    BY <2>1, <2>3, Room
  <2> QED BY <1>1, <1>2, <2>1, <2>3, <2>4, <2>5 DEF ParserTypes, WordsFit, Parsing
<1> QED BY <1>3, <1>4

LEMMA RestWordFits ==
    ASSUME ParserInv, RestWord
    PROVE  ParserInv' /\ Parses /\ place \in Parsing /\ place' \in Parsing \cup {"fault"}
<1> USE DEF ParserInv
<1>1. /\ place = "rest" /\ place' = "rest" /\ Parses /\ line' = line /\ At(m) # NUL
      /\ HasMore(data.rest) /\ Word(data.rest, {})
      /\ data' = [data EXCEPT !.rest = Append(data.rest, WordAt(data.rest, {}))]
  BY DEF RestWord, Parses, HasMore
<1>2. /\ LineOK /\ m \in Nat /\ m >= 1 /\ room \in Nat /\ data \in IrcData
  BY DEF ParserTypes, LineOK
<1>3. Len(data.rest) + 1 < room
  BY <1>1 DEF WordsFit
<1>4. PICK n \in Nat : n = Len(data.rest) /\ Counts(n, data.rest)
  BY <1>2, WordsLength
<1>5. /\ WordAt(data.rest, {}) \in Seq(Byte)
      /\ m' \in Nat \ {0} /\ room' \in Nat
      /\ \/ n + 2 < room'
         \/ n + 1 < room' /\ m' - 1 \notin 1..Len(line) /\ m' \notin 1..Len(line)
  <2>1. n + 1 < room /\ {} \subseteq Colons
    BY <1>3, <1>4
  <2>2. /\ WordAt(data.rest, {}) \in Seq(Byte)
        /\ m' \in Nat \ {0} /\ room' \in Nat
        /\ \/ n + 2 < room'
           \/ n + 1 < room' /\ m' \in {}
           \/ n + 1 < room' /\ m' - 1 \notin 1..Len(line) /\ m' \notin 1..Len(line)
    BY <1>1, <1>2, <1>4, <2>1, WordFits, SMTT(60)
  <2> QED BY <2>2
<1>6. /\ data' \in IrcData /\ Len(data'.rest) = n + 1
  <2>1. PICK w \in Seq(Byte) : w = WordAt(data.rest, {})
    BY <1>5
  <2>2. Append(data.rest, w) \in Seq(Seq(Byte)) /\ Len(Append(data.rest, w)) = n + 1
    BY <1>2, <1>4, DataFields, AppendProperties
  <2>3. data' = [data EXCEPT !.rest = Append(data.rest, w)]
    BY <1>1, <2>1
  <2> QED BY <1>2, <2>2, <2>3 DEF IrcData
<1>7. ASSUME m' \notin 1..Len(line) PROVE At(m)' = NUL
  <2>1. At(m') = NUL
    BY <1>2, <1>5, <1>7, AtIs
  <2> QED BY <1>1, <2>1 DEF At
<1>8. n + 1 < room' /\ (n + 1 + 1 < room' \/ At(m)' = NUL)
  <2>1. \A x \in Nat : n + 2 < x => n + 1 < x /\ n + 1 + 1 < x
    OBVIOUS
  <2>2. n + 1 < room' /\ (n + 2 < room' \/ At(m)' = NUL)
    BY <1>5, <1>7, <2>1
  <2> QED BY <1>5, <2>1, <2>2
<1>9. Len(data'.rest) < room' /\ (Len(data'.rest) + 1 < room' \/ At(m)' = NUL)
  BY <1>6, <1>8
<1> QED BY <1>1, <1>2, <1>5, <1>6, <1>9 DEF ParserTypes, WordsFit, Parsing, LineOK

LEMMA ParsingEndsFit ==
    ASSUME ParserInv, RestEnd \/ PingFails
    PROVE  ParserInv' /\ Parses /\ place \in Parsing /\ place' \in Parsing \cup {"fault"}
BY DEF ParserInv, RestEnd, PingFails, Fault, Parses, ParserTypes, WordsFit, Parsing

LEMMA NoDataIs ==
    /\ NoData \in IrcData /\ NoData.params = << >> /\ NoData.rest = << >>
<1>1. << >> \in IrcPrefixes
  <2>1. << >> \in [{} -> Seq(Byte)]
    OBVIOUS
  <2> QED BY <2>1 DEF IrcPrefixes
<1>2. << >> \in Seq(Byte) /\ << >> \in Seq(Seq(Byte))
  BY EmptySeq
<1> QED BY <1>1, <1>2 DEF NoData, IrcData

LEMMA RunTriggersFits ==
    ASSUME ParserInv, RunTriggers
    PROVE  ParserInv'
<1>1. place' = "lines" /\ line' = << >> /\ m' = 1 /\ data' = NoData /\ room' = Slots
  BY DEF RunTriggers, Forgotten
<1> QED BY <1>1, NoDataIs, Room, EmptySeq DEF ParserInv, ParserTypes, WordsFit

LEMMA ReadsFit ==
    ASSUME ParserInv, UNCHANGED <<m, data, room>>, line' \in Seq(Byte),
           place \in {"select", "lines"}, place' \in {"select", "lines", "prefix"}
    PROVE  ParserInv'
BY DEF ParserInv, ParserTypes, WordsFit

-----------------------------------------------------------------------------
IrcInv == ReadInv /\ ParserInv

LEMMA FromTheStart ==
    ASSUME NEW S, NEW ls \in Seq(S)
    PROVE  From(ls, 0) = ls
<1>1. PICK n \in Nat : n = Len(ls) /\ ls = [i \in 1..n |-> ls[i]]
  OBVIOUS
<1>2. From(ls, 0) = SubSeq(ls, 1, n)
  BY <1>1 DEF From
<1>3. SubSeq(ls, 1, n) = [i \in 1..n |-> ls[i]]
  BY <1>1
<1> QED BY <1>1, <1>2, <1>3

LEMMA IrcInitInv ==
    ASSUME IrcInit
    PROVE  IrcInv
<1>1. /\ WorldOK /\ block = 0 /\ text = << >> /\ zeros = 0 /\ size = BufferSize /\ place = "select"
      /\ net = (CHOOSE n \in Network : TRUE)
      /\ line = << >> /\ m = 1 /\ data = NoData /\ room = Slots
      /\ handled = [n \in Network |-> << >>] /\ shost = [n \in Network |-> {}]
      /\ owner = {} /\ fresh = FALSE /\ broken = {}
  BY DEF IrcInit, WorldOK
<1>2. wire = [n \in Network |-> Lines(world.lines[n])]
  BY DEF IrcInit, Lines
<1>3. ASSUME NEW n \in Network PROVE Lines(world.lines[n]) \in Seq(Byte)
  BY <1>1, WorldFacts, LinesType
<1>4. BufferSize \in Nat \ {0}
  <2>1. BufferSize \in Nat /\ BufferSize > 1
    BY IrcInputAssumption
  <2> QED BY <2>1
<1>5. Network # {} => net \in Network
  BY <1>1
<1>6. ParserInv
  BY <1>1, NoDataIs, Room, EmptySeq DEF ParserInv, ParserTypes, WordsFit
<1>7. BufferTypes /\ BufferInv
  BY <1>1, <1>4, EmptySeq DEF BufferTypes, BufferInv
<1>8. StreamInv
  <2> SUFFICES ASSUME NEW n \in Network PROVE StreamOf(n)
    BY DEF StreamInv
  <2>1. PICK L \in Seq(Seq(Char)) : L = world.lines[n]
    BY <1>1, WorldFacts
  <2>2. handled[n] = << >> /\ Len(handled[n]) = 0
    BY <1>1, EmptySeq
  <2>3. From(L, 0) = L
    BY FromTheStart
  <2>4. IsPrefix(handled[n], L)
    <3>1. SubSeq(<< >>, 1, 0) = << >> /\ SubSeq(L, 1, 0) = << >> /\ 0 <= Len(L)
      BY SubSeqEmpty
    <3> QED BY <2>2, <3>1 DEF IsPrefix
  <2>5. Waiting(n) = << >>
    BY <1>1 DEF Waiting
  <2>6. Lines(L) \in Seq(Byte) /\ wire[n] = Lines(L)
    BY <1>2, <1>3, <2>1
  <2>7. << >> \o Lines(L) = Lines(L)
    BY <2>6, ConcatEmptySeq
  <2> QED BY <1>1, <2>1, <2>2, <2>3, <2>4, <2>5, <2>6, <2>7 DEF StreamOf
<1>9. StreamTypes
  <2>1. wire \in [Network -> Seq(Byte)] /\ handled \in [Network -> Seq(Seq(Byte))]
        /\ shost \in [Network -> SUBSET Seq(Byte)]
    BY <1>1, <1>2, <1>3, EmptySeq
  <2>2. Network # {}
    BY IrcInputAssumption
  <2> QED BY <1>1, <1>5, <2>1, <2>2 DEF StreamTypes
<1> QED BY <1>6, <1>7, <1>8, <1>9 DEF IrcInv, ReadInv

LEMMA IrcNextInv ==
    ASSUME IrcInv, [IrcNext]_ircVars
    PROVE  IrcInv'
<1> USE DEF IrcInv
<1>1. ASSUME NEW n \in Network, RecvNothing(n) PROVE IrcInv'
  <2>1. ParserInv'
    BY <1>1, ReadsFit DEF RecvNothing, parser, ParserInv, ParserTypes
  <2> QED BY <1>1, <2>1, RecvNothingKeeps
<1>2. ASSUME NEW n \in Network, NEW k, RecvNew(n, k) \/ RecvMore(n, k) PROVE IrcInv'
  <2>1. ParserInv'
    BY <1>2, ReadsFit DEF RecvNew, RecvMore, Reads, parser, ParserInv, ParserTypes
  <2>2. CASE RecvNew(n, k)
    BY <2>1, <2>2, RecvNewKeeps
  <2>3. CASE RecvMore(n, k)
    BY <2>1, <2>3, RecvMoreKeeps
  <2> QED BY <1>2, <2>2, <2>3
<1>3. CASE TakeLine
  <2>1. /\ UNCHANGED <<m, data, room>> /\ line' \in Seq(Byte)
        /\ place = "lines" /\ place' = "prefix"
    BY <1>3, TakeLineDoes DEF ReadInv
  <2>2. ParserInv'
    BY <2>1, ReadsFit
  <2> QED BY <1>3, <2>2, TakeLineKeeps
<1>4. CASE NoLine
  <2>1. ParserInv'
    BY <1>4, ReadsFit DEF NoLine, parser, ParserInv, ParserTypes
  <2> QED BY <1>4, <2>1, NoLineKeeps
<1>5. CASE ParsePrefix
  BY <1>5, ParsePrefixFits, ParsingKeeps
<1>6. CASE ParseCommand
  BY <1>6, ParseCommandFits, ParsingKeeps
<1>7. CASE Param
  BY <1>7, ParamFits, ParsingKeeps
<1>8. CASE ParamsEnd
  BY <1>8, ParamsEndFits, ParsingKeeps
<1>9. CASE RestWord
  BY <1>9, RestWordFits, ParsingKeeps
<1>10. CASE RestEnd \/ PingFails
  BY <1>10, ParsingEndsFit, ParsingKeeps
<1>11. CASE RunTriggers
  BY <1>11, RunTriggersFits, RunTriggersKeeps DEF ParserInv
<1>12. CASE UNCHANGED ircVars
  <2>1. UNCHANGED <<world, wire, block, text, zeros, size, place, net, line, m, data, room, shost,
                    handled, owner, fresh, broken>>
    BY <1>12 DEF ircVars, buffer, parser, history
  <2>2. StreamTypes' /\ BufferTypes' /\ BufferInv'
    BY <2>1 DEF ReadInv, StreamTypes, WorldOK, BufferTypes, BufferInv
  <2>3. StreamInv'
    BY <2>1 DEF ReadInv, StreamInv, StreamOf, Proper, Waiting, Lines, From
  <2>4. ParserInv'
    BY <2>1 DEF ParserInv, ParserTypes, WordsFit, Ended, Colon, At
  <2> QED BY <2>2, <2>3, <2>4 DEF ReadInv
<1> QED BY <1>1, <1>2, <1>3, <1>4, <1>5, <1>6, <1>7, <1>8, <1>9, <1>10, <1>11, <1>12
        DEF IrcNext, ReadLine, ParseLine

LEMMA IrcInvAlways == IrcSpec => []IrcInv
<1>1. IrcInit => IrcInv
  BY IrcInitInv
<1>2. IrcInv /\ [IrcNext]_ircVars => IrcInv'
  BY IrcNextInv
<1> QED BY <1>1, <1>2, PTL DEF IrcSpec

\* The strings, words and positions stay of their types: a string ends within its block and the words
\* of a line, however many there are, fit their array with the NULL behind them (irc_in, tcrealloc0,
\* tsrealloc0 and the loops of parse_irc_line).
THEOREM InputOKHolds == IrcSpec => []InputOK
<1>1. IrcInv => InputOK
  BY InputOKParts DEF IrcInv, ReadInv, ParserInv
<1> QED BY <1>1, IrcInvAlways, PTL

LEMMA LinesAreInOrder == IrcInv => LinesInOrder
<1> SUFFICES ASSUME IrcInv, NEW n \in Network, n \notin broken, << >> \notin ToSet(world.lines[n])
             PROVE  /\ IsPrefix(handled[n], world.lines[n])
                    /\ place \notin {"select", "lines"} /\ net = n =>
                          IsPrefix(Append(handled[n], line), world.lines[n])
                    /\ place = "select" =>
                          /\ Unseen(n) = (IF owner = {n} THEN text ELSE << >>) \o wire[n]
                          /\ owner = {n} => LF \notin ToSet(text)
  BY DEF LinesInOrder
<1>1. StreamOf(n) /\ StreamTypes /\ BufferInv
  BY DEF IrcInv, ReadInv, StreamInv, Proper
<1>2. IsPrefix(handled[n], world.lines[n])
  BY <1>1 DEF StreamOf
<1>3. ASSUME place \notin {"select", "lines"}, net = n
      PROVE  IsPrefix(Append(handled[n], line), world.lines[n])
  <2>1. PICK L \in Seq(Seq(Byte)), s \in Seq(Seq(Byte)) : L = world.lines[n] /\ s = handled[n]
    <3>1. world.lines[n] \in Seq(Seq(Byte)) /\ handled[n] \in Seq(Seq(Byte))
      BY <1>1, WorldFacts DEF StreamTypes, IsListOver
    <3> QED BY <3>1
  <2>2. IsPrefix(s, L) /\ Len(s) < Len(L) /\ line = L[Len(s) + 1]
    BY <1>1, <1>3, <2>1 DEF StreamOf
  <2>3. IsPrefix(Append(s, line), L)
    BY <2>2, PrefixGrows
  <2> QED BY <2>1, <2>3
<1>4. ASSUME place = "select"
      PROVE  Unseen(n) = (IF owner = {n} THEN text ELSE << >>) \o wire[n]
  <2>1. Lines(From(world.lines[n], Len(handled[n]))) = Waiting(n) \o wire[n]
    BY <1>1, <1>4 DEF StreamOf
  <2> QED BY <2>1 DEF Unseen, From, Waiting
<1>5. place = "select" /\ owner = {n} => LF \notin ToSet(text)
  BY <1>1 DEF BufferInv
<1> QED BY <1>2, <1>3, <1>4, <1>5

\* However the bytes are cut into reads and however the calls for several networks interleave, the
\* lines of a network reach the triggers whole, in order and once each, and between two calls of irc_in
\* what was read and not handled is the begun line in the buffer (irc_in).
THEOREM LinesComeInOrder == IrcSpec => []LinesInOrder
BY LinesAreInOrder, IrcInvAlways, PTL

LEMMA FragmentIsKept ==
    ASSUME IrcInv, IrcNext, place = "select", place' = "lines", block # 0, ~fresh
    PROVE  text' = text \o Received(net', Len(wire[net']) - Len(wire'[net']))
<1> USE DEF IrcInv, ReadInv
<1>0. PICK n \in Network : \E k \in 1..Len(wire[n]) : RecvMore(n, k)
  BY DEF IrcNext, ReadLine, ParseLine, RecvNothing, RecvNew, TakeLine, NoLine, ParsePrefix, ParseCommand,
         Param, ParamsEnd, RestWord, RestEnd, PingFails, RunTriggers
<1>1. PICK k \in 1..Len(wire[n]) : RecvMore(n, k)
  BY <1>0
<1>2. Reads(n, k) /\ net' = n
  BY <1>1 DEF RecvMore, Reads
<1>3. /\ k \in Nat /\ k > 0 /\ k < BufferSize /\ BufferSize \in Nat
      /\ Received(n, k) \in Seq(Byte) /\ Len(Received(n, k)) = k
      /\ Len(wire[n]) - Len(wire'[n]) = k
  BY <1>2, ReadsCut
<1>4. PICK kept \in Seq(Byte), tail \in {<< >>, <<Junk>>} :
          text' = (kept \o Received(n, k)) \o tail /\ kept = text /\ tail = << >>
  BY <1>1, <1>3, RecvMoreDoes
<1>5. text \o Received(n, k) \in Seq(Byte)
  BY <1>3, <1>4, ConcatProperties
<1>6. text' = text \o Received(n, k)
  BY <1>4, <1>5, ConcatEmptySeq
<1> QED BY <1>2, <1>3, <1>6

\* Once a line has been taken from the buffer, the static size is right, and tcrealloc0 keeps the whole
\* begun line: what is read next is behind it (util.c tcrealloc0, called by irc_in).
THEOREM FragmentsStay == IrcSpec => FragmentsAreKept
<1>1. IrcInv /\ [IrcNext]_ircVars =>
          [place = "select" /\ place' = "lines" /\ block # 0 /\ ~fresh =>
             text' = text \o Received(net', Len(wire[net']) - Len(wire'[net']))]_ircVars
  BY FragmentIsKept
<1> QED BY <1>1, IrcInvAlways, PTL DEF IrcSpec, FragmentsAreKept

-----------------------------------------------------------------------------
\* What parse_irc_line has found so far in a tidy line, and where it is. The head is what is before the
\* trailing text and its " :".
HeadEnd(l) == IF HasText(l) THEN TextAt(l) - 2 ELSE Len(l)
InFront(w) == <<" ">> \o w
HeadRead(l, d, e) == SubSeq(l, 1, e) = (PrefixText(d.prefix) \o d.command) \o Spaced(d.params)
ProperWords(words) == \A i \in DOMAIN words : words[i] # << >> /\ " " \notin ToSet(words[i])

CommandNext(l, d, p) ==
    /\ d.params = << >> /\ d.rest = << >> /\ d.reststr = << >>
    /\ SubSeq(l, 1, p - 1) = PrefixText(d.prefix)
    /\ p <= HeadEnd(l) /\ (HasText(l) \/ \E i \in p..HeadEnd(l) : l[i] = " ")
ParamNext(l, d, p) ==
    /\ d.rest = << >> /\ d.reststr = << >>
    /\ HeadRead(l, d, p - 2) /\ ProperWords(d.params)
    /\ \/ p - 1 \in 1..HeadEnd(l) /\ l[p - 1] = " "
       \/ p = HeadEnd(l) + 2
RestNext(l, d, p) ==
    /\ HasText(l) /\ d.reststr = SubSeq(l, HeadEnd(l) + 3, Len(l))
    /\ HeadRead(l, d, HeadEnd(l)) /\ ProperWords(d.params)
    /\ \/ d.rest = << >> /\ p = HeadEnd(l) + 3
       \/ /\ d.rest # << >> /\ p \in (HeadEnd(l) + 4)..(Len(l) + 2) /\ (p - 1 > Len(l) \/ l[p - 1] = " ")
          /\ InFront(SubSeq(l, HeadEnd(l) + 3, p - 2)) = Spaced(d.rest)
AllParsed(l, d) ==
    /\ l = ((PrefixText(d.prefix) \o d.command) \o Spaced(d.params))
              \o (IF HasText(l) THEN <<" ", ":">> \o d.reststr ELSE << >>)
    /\ ProperWords(d.params)
    /\ InFront(d.reststr) \in {Spaced(d.rest), Spaced(d.rest) \o <<" ">>, <<" ">>}
    /\ HasText(l) => d.rest # << >>

\* The inductive invariant: a line that is not begun has nothing found in it, and what was found in a
\* tidy line is the line up to the place that is looked at next.
TidyInv ==
    /\ place \in {"select", "lines", "prefix"} => m = 1 /\ data = NoData
    /\ Tidy(line) =>
         /\ place = "command" => CommandNext(line, data, m)
         /\ place = "params" => ParamNext(line, data, m)
         /\ place = "rest" => RestNext(line, data, m)
         /\ place = "dispatch" => AllParsed(line, data)
         /\ place = "fault" => data.command = Ping /\ ~HasText(line)

\* The head of a line: where it ends, and what is there.
LEMMA ColonIs ==
    ASSUME LineOK, NEW i \in Int
    PROVE  Colon(i) <=> i - 1 \in 1..Len(line) /\ i \in 1..Len(line) /\ line[i] = ":" /\ line[i - 1] = " "
<1>1. PICK j \in Int : j = i - 1
  OBVIOUS
<1>2. /\ At(i) = NUL <=> i \notin 1..Len(line)
      /\ i \in 1..Len(line) => At(i) = line[i]
  BY AtIs
<1>3. /\ At(j) = NUL <=> j \notin 1..Len(line)
      /\ j \in 1..Len(line) => At(j) = line[j]
  BY AtIs
<1>4. NUL # ":" /\ NUL # " "
  BY DEF NUL
<1> QED BY <1>1, <1>2, <1>3, <1>4 DEF Colon

LEMMA HeadIs ==
    ASSUME LineOK, NEW l \in Nat, l = Len(line)
    PROVE  \E e \in -1..l :
             /\ e = HeadEnd(line)
             /\ \A i \in 1..(e + 1) : ~Colon(i)
             /\ IF HasText(line) THEN /\ e + 2 <= l /\ e >= 0 /\ line[e + 1] = " " /\ line[e + 2] = ":"
                                      /\ TextAt(line) = e + 2
                ELSE e = l
<1> DEFINE Behind(i) == line[i] = ":" /\ line[i - 1] = " "
<1> HIDE DEF Behind
<1> DEFINE J == {i \in 1..(l + 1) : i > l \/ (i > 1 /\ Behind(i))}
           P(i) == (i > l \/ (i > 1 /\ Behind(i))) /\ \A j \in 2..(i - 1) : ~Behind(j)
<1>1. PICK i \in 1..(l + 1) : i \in J /\ \A j \in 1..(i - 1) : j \notin J
  <2>1. J \in SUBSET (1..(l + 1)) /\ l + 1 \in J /\ l + 1 \in Nat /\ 1 \in Nat
    OBVIOUS
  <2> HIDE DEF J
  <2> QED BY <2>1, LeastIn, ZenonT(30)
<1>2. P(i)
  <2>1. \A j \in 2..(i - 1) : j \in 1..(i - 1) /\ j \in 1..(l + 1) /\ j > 1
    OBVIOUS
  <2> QED BY <1>1, <2>1
<1>3. PICK t \in 1..(l + 1) : t = TextAt(line) /\ P(t)
  <2>1. TextAt(line) = CHOOSE x \in 1..(l + 1) : P(x)
    BY DEF TextAt, Behind
  <2> HIDE DEF P
  <2> QED BY <1>2, <2>1
<1>4. HasText(line) <=> t <= l
  BY <1>3 DEF HasText
<1>5. PICK e \in Int : e = HeadEnd(line) /\ e = IF t <= l THEN t - 2 ELSE l
  <2>1. HeadEnd(line) = IF t <= l THEN t - 2 ELSE l
    BY <1>3, <1>4 DEF HeadEnd
  <2>2. (IF t <= l THEN t - 2 ELSE l) \in Int
    OBVIOUS
  <2> QED BY <2>1, <2>2
<1>6. ASSUME NEW j \in 1..(e + 1), Colon(j) PROVE FALSE
  <2>0. j \in Int
    OBVIOUS
  <2>1. j - 1 \in 1..l /\ j \in 1..l /\ Behind(j)
    BY <1>6, <2>0, ColonIs DEF Behind
  <2>2. j \in 2..(t - 1)
    BY <1>5, <2>1
  <2> QED BY <1>3, <2>1, <2>2
<1>7. CASE t <= l
  <2>1. t > 1 /\ Behind(t)
    BY <1>3, <1>7
  <2>2. e = t - 2 /\ e + 1 = t - 1 /\ e + 2 = t /\ e \in -1..l /\ e >= 0
    BY <1>5, <1>7, <2>1
  <2>3. line[e + 2] = ":" /\ line[e + 1] = " "
    BY <2>1, <2>2 DEF Behind
  <2> QED BY <1>3, <1>4, <1>5, <1>6, <1>7, <2>2, <2>3
<1>8. CASE ~(t <= l)
  <2>1. e = l /\ e \in -1..l
    BY <1>5, <1>8
  <2> QED BY <1>4, <1>5, <1>6, <1>8, <2>1
<1> QED BY <1>7, <1>8

\* The head of a tidy line ends at e: no space begins or ends it, and none follows another.
Space(i) == line[i] = " "
HeadShape(e, l) ==
    /\ e = HeadEnd(line) /\ e \in 1..l /\ l = Len(line)
    /\ \A i \in 1..e : Space(i) => 1 < i /\ i < e /\ ~Space(i + 1)
    /\ \A i \in 1..(e + 1) : ~Colon(i)
    /\ HasText(line) => e + 2 < l /\ Space(e + 1) /\ line[e + 2] = ":"
    /\ ~HasText(line) => e = l

LEMMA HeadElements ==
    ASSUME LineOK, NEW e \in Int, e = HeadEnd(line)
    PROVE  /\ Head1(line) \in Seq(Byte)
           /\ Head1(line) = << >> <=> e < 1
           /\ Spaces(Head1(line)) = {i \in 1..e : Space(i)}
           /\ e >= 0 => Len(Head1(line)) = e
           /\ \A i \in 1..e : Head1(line)[i] = line[i]
<1>1. PICK l \in Nat : l = Len(line)
  BY LineFacts
<1>2. /\ e \in -1..l
      /\ HasText(line) => TextAt(line) = e + 2 /\ e >= 0
      /\ ~HasText(line) => e = l
  BY <1>1, HeadIs
<1>3. PICK h : h = Head1(line)
  OBVIOUS
<1>4. h = SubSeq(line, 1, e)
  <2>1. CASE HasText(line)
    <3>1. PICK t \in Int : t = TextAt(line) /\ t = e + 2
      BY <1>2, <2>1
    <3>2. t - 2 = e
      BY <3>1
    <3> QED BY <1>3, <2>1, <3>1, <3>2 DEF Head1
  <2>2. CASE ~HasText(line)
    <3>1. SubSeq(line, 1, Len(line)) = line
      BY SubSeqFull DEF LineOK
    <3> QED BY <1>1, <1>2, <1>3, <2>2, <3>1 DEF Head1
  <2> QED BY <2>1, <2>2
<1>5. \A i \in 1..e : line[i] \in Byte
  BY <1>1, <1>2 DEF LineOK
<1>6. /\ h \in Seq(Byte) /\ Len(h) = IF 1 <= e THEN e - 1 + 1 ELSE 0
      /\ \A i \in 1..(e - 1 + 1) : h[i] = line[1 + i - 1]
  BY <1>4, <1>5, SubSeqProperties
<1>7. PICK k \in Nat : k = Len(h) /\ (e < 1 => k = 0) /\ (e >= 0 => k = e)
  <2>1. (e < 1 => (IF 1 <= e THEN e - 1 + 1 ELSE 0) = 0) /\ (e >= 0 => (IF 1 <= e THEN e - 1 + 1 ELSE 0) = e)
    OBVIOUS
  <2>2. Len(h) \in Nat
    BY <1>6, LenProperties
  <2> QED BY <1>6, <2>1, <2>2
<1>8. ASSUME NEW i \in 1..e PROVE h[i] = line[i]
  <2>1. i \in 1..(e - 1 + 1) /\ 1 + i - 1 = i
    OBVIOUS
  <2> QED BY <1>6, <2>1
<1>9. h = << >> <=> e < 1
  <2>1. h = << >> <=> Len(h) = 0
    BY <1>6, EmptySeq
  <2>2. e < 1 <=> k = 0
    BY <1>7
  <2> QED BY <1>7, <2>1, <2>2
<1>10. Spaces(h) = {i \in 1..e : Space(i)}
  <2>1. DOMAIN h = 1..k
    BY <1>6, <1>7, LenProperties
  <2>2. 1..k = 1..e
    <3>1. e \in Int /\ (e < 1 => e < 1 /\ k = 0) /\ (~(e < 1) => k = e)
      BY <1>7
    <3> QED BY <3>1
  <2> QED BY <1>8, <2>1, <2>2 DEF Spaces, Space
<1> QED BY <1>3, <1>6, <1>7, <1>8, <1>9, <1>10

LEMMA TidyShape ==
    ASSUME LineOK, Tidy(line), NEW l \in Nat, l = Len(line)
    PROVE  \E e \in 1..l : HeadShape(e, l)
<1>1. PICK e \in -1..l :
             /\ e = HeadEnd(line)
             /\ \A i \in 1..(e + 1) : ~Colon(i)
             /\ HasText(line) => /\ e + 2 <= l /\ e >= 0 /\ line[e + 1] = " " /\ line[e + 2] = ":"
                                 /\ TextAt(line) = e + 2
             /\ ~HasText(line) => e = l
  BY HeadIs
<1>2. PICK h, sp : h = Head1(line) /\ sp = Spaces(h)
  OBVIOUS
<1>3. /\ h # << >> /\ \A i \in sp : 1 < i /\ i < Len(h) /\ h[i + 1] # " "
      /\ HasText(line) => TextAt(line) < Len(line)
  BY <1>2 DEF Tidy
<1>4. /\ h = << >> <=> e < 1
      /\ sp = {i \in 1..e : Space(i)}
      /\ e >= 0 => Len(h) = e
      /\ \A i \in 1..e : h[i] = line[i]
  <2>1. e \in Int
    OBVIOUS
  <2> QED BY <1>1, <1>2, <2>1, HeadElements, ZenonT(30)
<1>5. e \in 1..l
  <2>1. ~(e < 1)
    BY <1>3, <1>4, Zenon
  <2> QED BY <2>1
<1>6. ASSUME NEW i \in 1..e, Space(i) PROVE 1 < i /\ i < e /\ ~Space(i + 1)
  <2>0. Len(h) = e
    BY <1>4, <1>5
  <2>1. 1 < i /\ i < e /\ h[i + 1] # " "
    BY <1>3, <1>4, <1>6, <2>0
  <2>2. i + 1 \in 1..e
    <3>1. i < e
      BY <2>1
    <3> QED BY <3>1
  <2> QED BY <1>4, <2>1, <2>2 DEF Space
<1>7. HasText(line) => e + 2 < l
  BY <1>1, <1>3
<1>8. HeadShape(e, l)
  BY <1>1, <1>5, <1>6, <1>7 DEF HeadShape, Space
<1> QED BY <1>5, <1>8

LEMMA SamePiece ==
    ASSUME NEW s, NEW t, NEW a \in Int, NEW b \in Int, \A i \in a..b : s[i] = t[i]
    PROVE  SubSeq(s, a, b) = SubSeq(t, a, b)
<1>1. PICK S : S = {s[i] : i \in a..b}
  OBVIOUS
<1>2. \A i \in a..b : s[i] \in S /\ t[i] \in S
  BY <1>1
<1>3. /\ SubSeq(s, a, b) \in Seq(S) /\ Len(SubSeq(s, a, b)) = (IF a <= b THEN b - a + 1 ELSE 0)
      /\ \A i \in 1..(b - a + 1) : SubSeq(s, a, b)[i] = s[a + i - 1]
  BY <1>2, SubSeqProperties
<1>4. /\ SubSeq(t, a, b) \in Seq(S) /\ Len(SubSeq(t, a, b)) = (IF a <= b THEN b - a + 1 ELSE 0)
      /\ \A i \in 1..(b - a + 1) : SubSeq(t, a, b)[i] = t[a + i - 1]
  BY <1>2, SubSeqProperties
<1>5. PICK n \in Nat : n = IF a <= b THEN b - a + 1 ELSE 0
  OBVIOUS
<1>6. ASSUME NEW i \in 1..n PROVE SubSeq(s, a, b)[i] = SubSeq(t, a, b)[i]
  <2>1. i \in 1..(b - a + 1) /\ a + i - 1 \in a..b
    BY <1>5
  <2> QED BY <1>3, <1>4, <2>1
<1> QED BY <1>3, <1>4, <1>5, <1>6, SeqEqual

\* A space ends the command and, in front of it, the prefix.
LEMMA HeadSpaces ==
    ASSUME LineOK, Tidy(line), NEW l \in Nat, NEW e \in 1..l, HeadShape(e, l)
    PROVE  /\ line[1] # ":" => HasText(line) \/ \E i \in 1..e : Space(i)
           /\ line[1] = ":" =>
                 \E p \in 1..e :
                     /\ p > 2 /\ p < e /\ Space(p) /\ \A i \in 1..(p - 1) : ~Space(i)
                     /\ ~Hopeless(SubSeq(line, 2, p - 1))
                     /\ HasText(line) \/ \E i \in (p + 1)..e : Space(i)
<1>1. PICK h, sp, c : h = Head1(line) /\ sp = Spaces(h) /\ c = Cardinality(sp)
  OBVIOUS
<1>2. /\ h \in Seq(Byte) /\ h # << >> /\ Len(h) = e
      /\ sp = {i \in 1..e : Space(i)}
      /\ \A i \in 1..e : h[i] = line[i]
  <2>1. e \in Int /\ e = HeadEnd(line) /\ ~(e < 1) /\ e >= 0
    BY DEF HeadShape
  <2>2. /\ h \in Seq(Byte) /\ (h = << >> <=> e < 1)
        /\ sp = {i \in 1..e : Space(i)}
        /\ e >= 0 => Len(h) = e
        /\ \A i \in 1..e : h[i] = line[i]
    BY <1>1, <2>1, HeadElements, ZenonT(30)
  <2> QED BY <2>1, <2>2, Zenon
<1>3. c \in Nat /\ (sp = {} <=> c = 0) /\ (c = 1 <=> \E x : sp = {x})
  <2>1. IsFiniteSet(1..e)
    <3>1. 1 \in Int /\ e \in Int
      OBVIOUS
    <3> QED BY <3>1, FS_Interval
  <2>2. sp \in SUBSET (1..e)
    BY <1>2
  <2>3. IsFiniteSet(sp)
    BY <2>1, <2>2, FS_Subset
  <2> QED BY <1>1, <2>3, FS_CardinalityType, FS_EmptySet, FS_Singleton
<1>4. h[1] = line[1] /\ 1 \in 1..e
  BY <1>2
<1>5. CASE line[1] # ":"
  <2>1. c + 1 > 1 \/ (c + 1 = 1 /\ HasText(line))
    BY <1>1, <1>2, <1>4, <1>5 DEF Tidy
  <2>2. c # 0 \/ HasText(line)
    BY <1>3, <2>1
  <2>3. c # 0 => \E i \in 1..e : Space(i)
    BY <1>2, <1>3, Zenon
  <2> QED BY <1>5, <2>2, <2>3
<1>6. CASE line[1] = ":"
  <2>1. /\ c + 0 > 1 \/ (c + 0 = 1 /\ HasText(line))
        /\ h[2] # " "
        /\ ~Hopeless(SubSeq(h, 2, (CHOOSE i \in sp : \A j \in sp : i <= j) - 1))
    BY <1>1, <1>2, <1>4, <1>6 DEF Tidy
  <2>2. c # 0 /\ (c # 1 \/ HasText(line))
    <3>1. c + 0 = c
      BY <1>3
    <3>2. c > 1 \/ (c = 1 /\ HasText(line))
      BY <2>1, <3>1, Zenon
    <3>3. c > 1 => c # 0 /\ c # 1
      BY <1>3
    <3> QED BY <3>2, <3>3
  <2>3. \E p \in sp : \A j \in sp : p <= j
    <3>1. sp \in SUBSET Nat
      BY <1>2
    <3>2. sp # {}
      BY <1>3, <2>2, Zenon
    <3> QED BY <3>1, <3>2, Lists!LeastNat
  <2>4. PICK p \in sp : p = (CHOOSE i \in sp : \A j \in sp : i <= j) /\ \A j \in sp : p <= j
    BY <2>3
  <2>5. p \in 1..e /\ Space(p)
    BY <1>2
  <2>6. 1 < p /\ p < e
    BY <2>5 DEF HeadShape
  <2>7. ASSUME NEW i \in 1..(p - 1) PROVE ~Space(i)
    <3>1. i \in 1..e /\ ~(p <= i)
      BY <2>5
    <3>2. i \notin sp
      BY <2>4, <3>1
    <3> QED BY <1>2, <3>1, <3>2, Zenon
  <2>8. p > 2
    <3> SUFFICES ASSUME p = 2 PROVE FALSE
      BY <2>5, <2>6
    <3>1. 2 \in 1..e /\ h[2] = line[2]
      BY <1>2, <2>5
    <3> QED BY <2>1, <2>5, <3>1 DEF Space
  <2>9. SubSeq(h, 2, p - 1) = SubSeq(line, 2, p - 1)
    <3>1. p - 1 \in Int /\ \A i \in 2..(p - 1) : i \in 1..e
      BY <2>5
    <3>2. \A i \in 2..(p - 1) : h[i] = line[i]
      BY <1>2, <3>1
    <3> QED BY <3>1, <3>2, SamePiece
  <2>10. HasText(line) \/ \E i \in (p + 1)..e : Space(i)
    <3> SUFFICES ASSUME ~HasText(line) PROVE \E i \in (p + 1)..e : Space(i)
      OBVIOUS
    <3>1. sp # {p}
      BY <1>3, <2>2
    <3>2. PICK i \in sp : i # p
      BY <3>1, Zenon
    <3>3. p <= i /\ i \in 1..e /\ Space(i)
      BY <1>2, <2>4
    <3>4. i \in (p + 1)..e
      BY <2>5, <3>2, <3>3
    <3> QED BY <3>3, <3>4
  <2>11. ~Hopeless(SubSeq(line, 2, p - 1))
    BY <2>1, <2>4, <2>9
  <2> QED BY <1>6, <2>5, <2>6, <2>7, <2>8, <2>10, <2>11
<1> QED BY <1>5, <1>6

\* Putting pieces together.
LEMMA Marks == {":", "!", "@", " "} \subseteq Byte
BY IrcInputAssumption DEF Byte

LEMMA CutAround ==
    ASSUME NEW s \in Seq(Byte), NEW a \in 1..(Len(s) + 1), NEW i \in a..Len(s), NEW n \in i..Len(s)
    PROVE  /\ SubSeq(s, a, n) = (SubSeq(s, a, i - 1) \o <<s[i]>>) \o SubSeq(s, i + 1, n)
           /\ SubSeq(s, a, i - 1) \in Seq(Byte) /\ <<s[i]>> \in Seq(Byte) /\ SubSeq(s, i + 1, n) \in Seq(Byte)
<1>0. PICK l \in Nat : l = Len(s)
  OBVIOUS
<1>1. a \in Int /\ i - 1 \in Int /\ 1 <= a /\ i - 1 <= l /\ i + 1 \in Int /\ 1 <= i + 1 /\ n \in Int /\ n <= l
  BY <1>0
<1>2. SubSeq(s, a, i - 1) \in Seq(Byte) /\ SubSeq(s, i + 1, n) \in Seq(Byte)
  BY <1>0, <1>1, Piece
<1>3. s[i] \in Byte /\ <<s[i]>> \in Seq(Byte)
  <2>1. i \in 1..l
    BY <1>0
  <2>2. s[i] \in Byte
    BY <1>0, <2>1
  <2> QED BY <2>2
<1>4. SubSeq(s, a, n) = SubSeq(s, a, i - 1) \o SubSeq(s, i, n)
  <2>1. i - 1 \in (a - 1)..l /\ n \in (i - 1)..l /\ (i - 1) + 1 = i
    BY <1>0
  <2> QED BY <1>0, <2>1, ConcatAdjacentSubSeq
<1>5. SubSeq(s, i, n) = <<s[i]>> \o SubSeq(s, i + 1, n)
  <2>1. i \in 1..l /\ n \in i..l
    BY <1>0
  <2> QED BY <1>0, <2>1, SubSeqRecursiveFirst
<1> QED BY <1>2, <1>3, <1>4, <1>5, ConcatenationIsAssociative

\* Kept folded where only the order matters.
Cat(a, b) == a \o b

LEMMA BytesTogether == \A u, v, w \in Seq(Byte) : (u \o v) \o w = u \o (v \o w)
BY ConcatenationIsAssociative

LEMMA FourTogether ==
    \A p, u, c, h \in Seq(Byte) : Cat(Cat(Cat(p, u), c), h) = Cat(p, Cat(Cat(u, c), h))
<1> SUFFICES ASSUME NEW p \in Seq(Byte), NEW u \in Seq(Byte), NEW c \in Seq(Byte), NEW h \in Seq(Byte)
             PROVE  ((p \o u) \o c) \o h = p \o ((u \o c) \o h)
  BY DEF Cat
<1>1. PICK q \in Seq(Byte) : q = u \o c
  <2>1. u \o c \in Seq(Byte)
    BY ConcatProperties
  <2> QED BY <2>1
<1>2. (p \o u) \o c = p \o (u \o c)
  BY BytesTogether, Zenon
<1>3. (p \o q) \o h = p \o (q \o h)
  BY BytesTogether, Zenon
<1> QED BY <1>1, <1>2, <1>3, Zenon

\* A prefix is written as it was read.
PrefixOf(text1) == (<<":">> \o text1) \o <<" ">>

LEMMA PrefixIsText ==
    ASSUME NEW s \in Seq(Byte), ~Hopeless(s)
    PROVE  PrefixText(Prefix(s)) = PrefixOf(s)
<1>1. CASE "!" \in ToSet(s)
  <2>1. PICK bang \in 1..Len(s) : \E at \in bang..Len(s) :
            /\ s[bang] = "!" /\ s[at] = "@"
            /\ Prefix(s) = [nick |-> SubSeq(s, 1, bang - 1), user |-> SubSeq(s, bang + 1, at - 1),
                            host |-> SubSeq(s, at + 1, Len(s))]
    BY <1>1, PrefixIsCut
  <2>2. PICK at \in bang..Len(s) :
            /\ s[bang] = "!" /\ s[at] = "@"
            /\ Prefix(s) = [nick |-> SubSeq(s, 1, bang - 1), user |-> SubSeq(s, bang + 1, at - 1),
                            host |-> SubSeq(s, at + 1, Len(s))]
    BY <2>1
  <2>3. PICK l \in Nat : l = Len(s)
    OBVIOUS
  <2>4. at \in (bang + 1)..l
    <3>1. at # bang
      BY <2>2
    <3> QED BY <2>3, <3>1
  <2>5. PICK nick, user, host :
            nick = SubSeq(s, 1, bang - 1) /\ user = SubSeq(s, bang + 1, at - 1) /\ host = SubSeq(s, at + 1, l)
    OBVIOUS
  <2>6. /\ s = (nick \o <<"!">>) \o SubSeq(s, bang + 1, l)
        /\ nick \in Seq(Byte) /\ <<"!">> \in Seq(Byte)
    <3>1. 1 \in 1..(l + 1) /\ bang \in 1..l /\ l \in bang..l
      BY <2>3
    <3>2. SubSeq(s, 1, l) = s
      BY <2>3, SubSeqFull
    <3> QED BY <2>2, <2>3, <2>5, <3>1, <3>2, CutAround
  <2>7. /\ SubSeq(s, bang + 1, l) = (user \o <<"@">>) \o host
        /\ user \in Seq(Byte) /\ <<"@">> \in Seq(Byte) /\ host \in Seq(Byte)
    <3>1. bang + 1 \in 1..(l + 1) /\ at \in (bang + 1)..l /\ l \in at..l
      BY <2>3, <2>4
    <3> QED BY <2>2, <2>3, <2>5, <3>1, CutAround
  <2>8. s = (((nick \o <<"!">>) \o user) \o <<"@">>) \o host
    <3>1. nick \o <<"!">> \in Seq(Byte)
      BY <2>6, ConcatProperties
    <3>2. PICK v \in Seq(Byte), b \in Seq(Byte), c \in Seq(Byte) :
              v = nick \o <<"!">> /\ b = <<"@">> /\ c = SubSeq(s, bang + 1, l)
      <4>1. SubSeq(s, bang + 1, l) \in Seq(Byte)
        <5>1. user \o <<"@">> \in Seq(Byte)
          BY <2>7, ConcatProperties
        <5> QED BY <2>7, <5>1, ConcatProperties
      <4> QED BY <2>7, <3>1, <4>1
    <3>3. user \in Seq(Byte) /\ host \in Seq(Byte) /\ s = v \o c /\ c = (user \o b) \o host
      BY <2>6, <2>7, <3>2
    <3>4. ((v \o user) \o b) \o host = v \o ((user \o b) \o host)
      <4>1. user \in Seq(Byte) /\ host \in Seq(Byte)
        BY <3>3
      <4>2. Cat(Cat(Cat(v, user), b), host) = Cat(v, Cat(Cat(user, b), host))
        BY <4>1, FourTogether
      <4> QED BY <4>2 DEF Cat
    <3>5. s = ((v \o user) \o b) \o host
      BY <3>3, <3>4
    <3> QED BY <3>2, <3>5
  <2>9. PICK p : p = Prefix(s) /\ p = [nick |-> nick, user |-> user, host |-> host]
    BY <2>2, <2>3, <2>5
  <2>10. DOMAIN p = {"nick", "user", "host"} /\ p.nick = nick /\ p.user = user /\ p.host = host
    BY <2>9
  <2>11. p # << >> /\ "servername" \notin DOMAIN p /\ DOMAIN p # {"nick"}
    <3>1. DOMAIN << >> = {}
      OBVIOUS
    <3>2. "nick" \in DOMAIN p /\ "user" \in DOMAIN p /\ "servername" \notin DOMAIN p
      BY <2>10
    <3>3. "user" # "nick"
      OBVIOUS
    <3>4. "user" \notin {"nick"}
      BY <3>3
    <3> QED BY <3>1, <3>2, <3>4, Zenon
  <2>12. PrefixText(p) = (<<":">> \o ((((p.nick \o <<"!">>) \o p.user) \o <<"@">>) \o p.host)) \o <<" ">>
    BY <2>11 DEF PrefixText
  <2> QED BY <2>8, <2>9, <2>10, <2>12 DEF PrefixOf
<1>2. CASE "!" \notin ToSet(s)
  <2>1. CASE s = Nick
    <3>1. PICK p : p = Prefix(s) /\ p = [nick |-> s]
      BY <1>2, <2>1 DEF Prefix
    <3>2. DOMAIN p = {"nick"} /\ p.nick = s
      BY <3>1
    <3>3. p # << >> /\ "servername" \notin DOMAIN p
      <4>1. DOMAIN << >> = {}
        OBVIOUS
      <4> QED BY <3>2, <4>1
    <3>4. PrefixText(p) = (<<":">> \o p.nick) \o <<" ">>
      BY <3>2, <3>3 DEF PrefixText
    <3> QED BY <3>1, <3>2, <3>4 DEF PrefixOf
  <2>2. CASE s # Nick
    <3>1. PICK p : p = Prefix(s) /\ p = [servername |-> s]
      BY <1>2, <2>2 DEF Prefix
    <3>2. DOMAIN p = {"servername"} /\ p.servername = s
      BY <3>1
    <3>3. p # << >> /\ "servername" \in DOMAIN p
      <4>1. DOMAIN << >> = {}
        OBVIOUS
      <4> QED BY <3>2, <4>1
    <3>4. PrefixText(p) = (<<":">> \o p.servername) \o <<" ">>
      BY <3>3 DEF PrefixText
    <3> QED BY <3>1, <3>2, <3>4 DEF PrefixOf
  <2> QED BY <2>1, <2>2
<1> QED BY <1>1, <1>2

\* Words with their spaces.
LEMMA SpacedNone == Spaced(<< >>) = << >>
<1>1. [i \in DOMAIN << >> |-> <<" ">> \o << >>[i]] = << >>
  OBVIOUS
<1> QED BY <1>1, FlattenedNone DEF Spaced

LEMMA InFrontType == ASSUME NEW w \in Seq(Byte) PROVE InFront(w) \in Seq(Byte)
<1>1. <<" ">> \in Seq(Byte)
  <2>1. " " \in Byte
    BY Marks
  <2>2. \A c \in Byte : <<c>> \in Seq(Byte)
    OBVIOUS
  <2> QED BY <2>1, <2>2, Zenon
<1> QED BY <1>1, ConcatProperties DEF InFront

LEMMA SpacedList ==
    ASSUME NEW words, IsListOver(words, Byte)
    PROVE  [i \in DOMAIN words |-> InFront(words[i])] \in Seq(Seq(Byte))
<1>1. PICK n \in Nat : n = Len(words) /\ DOMAIN words = 1..n /\ \A i \in 1..n : words[i] \in Seq(Byte)
  BY DEF IsListOver
<1>2. \A i \in 1..n : InFront(words[i]) \in Seq(Byte)
  BY <1>1, InFrontType
<1>3. [i \in 1..n |-> InFront(words[i])] \in Seq(Seq(Byte))
  BY <1>2
<1> QED BY <1>1, <1>3

LEMMA SpacedType ==
    ASSUME NEW words, IsListOver(words, Byte)
    PROVE  Spaced(words) \in Seq(Byte)
<1>1. [i \in DOMAIN words |-> InFront(words[i])] \in Seq(Seq(Byte))
  BY SpacedList
<1>2. FlattenSeq([i \in DOMAIN words |-> InFront(words[i])]) \in Seq(Byte)
  BY <1>1, FlattenedType
<1> QED BY <1>2 DEF Spaced, InFront

LEMMA SpacedOneMore ==
    ASSUME NEW words, IsListOver(words, Byte), NEW w \in Seq(Byte)
    PROVE  Spaced(Append(words, w)) = Cat(Spaced(words), InFront(w))
<1>1. PICK n \in Nat : n = Len(words) /\ DOMAIN words = 1..n /\ \A i \in 1..n : words[i] \in Seq(Byte)
  BY DEF IsListOver
<1>2. PICK v : v = Append(words, w) /\ DOMAIN v = 1..(n + 1) /\ v[n + 1] = w /\ \A i \in 1..n : v[i] = words[i]
  <2>1. Append(words, w) \in Seq(Seq(Byte))
    BY AppendProperties DEF IsListOver
  <2>2. /\ Len(Append(words, w)) = Len(words) + 1
        /\ \A i \in 1..Len(words) : Append(words, w)[i] = words[i]
        /\ Append(words, w)[Len(words) + 1] = w
    BY AppendProperties DEF IsListOver
  <2>3. DOMAIN Append(words, w) = 1..(n + 1)
    <3>1. Len(Append(words, w)) = n + 1
      BY <1>1, <2>2
    <3>2. \A q \in Seq(Seq(Byte)) : DOMAIN q = 1..Len(q)
      BY LenProperties
    <3> QED BY <2>1, <3>1, <3>2, ZenonT(30)
  <2>4. Append(words, w)[n + 1] = w /\ \A i \in 1..n : Append(words, w)[i] = words[i]
    BY <1>1, <2>2, Zenon
  <2> QED BY <2>3, <2>4, Zenon
<1>3. PICK s \in Seq(Seq(Byte)) : s = [i \in 1..n |-> InFront(words[i])]
  BY <1>1, SpacedList
<1>4. InFront(w) \in Seq(Byte)
  BY InFrontType
<1>5. PICK t \in Seq(Seq(Byte)) : t = Append(s, InFront(w))
  <2>1. Append(s, InFront(w)) \in Seq(Seq(Byte))
    BY <1>4, AppendProperties
  <2> QED BY <2>1
<1>6. Len(s) = n /\ Len(t) = n + 1 /\ t[n + 1] = InFront(w) /\ \A i \in 1..n : t[i] = s[i]
  <2>1. Len(s) = n
    BY <1>3
  <2> QED BY <1>4, <1>5, <2>1, AppendProperties
<1>7. t = [i \in 1..(n + 1) |-> InFront(v[i])]
  <2>1. t = [i \in 1..(n + 1) |-> t[i]]
    BY <1>6, LenProperties
  <2>2. ASSUME NEW i \in 1..(n + 1) PROVE t[i] = InFront(v[i])
    <3>1. CASE i = n + 1
      BY <1>2, <1>6, <3>1
    <3>2. CASE i # n + 1
      <4>1. i \in 1..n
        BY <3>2
      <4> QED BY <1>2, <1>3, <1>6, <4>1
    <3> QED BY <3>1, <3>2
  <2> QED BY <2>1, <2>2
<1>8. FlattenSeq(t) = FlattenSeq(s) \o InFront(w)
  BY <1>4, <1>5, FlattenedAtTheEnd
<1>9. Spaced(words) = FlattenSeq(s)
  BY <1>1, <1>3 DEF Spaced, InFront
<1>10. Spaced(v) = FlattenSeq(t)
  BY <1>2, <1>7 DEF Spaced, InFront
<1> QED BY <1>2, <1>8, <1>9, <1>10 DEF Cat

LEMMA NextIs ==
    ASSUME LineOK, NEW from \in Nat, from >= 1, NEW p \in from..Len(line), Space(p),
           \A i \in from..(p - 1) : ~Space(i)
    PROVE  Found(" ", from) /\ Next1(" ", from) = p
<1>1. Found(" ", from)
  BY DEF Found, Space
<1>2. PICK n \in Nat : n = Next1(" ", from)
  BY <1>1, Next1Is DEF LineOK
<1>3. from <= n /\ Space(n) /\ \A j \in from..(n - 1) : ~Space(j)
  BY <1>1, <1>2, Next1Is DEF LineOK, Space
<1>4. p \in Nat /\ from <= p
  BY LineFacts
<1>5. ~(p < n)
  <2> SUFFICES ASSUME p < n PROVE FALSE
    OBVIOUS
  <2>1. p \in from..(n - 1)
    BY <1>4
  <2> QED BY <1>3, <2>1
<1>6. ~(n < p)
  <2> SUFFICES ASSUME n < p PROVE FALSE
    OBVIOUS
  <2>1. n \in from..(p - 1)
    BY <1>3, <1>4
  <2> QED BY <1>3, <2>1
<1>7. n = p
  BY <1>4, <1>5, <1>6
<1> QED BY <1>1, <1>2, <1>7

LEMMA NothingFound ==
    /\ NoData.params = << >> /\ NoData.rest = << >> /\ NoData.reststr = << >> /\ NoData.prefix = << >>
    /\ PrefixText(<< >>) = << >>
BY DEF NoData, PrefixText

LEMMA PrefixFinds ==
    ASSUME ParserTypes, TidyInv, Tidy(line), ParsePrefix
    PROVE  place' = "command" /\ CommandNext(line, data', m')
<1>1. place = "prefix" /\ m = 1 /\ data = NoData /\ LineOK
  BY DEF ParsePrefix, TidyInv, ParserTypes, LineOK
<1>2. PICK l \in Nat : l = Len(line)
  BY <1>1, LineFacts
<1>3. PICK e \in 1..l : HeadShape(e, l)
  BY <1>1, <1>2, TidyShape
<1>4. e = HeadEnd(line) /\ 1 \in 1..l /\ 1 <= e
  BY <1>3 DEF HeadShape
<1>5. At(1) = line[1]
  BY <1>1, <1>2, <1>4, AtIs
<1>6. CASE line[1] # ":"
  <2>1. place' = "command" /\ m' = 1 /\ data' = NoData
    BY <1>1, <1>5, <1>6 DEF ParsePrefix
  <2>2. SubSeq(line, 1, 1 - 1) = << >>
    <3>1. 1 \in Int /\ 1 - 1 \in Int /\ 1 - 1 < 1
      OBVIOUS
    <3> QED BY <3>1, SubSeqEmpty
  <2>3. HasText(line) \/ \E i \in 1..e : Space(i)
    BY <1>1, <1>2, <1>3, <1>6, HeadSpaces
  <2>4. HasText(line) \/ \E i \in 1..HeadEnd(line) : line[i] = " "
    BY <1>4, <2>3 DEF Space
  <2>5. CommandNext(line, NoData, 1)
    BY <1>4, <2>2, <2>4, NothingFound, Zenon DEF CommandNext
  <2> QED BY <2>1, <2>5
<1>7. CASE line[1] = ":"
  <2>1. PICK p \in 1..e :
                     /\ p > 2 /\ p < e /\ Space(p) /\ \A i \in 1..(p - 1) : ~Space(i)
                     /\ ~Hopeless(SubSeq(line, 2, p - 1))
                     /\ HasText(line) \/ \E i \in (p + 1)..e : Space(i)
    BY <1>1, <1>2, <1>3, <1>7, HeadSpaces
  <2>2. Found(" ", 1) /\ Next1(" ", 1) = p
    <3>1. 1 \in Nat /\ 1 >= 1 /\ p \in 1..Len(line)
      BY <1>2
    <3> QED BY <1>1, <2>1, <3>1, NextIs
  <2>3. PICK s : s = SubSeq(line, 2, p - 1)
    OBVIOUS
  <2>4. data' = [NoData EXCEPT !.prefix = Prefix(s)] /\ m' = p + 1 /\ place' = "command"
    BY <1>1, <1>5, <1>7, <2>1, <2>2, <2>3 DEF ParsePrefix
  <2>5. s \in Seq(Byte)
    <3>1. 2 \in Int /\ p - 1 \in Int /\ 1 <= 2 /\ p - 1 <= Len(line)
      BY <1>2
    <3> QED BY <1>1, <2>3, <3>1, LinePiece
  <2>6. SubSeq(line, 1, p) = PrefixOf(s)
    <3>1. 1 \in 1..l /\ p \in 1..l /\ p - 1 \in 1..l /\ 1 + 1 = 2 /\ p \in 1..l
      BY <2>1
    <3>2. SubSeq(line, 1, p) = SubSeq(line, 1, p - 1) \o <<line[p]>>
      BY <1>1, <1>2, <3>1, SubSeqRecursiveSecond DEF LineOK
    <3>3. SubSeq(line, 1, p - 1) = <<line[1]>> \o SubSeq(line, 1 + 1, p - 1)
      BY <1>1, <1>2, <3>1, SubSeqRecursiveFirst DEF LineOK
    <3> QED BY <1>7, <2>1, <2>3, <3>1, <3>2, <3>3 DEF PrefixOf, Space
  <2>7. /\ data'.params = << >> /\ data'.rest = << >> /\ data'.reststr = << >>
        /\ data'.prefix = Prefix(s)
    BY <2>4 DEF NoData
  <2>8. SubSeq(line, 1, m' - 1) = PrefixText(data'.prefix)
    <3>1. (p + 1) - 1 = p
      OBVIOUS
    <3>2. PrefixText(Prefix(s)) = PrefixOf(s)
      BY <2>1, <2>3, <2>5, PrefixIsText
    <3> QED BY <2>4, <2>6, <2>7, <3>1, <3>2, Zenon
  <2>9. m' <= HeadEnd(line) /\ (HasText(line) \/ \E i \in m'..HeadEnd(line) : line[i] = " ")
    <3>1. p + 1 <= e
      BY <2>1
    <3> QED BY <1>4, <2>1, <2>4, <3>1 DEF Space
  <2> QED BY <2>4, <2>7, <2>8, <2>9 DEF CommandNext
<1> QED BY <1>6, <1>7

LEMMA CommandFinds ==
    ASSUME ParserTypes, TidyInv, Tidy(line), ParseCommand
    PROVE  place' = "params" /\ ParamNext(line, data', m')
<1>1. place = "command" /\ CommandNext(line, data, m) /\ LineOK /\ m \in Nat \ {0} /\ data \in IrcData
  BY DEF ParseCommand, TidyInv, ParserTypes, LineOK
<1>2. PICK l \in Nat : l = Len(line)
  BY <1>1, LineFacts
<1>3. PICK e \in 1..l : HeadShape(e, l)
  BY <1>1, <1>2, TidyShape
<1>4. PICK p \in 1..e : p = m
  <2>1. m \in Nat \ {0}
    BY <1>1
  <2>2. m <= e
    BY <1>1, <1>3 DEF HeadShape, CommandNext
  <2> QED BY <2>1, <2>2
<1>5. \E i \in p..(e + 1) : i <= l /\ Space(i)
  <2>1. CASE HasText(line)
    <3>1. e + 1 <= l /\ Space(e + 1) /\ e + 1 \in p..(e + 1)
      BY <1>3, <2>1 DEF HeadShape
    <3> QED BY <3>1
  <2>2. CASE ~HasText(line)
    <3>1. \E i \in p..e : Space(i)
      BY <1>1, <1>3, <1>4, <2>2 DEF HeadShape, CommandNext, Space
    <3> QED BY <3>1
  <2> QED BY <2>1, <2>2
<1> DEFINE I == {i \in p..(e + 1) : i <= l /\ Space(i)}
<1>6. PICK s \in p..(e + 1) : s \in I /\ \A i \in p..(s - 1) : i \notin I
  <2>1. I \in SUBSET (p..(e + 1)) /\ I # {} /\ p \in Nat /\ e + 1 \in Nat
    BY <1>5
  <2> HIDE DEF I
  <2> QED BY <2>1, LeastIn, ZenonT(30)
<1>7. s <= l /\ Space(s) /\ \A i \in p..(s - 1) : ~Space(i)
  <2>1. s <= l /\ Space(s)
    BY <1>6
  <2>2. \A i \in p..(s - 1) : i \in p..(e + 1) /\ i <= l
    BY <2>1
  <2> QED BY <1>6, <2>1, <2>2
<1>8. Found(" ", p) /\ Next1(" ", p) = s
  <2>1. p \in Nat /\ p >= 1 /\ s \in p..Len(line)
    BY <1>2, <1>7
  <2> QED BY <1>1, <1>7, <2>1, NextIs
<1>9. PICK w : w = SubSeq(line, p, s - 1)
  OBVIOUS
<1>10. data' = [data EXCEPT !.command = w] /\ m' = s + 1 /\ place' = "params"
  BY <1>4, <1>8, <1>9 DEF ParseCommand
<1>11. /\ data'.params = << >> /\ data'.rest = << >> /\ data'.reststr = << >>
       /\ data'.prefix = data.prefix /\ data'.command = w
  <2>1. data.params = << >> /\ data.rest = << >> /\ data.reststr = << >>
    BY <1>1 DEF CommandNext
  <2> QED BY <1>1, <1>10, <2>1 DEF IrcData
<1>12. SubSeq(line, 1, s - 1) = (PrefixText(data.prefix) \o w) \o Spaced(<< >>)
  <2>1. SubSeq(line, 1, p - 1) = PrefixText(data.prefix)
    BY <1>1, <1>4 DEF CommandNext
  <2>2. 1 \in 1..(l + 1) /\ p - 1 \in (1 - 1)..l /\ s - 1 \in (p - 1)..l /\ (p - 1) + 1 = p
    BY <1>7
  <2>3. SubSeq(line, 1, p - 1) \o SubSeq(line, (p - 1) + 1, s - 1) = SubSeq(line, 1, s - 1)
    BY <1>1, <1>2, <2>2, ConcatAdjacentSubSeq DEF LineOK
  <2>4. SubSeq(line, 1, s - 1) = PrefixText(data.prefix) \o w
    BY <1>9, <2>1, <2>2, <2>3
  <2>5. SubSeq(line, 1, s - 1) \in Seq(Byte)
    <3>1. 1 \in Int /\ 1 <= 1 /\ s - 1 \in Int /\ s - 1 <= Len(line)
      BY <1>2, <1>7
    <3> QED BY <1>1, <3>1, LinePiece
  <2>6. SubSeq(line, 1, s - 1) \o << >> = SubSeq(line, 1, s - 1)
    BY <2>5, ConcatEmptySeq
  <2> QED BY <2>4, <2>6, SpacedNone
<1>13. HeadRead(line, data', m' - 2)
  <2>1. (s + 1) - 2 = s - 1
    OBVIOUS
  <2> QED BY <1>10, <1>11, <1>12, <2>1, Zenon DEF HeadRead
<1>14. ProperWords(data'.params)
  <2>1. DOMAIN << >> = {}
    OBVIOUS
  <2> QED BY <1>11, <2>1, Zenon DEF ProperWords
<1>15. (m' - 1 \in 1..HeadEnd(line) /\ line[m' - 1] = " ") \/ m' = HeadEnd(line) + 2
  <2>1. e = HeadEnd(line) /\ m' - 1 = s /\ s \in Nat /\ e \in Nat
    BY <1>3, <1>10 DEF HeadShape
  <2>2. CASE s <= e
    <3>1. s \in 1..e
      BY <2>2
    <3>2. line[s] = " "
      BY <1>7 DEF Space
    <3> QED BY <2>1, <3>1, <3>2, Zenon
  <2>3. CASE ~(s <= e)
    <3>1. s + 1 = e + 2
      BY <2>3
    <3> QED BY <1>10, <2>1, <3>1
  <2> QED BY <2>2, <2>3
<1> QED BY <1>10, <1>11, <1>13, <1>14, <1>15 DEF ParamNext

\* A space and a word.
LEMMA SpaceAndWord ==
    ASSUME LineOK, NEW l \in Nat, l = Len(line), NEW a \in 1..l, NEW i \in a..l, NEW n \in i..l, Space(i)
    PROVE  /\ SubSeq(line, a, n) = Cat(SubSeq(line, a, i - 1), InFront(SubSeq(line, i + 1, n)))
           /\ SubSeq(line, a, i - 1) \in Seq(Byte) /\ SubSeq(line, i + 1, n) \in Seq(Byte)
<1>1. a \in 1..(l + 1)
  OBVIOUS
<1>2. PICK x, y, z : x = SubSeq(line, a, i - 1) /\ y = <<line[i]>> /\ z = SubSeq(line, i + 1, n)
  OBVIOUS
<1>3. /\ SubSeq(line, a, n) = (x \o y) \o z
      /\ x \in Seq(Byte) /\ y \in Seq(Byte) /\ z \in Seq(Byte)
  BY <1>1, <1>2, CutAround DEF LineOK
<1>4. (x \o y) \o z = x \o (y \o z)
  <2>1. x \in Seq(Byte) /\ y \in Seq(Byte) /\ z \in Seq(Byte)
    BY <1>3
  <2> QED BY <2>1, BytesTogether, Zenon
<1>5. y = <<" ">>
  BY <1>2 DEF Space
<1> QED BY <1>2, <1>3, <1>4, <1>5 DEF Cat, InFront

\* What a prefix and a command are written as.
LEMMA PrefixTextType ==
    ASSUME NEW p \in IrcPrefixes
    PROVE  PrefixText(p) \in Seq(Byte)
<1>0. \A c \in Byte : <<c>> \in Seq(Byte)
  OBVIOUS
<1>1. <<":">> \in Seq(Byte) /\ <<" ">> \in Seq(Byte) /\ <<"!">> \in Seq(Byte) /\ <<"@">> \in Seq(Byte)
  <2>1. ":" \in Byte /\ " " \in Byte /\ "!" \in Byte /\ "@" \in Byte
    BY Marks
  <2> QED BY <1>0, <2>1, Zenon
<1>2. \A u, v \in Seq(Byte) : Cat(u, v) \in Seq(Byte)
  BY ConcatProperties DEF Cat
<1>3. << >> \in Seq(Byte)
  BY EmptySeq
<1>4. PICK x : x = (IF "servername" \in DOMAIN p THEN p.servername
                    ELSE IF DOMAIN p = {"nick"} THEN p.nick
                    ELSE Cat(Cat(Cat(Cat(p.nick, <<"!">>), p.user), <<"@">>), p.host))
  OBVIOUS
<1>5. PrefixText(p) = IF p = << >> THEN << >> ELSE Cat(Cat(<<":">>, x), <<" ">>)
  BY <1>4 DEF PrefixText, Cat
<1>6. ASSUME x \in Seq(Byte) PROVE PrefixText(p) \in Seq(Byte)
  <2>1. Cat(<<":">>, x) \in Seq(Byte)
    BY <1>1, <1>2, <1>6, Zenon
  <2>2. Cat(Cat(<<":">>, x), <<" ">>) \in Seq(Byte)
    BY <1>1, <1>2, <2>1, Zenon
  <2> QED BY <1>3, <1>5, <2>2, Zenon
<1>7. CASE p \in [{} -> Seq(Byte)]
  <2>1. p = << >>
    BY <1>7
  <2> QED BY <1>3, <1>5, <2>1, Zenon
<1>8. CASE p \in [{"servername"} -> Seq(Byte)]
  <2>1. "servername" \in DOMAIN p /\ p.servername \in Seq(Byte)
    BY <1>8
  <2>2. x \in Seq(Byte)
    BY <1>4, <2>1, Zenon
  <2> QED BY <1>6, <2>2
<1>9. CASE p \in [{"nick"} -> Seq(Byte)]
  <2>1. "servername" \notin DOMAIN p /\ DOMAIN p = {"nick"} /\ p.nick \in Seq(Byte)
    BY <1>9
  <2>2. x \in Seq(Byte)
    BY <1>4, <2>1, Zenon
  <2> QED BY <1>6, <2>2
<1>10. CASE p \in [{"nick", "user", "host"} -> Seq(Byte)]
  <2>1. "servername" \notin DOMAIN p /\ "user" \in DOMAIN p
    BY <1>10
  <2>2. "user" \notin {"nick"}
    OBVIOUS
  <2>3. p.nick \in Seq(Byte) /\ p.user \in Seq(Byte) /\ p.host \in Seq(Byte)
    BY <1>10
  <2>4. x = Cat(Cat(Cat(Cat(p.nick, <<"!">>), p.user), <<"@">>), p.host)
    BY <1>4, <2>1, <2>2, Zenon
  <2>5. x \in Seq(Byte)
    <3>1. Cat(p.nick, <<"!">>) \in Seq(Byte)
      BY <1>1, <1>2, <2>3, Zenon
    <3>2. Cat(Cat(p.nick, <<"!">>), p.user) \in Seq(Byte)
      BY <1>2, <2>3, <3>1, Zenon
    <3>3. Cat(Cat(Cat(p.nick, <<"!">>), p.user), <<"@">>) \in Seq(Byte)
      BY <1>1, <1>2, <3>2, Zenon
    <3> QED BY <1>2, <2>3, <2>4, <3>3, Zenon
  <2> QED BY <1>6, <2>5
<1> QED BY <1>7, <1>8, <1>9, <1>10 DEF IrcPrefixes

\* The head grows by a word.
LEMMA HeadGrows ==
    ASSUME data \in IrcData, NEW x, NEW y, NEW w \in Seq(Byte),
           x = (PrefixText(data.prefix) \o data.command) \o Spaced(data.params),
           y = Cat(x, InFront(w))
    PROVE  y = (PrefixText(data.prefix) \o data.command) \o Spaced(Append(data.params, w))
<1>1. /\ data.prefix \in IrcPrefixes /\ data.command \in Seq(Byte)
      /\ IsListOver(data.params, Byte)
  BY DataFields DEF IsListOver
<1>2. PrefixText(data.prefix) \in Seq(Byte)
  BY <1>1, PrefixTextType
<1>3. PICK h \in Seq(Byte) : h = PrefixText(data.prefix) \o data.command
  <2>1. PrefixText(data.prefix) \o data.command \in Seq(Byte)
    BY <1>1, <1>2, ConcatProperties
  <2> QED BY <2>1
<1>4. PICK b \in Seq(Byte), c \in Seq(Byte) : b = Spaced(data.params) /\ c = InFront(w)
  BY <1>1, SpacedType, InFrontType
<1>5. (h \o b) \o c = h \o (b \o c)
  BY BytesTogether, Zenon
<1>6. Spaced(Append(data.params, w)) = b \o c
  BY <1>1, <1>4, SpacedOneMore DEF Cat
<1> QED BY <1>3, <1>4, <1>5, <1>6 DEF Cat

\* A word that is read from the line.
LEMMA WordRead ==
    ASSUME LineOK, NEW l \in Nat, l = Len(line), NEW p \in 1..l, p = m, NEW words, NEW stops, Word(words, stops)
    PROVE  \E e \in p..(l + 1) :
             /\ StopsAt(e, stops) /\ e >= Start(p, words)
             /\ \A i \in Start(p, words)..(e - 1) : ~StopsAt(i, stops)
             /\ WordAt(words, stops) = SubSeq(line, p, e - 1)
             /\ m' = IF e \in stops THEN e ELSE e + 1
<1>1. PICK s \in Nat : s = Start(p, words) /\ s >= p /\ s <= l + 1
  <2>1. p + 1 \in Nat /\ p <= l + 1 /\ p + 1 <= l + 1
    OBVIOUS
  <2> QED BY <2>1 DEF Start
<1>2. PICK e \in s..(l + 2) : /\ e = WordEnd(s, stops) /\ StopsAt(e, stops)
                              /\ \A i \in s..(e - 1) : ~StopsAt(i, stops)
  <2>1. s >= 1 /\ s <= l + 2
    BY <1>1
  <2> QED BY <2>1, WordEndIs
<1>3. e <= l + 1
  <2> SUFFICES ASSUME ~(e <= l + 1) PROVE FALSE
    OBVIOUS
  <2>1. l + 1 \in s..(e - 1) /\ l + 1 \in Int /\ l + 1 \notin 1..l
    BY <1>1
  <2>2. At(l + 1) = NUL
    BY <2>1, AtIs
  <2> QED BY <1>2, <2>1, <2>2 DEF StopsAt
<1>4. e \in p..(l + 1) /\ e >= s
  BY <1>1, <1>3
<1>5. (IF e > l THEN l ELSE e - 1) = e - 1
  BY <1>3, <1>4
<1>6. WordAt(words, stops) = SubSeq(line, p, e - 1)
  BY <1>1, <1>2, <1>5 DEF WordAt
<1>7. m' = IF e \in stops THEN e ELSE e + 1
  BY <1>1, <1>2 DEF Word
<1> QED BY <1>1, <1>2, <1>4, <1>6, <1>7

\* The words that are found in the head.
LEMMA StopsIs ==
    ASSUME LineOK, NEW l \in Nat, l = Len(line), NEW i \in Int, NEW stops
    PROVE  /\ StopsAt(i, stops) <=> i \notin 1..l \/ Space(i) \/ i \in stops
           /\ At(i) = NUL <=> i \notin 1..l
           /\ At(i) = " " <=> i \in 1..l /\ Space(i)
<1>1. /\ At(i) = NUL <=> i \notin 1..l
      /\ i \in 1..l => At(i) = line[i]
  BY AtIs
<1>2. NUL # " "
  BY DEF NUL
<1> QED BY <1>1, <1>2, Zenon DEF StopsAt, Space

\* A word has a character and no space.
ProperWord(w) == w # << >> /\ " " \notin ToSet(w)

LEMMA WordIsProper ==
    ASSUME LineOK, NEW l \in Nat, l = Len(line), NEW p \in 1..l, NEW e \in (p + 1)..(l + 1),
           \A i \in p..(e - 1) : ~Space(i)
    PROVE  SubSeq(line, p, e - 1) \in Seq(Byte) /\ ProperWord(SubSeq(line, p, e - 1))
<1>1. PICK w : w = SubSeq(line, p, e - 1)
  OBVIOUS
<1>2. PICK k \in Nat : k = e - p /\ k > 0 /\ \A j \in 1..k : p + j - 1 \in p..(e - 1)
  OBVIOUS
<1>3. /\ w \in Seq(Byte) /\ Len(w) = k /\ \A j \in 1..k : w[j] = line[p + j - 1]
  <2>1. \A i \in p..(e - 1) : line[i] \in Byte
    BY DEF LineOK
  <2>2. /\ w \in Seq(Byte) /\ Len(w) = (IF p <= e - 1 THEN (e - 1) - p + 1 ELSE 0)
        /\ \A j \in 1..((e - 1) - p + 1) : w[j] = line[p + j - 1]
    BY <1>1, <2>1, SubSeqProperties
  <2>3. (e - 1) - p + 1 = k /\ p <= e - 1
    BY <1>2
  <2> QED BY <2>2, <2>3
<1>4. Len(w) # 0
  BY <1>2, <1>3
<1>5. w # << >>
  BY <1>3, <1>4, EmptySeq
<1>6. ToSet(w) = {w[j] : j \in 1..k}
  BY <1>3, ToSetIs
<1>7. \A j \in 1..k : w[j] # " "
  BY <1>2, <1>3 DEF Space
<1>8. " " \notin ToSet(w)
  BY <1>6, <1>7, Zenon
<1> QED BY <1>1, <1>3, <1>5, <1>8 DEF ProperWord

LEMMA ProperWordsGrow ==
    ASSUME NEW words, IsListOver(words, Byte), ProperWords(words), NEW w \in Seq(Byte), ProperWord(w)
    PROVE  ProperWords(Append(words, w))
<1>1. PICK n \in Nat : n = Len(words) /\ DOMAIN words = 1..n
  BY DEF IsListOver
<1>2. PICK v : v = Append(words, w) /\ DOMAIN v = 1..(n + 1) /\ v[n + 1] = w /\ \A i \in 1..n : v[i] = words[i]
  <2>2. /\ Append(words, w) \in Seq(Seq(Byte)) /\ Len(Append(words, w)) = Len(words) + 1
        /\ \A i \in 1..Len(words) : Append(words, w)[i] = words[i]
        /\ Append(words, w)[Len(words) + 1] = w
    BY AppendProperties DEF IsListOver
  <2>3. DOMAIN Append(words, w) = 1..(n + 1)
    <3>1. Len(Append(words, w)) = n + 1
      BY <1>1, <2>2
    <3>2. \A q \in Seq(Seq(Byte)) : DOMAIN q = 1..Len(q)
      BY LenProperties
    <3> QED BY <2>2, <3>1, <3>2, ZenonT(30)
  <2> QED BY <1>1, <2>2, <2>3, Zenon
<1>3. \A i \in 1..n : ProperWord(words[i])
  BY <1>1, Zenon DEF ProperWords, ProperWord
<1>4. ASSUME NEW i \in 1..(n + 1) PROVE ProperWord(v[i])
  <2>1. CASE i = n + 1
    BY <1>2, <2>1, Zenon
  <2>2. CASE i # n + 1
    <3>1. i \in 1..n
      BY <2>2
    <3> QED BY <1>2, <1>3, <3>1, Zenon
  <2> QED BY <2>1, <2>2
<1> QED BY <1>2, <1>4, Zenon DEF ProperWords, ProperWord

\* Where the words of the head stand.
LEMMA ParamPlace ==
    ASSUME LineOK, NEW l \in Nat, NEW e \in 1..l, HeadShape(e, l), NEW p \in Nat, p >= 1,
           (p - 1 \in 1..e /\ Space(p - 1)) \/ p = e + 2
    PROVE  \/ /\ p \in 3..e /\ Space(p - 1) /\ ~Space(p)
              /\ ~Colon(p) /\ At(p) # NUL
           \/ /\ p = e + 2
              /\ IF HasText(line) THEN Colon(p) /\ At(p) # NUL /\ At(p + 1) # NUL /\ e + 2 < l
                 ELSE e = l /\ At(p) = NUL /\ At(p - 1) # " "
<1>1. l = Len(line) /\ e <= l
  BY DEF HeadShape
<1>2. CASE p - 1 \in 1..e /\ Space(p - 1)
  <2>1. 1 < p - 1 /\ p - 1 < e /\ ~Space((p - 1) + 1)
    BY <1>2 DEF HeadShape
  <2>2. p \in 3..e /\ (p - 1) + 1 = p /\ p \in 1..(e + 1) /\ p \in 1..l /\ p \in Int
    BY <1>1, <2>1
  <2>3. ~Colon(p)
    BY <2>2 DEF HeadShape
  <2>4. At(p) # NUL
    BY <1>1, <2>2, StopsIs
  <2> QED BY <1>2, <2>1, <2>2, <2>3, <2>4
<1>3. CASE p = e + 2
  <2>1. CASE HasText(line)
    <3>1. e + 2 < l /\ Space(e + 1) /\ line[e + 2] = ":"
      BY <2>1 DEF HeadShape
    <3>2. /\ p \in Int /\ p - 1 \in 1..l /\ p \in 1..l /\ p + 1 \in 1..l /\ p + 1 \in Int
          /\ line[p] = ":" /\ p - 1 = e + 1
      BY <1>3, <3>1
    <3>3. line[p - 1] = " "
      BY <3>1, <3>2 DEF Space
    <3>4. Colon(p)
      BY <1>1, <3>2, <3>3, ColonIs
    <3>5. At(p) # NUL /\ At(p + 1) # NUL
      BY <1>1, <3>2, StopsIs
    <3> QED BY <1>3, <2>1, <3>1, <3>4, <3>5
  <2>2. CASE ~HasText(line)
    <3>1. e = l
      BY <2>2 DEF HeadShape
    <3>2. p \in Int /\ p \notin 1..l /\ p - 1 \in Int /\ p - 1 \notin 1..l
      BY <1>3, <3>1
    <3>3. At(p) = NUL /\ At(p - 1) # " "
      BY <1>1, <3>2, StopsIs
    <3> QED BY <1>3, <2>2, <3>1, <3>3
  <2> QED BY <2>1, <2>2
<1> QED BY <1>2, <1>3

LEMMA ParamFinds ==
    ASSUME ParserTypes, TidyInv, Tidy(line), Param
    PROVE  place' = "params" /\ ParamNext(line, data', m')
<1>1. place = "params" /\ ParamNext(line, data, m) /\ LineOK /\ m \in Nat /\ m >= 1 /\ data \in IrcData
  BY DEF Param, TidyInv, ParserTypes, LineOK
<1>2. PICK l \in Nat : l = Len(line)
  BY <1>1, LineFacts
<1>3. PICK e \in 1..l : HeadShape(e, l) /\ e = HeadEnd(line)
  <2>1. \E e \in 1..l : HeadShape(e, l)
    BY <1>1, <1>2, TidyShape
  <2> QED BY <2>1 DEF HeadShape
<1>4. m \in 3..e /\ Space(m - 1) /\ ~Space(m) /\ ~Colon(m) /\ At(m) # NUL
  <2>1. (m - 1 \in 1..e /\ Space(m - 1)) \/ m = e + 2
    BY <1>1, <1>3, Zenon DEF ParamNext, Space
  <2>2. ~Colon(m) /\ (At(m) # NUL \/ At(m - 1) = " ")
    BY DEF Param, Goes
  <2> QED BY <1>1, <1>3, <2>1, <2>2, ParamPlace
<1>5. PICK p \in 3..e : p = m
  BY <1>4
<1>6. PICK words : words = data.params
  OBVIOUS
<1>7. Word(words, Colons) /\ data' = [data EXCEPT !.params = Append(@, WordAt(@, Colons))] /\ place' = place
  BY <1>6 DEF Param
<1>8. PICK s \in p..(l + 1) :
             /\ StopsAt(s, Colons) /\ s >= Start(p, words)
             /\ \A i \in Start(p, words)..(s - 1) : ~StopsAt(i, Colons)
             /\ WordAt(words, Colons) = SubSeq(line, p, s - 1)
             /\ m' = IF s \in Colons THEN s ELSE s + 1
  <2>1. p \in 1..l
    OBVIOUS
  <2> QED BY <1>1, <1>2, <1>5, <1>7, <2>1, WordRead
<1>9. \A i \in 1..(e + 1) : i \notin Colons
  BY <1>3 DEF HeadShape, Colons
<1>10. ~StopsAt(p, Colons)
  <2>1. p \in Int /\ p \in 1..l /\ p \in 1..(e + 1)
    OBVIOUS
  <2> QED BY <1>1, <1>2, <1>4, <1>5, <1>9, <2>1, StopsIs
<1>11. s \in (p + 1)..(l + 1) /\ \A i \in p..(s - 1) : ~StopsAt(i, Colons)
  <2>1. s # p
    BY <1>8, <1>10
  <2>2. PICK t \in Int : t = Start(p, words) /\ t <= p + 1
    BY DEF Start
  <2>3. ASSUME NEW i \in p..(s - 1) PROVE ~StopsAt(i, Colons)
    <3>1. CASE i = p
      BY <1>10, <3>1
    <3>2. CASE i # p
      <4>1. i \in t..(s - 1)
        BY <2>2, <3>2
      <4> QED BY <1>8, <2>2, <4>1
    <3> QED BY <3>1, <3>2
  <2> QED BY <2>1, <2>3
<1>12. s <= e + 1
  <2> SUFFICES ASSUME ~(s <= e + 1) PROVE FALSE
    OBVIOUS
  <2>1. e + 1 \in p..(s - 1) /\ e + 1 \in Int
    OBVIOUS
  <2>2. e + 1 \notin 1..l \/ Space(e + 1)
    <3>1. CASE HasText(line)
      BY <1>3, <3>1 DEF HeadShape
    <3>2. CASE ~HasText(line)
      <4>1. e = l
        BY <1>3, <3>2 DEF HeadShape
      <4> QED BY <4>1
    <3> QED BY <3>1, <3>2
  <2>3. StopsAt(e + 1, Colons)
    BY <1>1, <1>2, <2>1, <2>2, StopsIs
  <2> QED BY <1>11, <2>1, <2>3
<1>13. m' = s + 1
  <2>1. s \in 1..(e + 1)
    BY <1>12
  <2> QED BY <1>8, <1>9, <2>1
<1>14. PICK w \in Seq(Byte) : w = SubSeq(line, p, s - 1) /\ ProperWord(w)
  <2>1. \A i \in p..(s - 1) : ~Space(i)
    <3>1. \A i \in p..(s - 1) : i \in Int
      OBVIOUS
    <3> QED BY <1>1, <1>2, <1>11, <3>1, StopsIs
  <2>2. p \in 1..l
    OBVIOUS
  <2>3. SubSeq(line, p, s - 1) \in Seq(Byte) /\ ProperWord(SubSeq(line, p, s - 1))
    BY <1>1, <1>2, <1>11, <2>1, <2>2, WordIsProper
  <2> QED BY <2>3
<1>15. /\ data'.rest = << >> /\ data'.reststr = << >>
       /\ data'.prefix = data.prefix /\ data'.command = data.command /\ data'.params = Append(words, w)
  <2>1. data.rest = << >> /\ data.reststr = << >>
    BY <1>1 DEF ParamNext
  <2>2. data' = [data EXCEPT !.params = Append(words, w)]
    BY <1>6, <1>7, <1>8, <1>14
  <2> QED BY <1>1, <2>1, <2>2 DEF IrcData
<1>16. HeadRead(line, data', m' - 2)
  <2>1. HeadRead(line, data, p - 2)
    BY <1>1, <1>5 DEF ParamNext
  <2>2. /\ 1 \in 1..l /\ p - 1 \in 1..l /\ s - 1 \in (p - 1)..l /\ (p - 1) - 1 = p - 2 /\ (p - 1) + 1 = p
        /\ (s + 1) - 2 = s - 1
    BY <1>11, <1>12
  <2>3. Space(p - 1)
    BY <1>4, <1>5
  <2>4. SubSeq(line, 1, s - 1) = Cat(SubSeq(line, 1, (p - 1) - 1), InFront(SubSeq(line, (p - 1) + 1, s - 1)))
    BY <1>1, <1>2, <2>2, <2>3, SpaceAndWord
  <2>5. SubSeq(line, 1, s - 1) = Cat(SubSeq(line, 1, p - 2), InFront(w))
    BY <1>14, <2>2, <2>4
  <2>6. SubSeq(line, 1, s - 1) = (PrefixText(data.prefix) \o data.command) \o Spaced(Append(words, w))
    BY <1>1, <1>6, <2>1, <2>5, HeadGrows DEF HeadRead
  <2> QED BY <1>13, <1>15, <2>2, <2>6, Zenon DEF HeadRead
<1>17. ProperWords(data'.params)
  <2>1. IsListOver(words, Byte) /\ ProperWords(words)
    BY <1>1, <1>6, DataFields DEF IsListOver, ParamNext
  <2> QED BY <1>14, <1>15, <2>1, ProperWordsGrow
<1>18. (m' - 1 \in 1..HeadEnd(line) /\ line[m' - 1] = " ") \/ m' = HeadEnd(line) + 2
  <2>1. m' - 1 = s /\ s \in Int
    BY <1>13
  <2>2. CASE s <= e
    <3>1. s \in 1..e /\ s \in 1..l /\ s \in 1..(e + 1)
      BY <2>2
    <3>2. Space(s)
      BY <1>1, <1>2, <1>8, <1>9, <2>1, <3>1, StopsIs
    <3> QED BY <1>3, <2>1, <3>1, <3>2, Zenon DEF Space
  <2>3. CASE ~(s <= e)
    <3>1. s + 1 = e + 2
      BY <1>12, <2>3
    <3> QED BY <1>3, <1>13, <3>1
  <2> QED BY <2>2, <2>3
<1> QED BY <1>1, <1>7, <1>15, <1>16, <1>17, <1>18 DEF ParamNext

\* What is in front of a word that is added is a space.
LEMMA InFrontOf ==
    ASSUME NEW u \in Seq(Byte), NEW v \in Seq(Byte)
    PROVE  InFront(Cat(u, v)) = Cat(InFront(u), v)
<1>1. PICK s \in Seq(Byte) : s = <<" ">>
  <2>1. " " \in Byte
    BY Marks
  <2>2. \A c \in Byte : <<c>> \in Seq(Byte)
    OBVIOUS
  <2> QED BY <2>1, <2>2, Zenon
<1>2. s \o (u \o v) = (s \o u) \o v
  BY BytesTogether, Zenon
<1> QED BY <1>1, <1>2, Zenon DEF InFront, Cat

LEMMA SpacedFirst ==
    ASSUME NEW w \in Seq(Byte)
    PROVE  Spaced(Append(<< >>, w)) = InFront(w)
<1>1. IsListOver(<< >>, Byte)
  BY EmptySeq DEF IsListOver
<1>2. Spaced(Append(<< >>, w)) = Cat(<< >>, InFront(w))
  BY <1>1, SpacedNone, SpacedOneMore
<1>3. InFront(w) \in Seq(Byte)
  BY InFrontType
<1>4. << >> \o InFront(w) = InFront(w)
  BY <1>3, ConcatEmptySeq
<1> QED BY <1>2, <1>4, Zenon DEF Cat

LEMMA ParamsEndFinds ==
    ASSUME ParserTypes, TidyInv, Tidy(line), ParamsEnd
    PROVE  \/ place' = "rest" /\ RestNext(line, data', m')
           \/ place' = "dispatch" /\ AllParsed(line, data')
<1>1. place = "params" /\ ParamNext(line, data, m) /\ LineOK /\ m \in Nat /\ m >= 1 /\ data \in IrcData
  BY DEF ParamsEnd, TidyInv, ParserTypes, LineOK
<1>2. PICK l \in Nat : l = Len(line)
  BY <1>1, LineFacts
<1>3. PICK e \in 1..l : HeadShape(e, l) /\ e = HeadEnd(line)
  <2>1. \E e \in 1..l : HeadShape(e, l)
    BY <1>1, <1>2, TidyShape
  <2> QED BY <2>1 DEF HeadShape
<1>4. /\ m = e + 2
      /\ IF HasText(line) THEN Colon(m) /\ At(m) # NUL /\ At(m + 1) # NUL /\ e + 2 < l
         ELSE e = l /\ At(m) = NUL /\ At(m - 1) # " "
  <2>1. (m - 1 \in 1..e /\ Space(m - 1)) \/ m = e + 2
    BY <1>1, <1>3, Zenon DEF ParamNext, Space
  <2>2. Colon(m) \/ At(m) = NUL
    BY DEF ParamsEnd
  <2> QED BY <1>1, <1>3, <2>1, <2>2, ParamPlace
<1>5. HeadRead(line, data, e) /\ ProperWords(data.params) /\ data.rest = << >> /\ data.reststr = << >>
  <2>0. m = e + 2
    BY <1>4, Zenon
  <2>1. m - 2 = e
    BY <2>0
  <2> QED BY <1>1, <2>1 DEF ParamNext
<1>6. CASE HasText(line)
  <2>1. place' = "rest" /\ m' = m + 1 /\ data' = [data EXCEPT !.reststr = SubSeq(line, m + 1, Len(line))]
    BY <1>4, <1>6, Zenon DEF ParamsEnd
  <2>2. m + 1 = e + 3
    <3>1. m = e + 2
      BY <1>4, Zenon
    <3> QED BY <3>1
  <2>3. /\ data'.rest = << >> /\ data'.reststr = SubSeq(line, e + 3, Len(line))
        /\ data'.prefix = data.prefix /\ data'.command = data.command /\ data'.params = data.params
    BY <1>1, <1>5, <2>1, <2>2 DEF IrcData
  <2>4. HeadRead(line, data', e)
    BY <1>5, <2>3, Zenon DEF HeadRead
  <2> QED BY <1>3, <1>5, <1>6, <2>1, <2>2, <2>3, <2>4, Zenon DEF RestNext
<1>7. CASE ~HasText(line)
  <2>1. place' = "dispatch" /\ data' = data
    BY <1>4, <1>7, Zenon DEF ParamsEnd
  <2>2. PICK x : x = (PrefixText(data.prefix) \o data.command) \o Spaced(data.params)
    OBVIOUS
  <2>3. line = x
    <3>1. SubSeq(line, 1, Len(line)) = line
      BY <1>1, SubSeqFull DEF LineOK
    <3>2. e = Len(line)
      BY <1>2, <1>4, <1>7
    <3> QED BY <1>5, <2>2, <3>1, <3>2, Zenon DEF HeadRead
  <2>4. line = x \o << >>
    <3>1. line \o << >> = line
      BY <1>1, ConcatEmptySeq DEF LineOK
    <3> QED BY <2>3, <3>1, Zenon
  <2>5. InFront(<< >>) = <<" ">>
    BY DEF InFront
  <2> QED BY <1>5, <1>7, <2>1, <2>2, <2>4, <2>5, Zenon DEF AllParsed
<1> QED BY <1>6, <1>7

LEMMA RestWordFinds ==
    ASSUME ParserTypes, TidyInv, Tidy(line), RestWord
    PROVE  place' = "rest" /\ RestNext(line, data', m')
<1>1. place = "rest" /\ RestNext(line, data, m) /\ LineOK /\ m \in Nat /\ m >= 1 /\ data \in IrcData
  BY DEF RestWord, TidyInv, ParserTypes, LineOK
<1>2. PICK l \in Nat : l = Len(line)
  BY <1>1, LineFacts
<1>3. PICK e \in 1..l : HeadShape(e, l) /\ e = HeadEnd(line)
  <2>1. \E e \in 1..l : HeadShape(e, l)
    BY <1>1, <1>2, TidyShape
  <2> QED BY <2>1 DEF HeadShape
<1>4. PICK p \in 1..l : p = m
  <2>1. At(m) # NUL
    BY DEF RestWord
  <2>2. m \in Int
    BY <1>1
  <2> QED BY <1>1, <1>2, <2>1, <2>2, StopsIs
<1>5. PICK words : words = data.rest /\ IsListOver(words, Byte)
  BY <1>1, DataFields DEF IsListOver
<1>6. Word(words, {}) /\ data' = [data EXCEPT !.rest = Append(@, WordAt(@, {}))] /\ place' = place
  BY <1>5 DEF RestWord
<1>7. PICK s \in p..(l + 1) :
             StopsAt(s, {}) /\ WordAt(words, {}) = SubSeq(line, p, s - 1) /\ m' = s + 1
  <2>1. \E s \in p..(l + 1) : /\ StopsAt(s, {}) /\ WordAt(words, {}) = SubSeq(line, p, s - 1)
                              /\ m' = IF s \in {} THEN s ELSE s + 1
    BY <1>1, <1>2, <1>4, <1>6, WordRead
  <2> QED BY <2>1
<1>8. PICK w \in Seq(Byte) : w = SubSeq(line, p, s - 1)
  <2>1. p \in Int /\ s - 1 \in Int /\ 1 <= p /\ s - 1 <= Len(line)
    BY <1>2
  <2> QED BY <1>1, <2>1, LinePiece
<1>9. /\ data'.rest = Append(words, w) /\ data'.reststr = data.reststr
      /\ data'.prefix = data.prefix /\ data'.command = data.command /\ data'.params = data.params
  <2>1. data' = [data EXCEPT !.rest = Append(words, w)]
    BY <1>5, <1>6, <1>7, <1>8
  <2> QED BY <1>1, <2>1 DEF IrcData
<1>10. Append(words, w) # << >>
  <2>1. words \in Seq(Seq(Byte))
    BY <1>5 DEF IsListOver
  <2> QED BY <2>1, AppendProperties
<1>11. m' - 1 > Len(line) \/ line[m' - 1] = " "
  <2>1. m' - 1 = s /\ s \in Int
    BY <1>7
  <2>2. CASE s <= l
    <3>1. s \in 1..l
      BY <2>2
    <3>2. s \notin {}
      OBVIOUS
    <3>3. Space(s)
      BY <1>1, <1>2, <1>7, <2>1, <3>1, <3>2, StopsIs
    <3> QED BY <2>1, <3>3, Zenon DEF Space
  <2>3. CASE ~(s <= l)
    <3>1. m' - 1 > Len(line)
      BY <1>2, <2>1, <2>3
    <3> QED BY <3>1
  <2> QED BY <2>2, <2>3
<1>12. /\ m' \in (e + 4)..(Len(line) + 2)
       /\ InFront(SubSeq(line, e + 3, m' - 2)) = Spaced(Append(words, w))
  <2>1. m' - 2 = s - 1
    BY <1>7
  <2>2. CASE words = << >> /\ p = e + 3
    <3>1. s + 1 \in (e + 4)..(l + 2)
      BY <2>2
    <3> QED BY <1>2, <1>7, <1>8, <2>1, <2>2, <3>1, SpacedFirst
  <2>3. CASE /\ p \in (e + 4)..(Len(line) + 2) /\ (p - 1 > Len(line) \/ line[p - 1] = " ")
             /\ InFront(SubSeq(line, e + 3, p - 2)) = Spaced(words)
    <3>0. p \in (e + 4)..(Len(line) + 2) /\ (p - 1 > Len(line) \/ Space(p - 1))
      BY <2>3, Zenon DEF Space
    <3>1. s + 1 \in (e + 4)..(l + 2) /\ p \in (e + 4)..l
      BY <1>2, <3>0
    <3>2. Space(p - 1)
      BY <1>2, <3>0
    <3>3. e + 3 \in 1..l /\ p - 1 \in (e + 3)..l /\ s - 1 \in (p - 1)..l /\ (p - 1) - 1 = p - 2 /\ (p - 1) + 1 = p
      BY <3>1
    <3>4. /\ SubSeq(line, e + 3, s - 1)
                = Cat(SubSeq(line, e + 3, (p - 1) - 1), InFront(SubSeq(line, (p - 1) + 1, s - 1)))
          /\ SubSeq(line, e + 3, (p - 1) - 1) \in Seq(Byte)
      BY <1>1, <1>2, <3>2, <3>3, SpaceAndWord
    <3>5. PICK u \in Seq(Byte) : u = SubSeq(line, e + 3, p - 2)
      BY <3>3, <3>4
    <3>6. SubSeq(line, e + 3, s - 1) = Cat(u, InFront(w))
      BY <1>8, <3>3, <3>4, <3>5
    <3>7. InFront(Cat(u, InFront(w))) = Cat(InFront(u), InFront(w))
      <4>1. InFront(w) \in Seq(Byte)
        BY InFrontType
      <4> QED BY <4>1, InFrontOf
    <3>8. InFront(SubSeq(line, e + 3, s - 1)) = Spaced(Append(words, w))
      BY <1>5, <2>3, <3>5, <3>6, <3>7, SpacedOneMore
    <3> QED BY <1>2, <1>7, <2>1, <3>1, <3>8
  <2> QED BY <1>1, <1>3, <1>4, <1>5, <2>2, <2>3, Zenon DEF RestNext
<1>13. /\ HasText(line) /\ data'.reststr = SubSeq(line, e + 3, Len(line))
       /\ HeadRead(line, data', e) /\ ProperWords(data'.params)
  BY <1>1, <1>3, <1>9, Zenon DEF RestNext, HeadRead
<1> QED BY <1>1, <1>3, <1>6, <1>9, <1>10, <1>11, <1>12, <1>13, Zenon DEF RestNext

LEMMA TwoTogether ==
    ASSUME NEW a, NEW b
    PROVE  <<a>> \o <<b>> = <<a, b>>
<1>1. PICK S : S = {a, b}
  OBVIOUS
<1>2. <<a>> \in Seq(S) /\ <<b>> \in Seq(S) /\ <<a, b>> \in Seq(S)
  BY <1>1
<1>3. PICK q : q = <<a>> \o <<b>>
  OBVIOUS
<1>4. Len(<<a>>) = 1 /\ Len(<<b>>) = 1 /\ <<a>>[1] = a /\ <<b>>[1] = b
  OBVIOUS
<1>5. q \in Seq(S) /\ Len(q) = 2 /\ q[1] = a /\ q[2] = b
  <2>1. /\ q \in Seq(S) /\ Len(q) = Len(<<a>>) + Len(<<b>>)
        /\ \A i \in 1..(Len(<<a>>) + Len(<<b>>)) : q[i] = IF i <= Len(<<a>>) THEN <<a>>[i] ELSE <<b>>[i - Len(<<a>>)]
    BY <1>2, <1>3, ConcatProperties
  <2>2. Len(q) = 2
    BY <1>4, <2>1
  <2>3. q[1] = a /\ q[2] = b
    <3>1. 1 \in 1..(1 + 1) /\ 2 \in 1..(1 + 1) /\ 1 <= 1 /\ ~(2 <= 1) /\ 2 - 1 = 1
      OBVIOUS
    <3> QED BY <1>4, <2>1, <3>1
  <2> QED BY <2>1, <2>2, <2>3
<1>6. Len(<<a, b>>) = 2 /\ <<a, b>>[1] = a /\ <<a, b>>[2] = b
  OBVIOUS
<1>7. \A i \in 1..2 : q[i] = <<a, b>>[i]
  <2>1. \A i \in 1..2 : i = 1 \/ i = 2
    OBVIOUS
  <2> QED BY <1>5, <1>6, <2>1, Zenon
<1> QED BY <1>2, <1>3, <1>5, <1>6, <1>7, SeqEqual

\* At the end of the text all of the line has been found.
LEMMA RestEndFinds ==
    ASSUME ParserTypes, TidyInv, Tidy(line), RestEnd
    PROVE  place' = "dispatch" /\ AllParsed(line, data')
<1>1. place = "rest" /\ RestNext(line, data, m) /\ LineOK /\ m \in Nat /\ m >= 1 /\ data \in IrcData
  BY DEF RestEnd, TidyInv, ParserTypes, LineOK
<1>2. PICK l \in Nat : l = Len(line)
  BY <1>1, LineFacts
<1>3. PICK e \in 1..l : HeadShape(e, l) /\ e = HeadEnd(line)
  <2>1. \E e \in 1..l : HeadShape(e, l)
    BY <1>1, <1>2, TidyShape
  <2> QED BY <2>1 DEF HeadShape
<1>4. place' = "dispatch" /\ data' = data
  BY DEF RestEnd
<1>5. /\ HasText(line) /\ data.reststr = SubSeq(line, e + 3, Len(line))
      /\ HeadRead(line, data, e) /\ ProperWords(data.params)
      /\ \/ data.rest = << >> /\ m = e + 3
         \/ /\ data.rest # << >> /\ m \in (e + 4)..(Len(line) + 2) /\ (m - 1 > Len(line) \/ Space(m - 1))
            /\ InFront(SubSeq(line, e + 3, m - 2)) = Spaced(data.rest)
  BY <1>1, <1>3, Zenon DEF RestNext, Space
<1>6. e + 2 < l /\ Space(e + 1) /\ line[e + 2] = ":"
  BY <1>3, <1>5 DEF HeadShape
<1>7. m \notin 1..l
  <2>1. At(m) = NUL /\ m \in Int
    BY <1>1 DEF RestEnd
  <2> QED BY <1>1, <1>2, <2>1, StopsIs
<1>8. /\ data.rest # << >> /\ m \in (e + 4)..(l + 2) /\ (m - 1 > l \/ Space(m - 1))
      /\ InFront(SubSeq(line, e + 3, m - 2)) = Spaced(data.rest)
  <2>1. m # e + 3
    BY <1>6, <1>7
  <2> QED BY <1>2, <1>5, <2>1, Zenon
<1>9. \A c \in Byte : <<c>> \in Seq(Byte)
  OBVIOUS
<1>10. PICK r \in Seq(Byte) : r = SubSeq(line, e + 3, l)
  <2>1. e + 3 \in Int /\ l \in Int /\ 1 <= e + 3 /\ l <= Len(line)
    BY <1>2
  <2> QED BY <1>1, <2>1, LinePiece
<1>11. line = ((PrefixText(data.prefix) \o data.command) \o Spaced(data.params)) \o (<<" ", ":">> \o r)
  <2>1. line = SubSeq(line, 1, e) \o SubSeq(line, e + 1, l)
    <3>1. 1 \in 1..(l + 1) /\ e \in (1 - 1)..l /\ l \in e..l
      OBVIOUS
    <3>2. SubSeq(line, 1, e) \o SubSeq(line, e + 1, l) = SubSeq(line, 1, l)
      BY <1>1, <1>2, <3>1, ConcatAdjacentSubSeq DEF LineOK
    <3>3. SubSeq(line, 1, Len(line)) = line
      BY <1>1, SubSeqFull DEF LineOK
    <3> QED BY <1>2, <3>2, <3>3, Zenon
  <2>2. SubSeq(line, e + 1, l) = <<" ">> \o (<<":">> \o r)
    <3>1. /\ e + 1 \in 1..l /\ e + 2 \in 1..l /\ l \in (e + 1)..l /\ l \in (e + 2)..l
          /\ (e + 1) + 1 = e + 2 /\ (e + 2) + 1 = e + 3
      BY <1>6
    <3>2. SubSeq(line, e + 1, l) = <<line[e + 1]>> \o SubSeq(line, (e + 1) + 1, l)
      BY <1>1, <1>2, <3>1, SubSeqRecursiveFirst DEF LineOK
    <3>3. SubSeq(line, e + 2, l) = <<line[e + 2]>> \o SubSeq(line, (e + 2) + 1, l)
      BY <1>1, <1>2, <3>1, SubSeqRecursiveFirst DEF LineOK
    <3> QED BY <1>6, <1>10, <3>1, <3>2, <3>3 DEF Space
  <2>3. <<" ">> \o (<<":">> \o r) = <<" ", ":">> \o r
    <3>1. PICK x \in Seq(Byte), y \in Seq(Byte) : x = <<" ">> /\ y = <<":">>
      BY <1>9, Marks
    <3>2. x \o (y \o r) = (x \o y) \o r
      BY BytesTogether, Zenon
    <3>3. <<" ">> \o <<":">> = <<" ", ":">>
      BY TwoTogether
    <3> QED BY <3>1, <3>2, <3>3, Zenon
  <2> QED BY <1>5, <2>1, <2>2, <2>3, Zenon DEF HeadRead
<1>12. InFront(r) \in {Spaced(data.rest), Spaced(data.rest) \o <<" ">>}
  <2>1. CASE m = l + 2
    <3>1. m - 2 = l
      BY <2>1
    <3> QED BY <1>8, <1>10, <3>1, Zenon
  <2>2. CASE m # l + 2
    <3>1. m = l + 1
      BY <1>7, <1>8, <2>2
    <3>2. Space(l)
      <4>1. m - 1 = l /\ ~(m - 1 > l)
        BY <3>1
      <4> QED BY <1>8, <4>1, Zenon
    <3>3. e + 3 \in 1..l /\ l \in (e + 3)..l /\ l - 1 = m - 2
      BY <1>8, <3>1
    <3>4. SubSeq(line, e + 3, l) = SubSeq(line, e + 3, l - 1) \o <<line[l]>>
      BY <1>1, <1>2, <3>3, SubSeqRecursiveSecond DEF LineOK
    <3>5. PICK u \in Seq(Byte) : u = SubSeq(line, e + 3, m - 2)
      <4>1. e + 3 \in Int /\ m - 2 \in Int /\ 1 <= e + 3 /\ m - 2 <= Len(line)
        BY <1>2, <3>3
      <4> QED BY <1>1, <4>1, LinePiece
    <3>6. r = Cat(u, <<" ">>)
      BY <1>10, <3>2, <3>3, <3>4, <3>5 DEF Space, Cat
    <3>7. <<" ">> \in Seq(Byte)
      BY <1>9, Marks
    <3>8. InFront(Cat(u, <<" ">>)) = Cat(InFront(u), <<" ">>)
      BY <3>7, InFrontOf
    <3> QED BY <1>8, <3>5, <3>6, <3>8, Zenon DEF Cat
  <2> QED BY <2>1, <2>2
<1>13. data.reststr = r
  BY <1>2, <1>5, <1>10
<1> QED BY <1>4, <1>5, <1>8, <1>11, <1>12, <1>13, Zenon DEF AllParsed

\* A step of parse_irc_line, and the steps around it.
LEMMA TidyStep ==
    ASSUME line' = line, place' \notin {"select", "lines", "prefix"},
           Tidy(line) => \/ place' = "command" /\ CommandNext(line, data', m')
                         \/ place' = "params" /\ ParamNext(line, data', m')
                         \/ place' = "rest" /\ RestNext(line, data', m')
                         \/ place' = "dispatch" /\ AllParsed(line, data')
                         \/ place' = "fault" /\ data'.command = Ping /\ ~HasText(line)
    PROVE  TidyInv'
<1> USE DEF TidyInv
<1>1. Tidy(line)' => Tidy(line)
  OBVIOUS
<1>2. /\ place' = "command" => place' \notin {"params", "rest", "dispatch", "fault"}
      /\ place' = "params" => place' \notin {"command", "rest", "dispatch", "fault"}
      /\ place' = "rest" => place' \notin {"command", "params", "dispatch", "fault"}
      /\ place' = "dispatch" => place' \notin {"command", "params", "rest", "fault"}
      /\ place' = "fault" => place' \notin {"command", "params", "rest", "dispatch"}
  OBVIOUS
<1>3. PICK l : l = line
  OBVIOUS
<1>4. Tidy(l) =>
         /\ place' = "command" => CommandNext(l, data', m')
         /\ place' = "params" => ParamNext(l, data', m')
         /\ place' = "rest" => RestNext(l, data', m')
         /\ place' = "dispatch" => AllParsed(l, data')
         /\ place' = "fault" => data'.command = Ping /\ ~HasText(l)
  BY <1>2, <1>3, Zenon
<1>5. line' = l
  BY <1>3
<1>6. Tidy(line') =>
         /\ place' = "command" => CommandNext(line', data', m')
         /\ place' = "params" => ParamNext(line', data', m')
         /\ place' = "rest" => RestNext(line', data', m')
         /\ place' = "dispatch" => AllParsed(line', data')
         /\ place' = "fault" => data'.command = Ping /\ ~HasText(line')
  BY <1>4, <1>5, Zenon
<1> QED BY <1>6

LEMMA TidyIdle ==
    ASSUME place' \in {"select", "lines", "prefix"}, m' = 1, data' = NoData
    PROVE  TidyInv'
<1>1. place' \notin {"command", "params", "rest", "dispatch", "fault"}
  OBVIOUS
<1> QED BY <1>1 DEF TidyInv

LEMMA TidyInitInv == ASSUME IrcInit PROVE TidyInv
<1>1. place = "select" /\ m = 1 /\ data = NoData
  BY DEF IrcInit
<1> QED BY <1>1 DEF TidyInv

LEMMA TidyNextInv ==
    ASSUME ParserTypes, TidyInv, [IrcNext]_ircVars
    PROVE  TidyInv'
<1>1. ASSUME NEW n \in Network, RecvNothing(n) PROVE TidyInv'
  <2>1. place = "select" /\ place' = "select" /\ UNCHANGED <<m, data>>
    BY <1>1 DEF RecvNothing, parser
  <2> QED BY <2>1, TidyIdle DEF TidyInv
<1>2. ASSUME NEW n \in Network, NEW k, RecvNew(n, k) \/ RecvMore(n, k) PROVE TidyInv'
  <2>1. place = "select" /\ place' = "lines" /\ UNCHANGED <<m, data>>
    BY <1>2 DEF RecvNew, RecvMore, Reads, parser
  <2> QED BY <2>1, TidyIdle DEF TidyInv
<1>3. CASE TakeLine
  <2>1. place = "lines" /\ place' = "prefix" /\ UNCHANGED <<m, data>>
    BY <1>3 DEF TakeLine
  <2> QED BY <2>1, TidyIdle DEF TidyInv
<1>4. CASE NoLine
  <2>1. place = "lines" /\ place' = "select" /\ UNCHANGED <<m, data>>
    BY <1>4 DEF NoLine, parser
  <2> QED BY <2>1, TidyIdle DEF TidyInv
<1>5. CASE ParsePrefix
  <2>1. line' = line /\ place' \in {"command", "fault"}
    BY <1>5 DEF ParsePrefix, Fault, Parses
  <2>2. Tidy(line) => place' = "command" /\ CommandNext(line, data', m')
    BY <1>5, PrefixFinds
  <2>3. place' \notin {"select", "lines", "prefix"}
    BY <2>1
  <2> QED BY <2>1, <2>2, <2>3, TidyStep, Zenon
<1>6. CASE ParseCommand
  <2>1. line' = line /\ place' \in {"params", "fault"}
    BY <1>6 DEF ParseCommand, Fault, Parses
  <2>2. Tidy(line) => place' = "params" /\ ParamNext(line, data', m')
    BY <1>6, CommandFinds
  <2>3. place' \notin {"select", "lines", "prefix"}
    BY <2>1
  <2> QED BY <2>1, <2>2, <2>3, TidyStep, Zenon
<1>7. CASE Param
  <2>1. line' = line /\ place' = "params"
    BY <1>7 DEF Param, Parses
  <2>2. Tidy(line) => place' = "params" /\ ParamNext(line, data', m')
    BY <1>7, ParamFinds
  <2>3. place' \notin {"select", "lines", "prefix"}
    BY <2>1
  <2> QED BY <2>1, <2>2, <2>3, TidyStep, Zenon
<1>8. CASE ParamsEnd
  <2>1. line' = line /\ place' \in {"rest", "dispatch"}
    BY <1>8 DEF ParamsEnd, Parses
  <2>2. Tidy(line) => \/ place' = "rest" /\ RestNext(line, data', m')
                      \/ place' = "dispatch" /\ AllParsed(line, data')
    BY <1>8, ParamsEndFinds
  <2>3. place' \notin {"select", "lines", "prefix"}
    BY <2>1
  <2> QED BY <2>1, <2>2, <2>3, TidyStep, Zenon
<1>9. CASE RestWord
  <2>1. line' = line /\ place' = "rest"
    BY <1>9 DEF RestWord, Parses
  <2>2. Tidy(line) => place' = "rest" /\ RestNext(line, data', m')
    BY <1>9, RestWordFinds
  <2>3. place' \notin {"select", "lines", "prefix"}
    BY <2>1
  <2> QED BY <2>1, <2>2, <2>3, TidyStep, Zenon
<1>10. CASE RestEnd
  <2>1. line' = line /\ place' = "dispatch"
    BY <1>10 DEF RestEnd, Parses
  <2>2. Tidy(line) => place' = "dispatch" /\ AllParsed(line, data')
    BY <1>10, RestEndFinds
  <2>3. place' \notin {"select", "lines", "prefix"}
    BY <2>1
  <2> QED BY <2>1, <2>2, <2>3, TidyStep, Zenon
<1>11. CASE PingFails
  <2>1. /\ line' = line /\ place' = "fault" /\ place = "dispatch" /\ data' = data
        /\ data.command = Ping /\ data.rest = << >>
    BY <1>11 DEF PingFails, Fault, Parses
  <2>2. Tidy(line) => ~HasText(line)
    BY <2>1, Zenon DEF TidyInv, AllParsed
  <2>3. place' \notin {"select", "lines", "prefix"}
    BY <2>1
  <2> QED BY <2>1, <2>2, <2>3, TidyStep, Zenon
<1>12. CASE RunTriggers
  <2>1. place' = "lines" /\ m' = 1 /\ data' = NoData
    BY <1>12 DEF RunTriggers, Forgotten
  <2> QED BY <2>1, TidyIdle
<1>13. CASE UNCHANGED ircVars
  BY <1>13 DEF ircVars, parser, TidyInv
<1> QED BY <1>1, <1>2, <1>3, <1>4, <1>5, <1>6, <1>7, <1>8, <1>9, <1>10, <1>11, <1>12, <1>13
        DEF IrcNext, ReadLine, ParseLine

\* parse_irc_line finds in a line that is as the protocol has them all of it and nothing else: the
\* prefix, the command, the parameters and the words of the trailing text, put together again, are the
\* line, and only a PING without an argument stops the process (the loops of parse_irc_line).
THEOREM TidyLinesAreWhole == IrcSpec => []TidyLinesAreParsed
<1>1. IrcInit => TidyInv
  BY TidyInitInv
<1>2. IrcInv /\ TidyInv /\ [IrcNext]_ircVars => TidyInv'
  BY TidyNextInv DEF IrcInv, ParserInv
<1>3. TidyInv => TidyLinesAreParsed
  BY Zenon DEF TidyInv, TidyLinesAreParsed, AllParsed, ProperWords, InFront
<1> QED BY <1>1, <1>2, <1>3, IrcInvAlways, PTL DEF IrcSpec
=============================================================================
