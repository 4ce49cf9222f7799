----------------------------- MODULE Connections ----------------------------
(***************************************************************************)
(* The IRC connections of the bot: the tsockets (tsocket.c), the attempt   *)
(* of network_connect over a network's servers, the part of the select()   *)
(* loop (irc_loop in sockets.c) that connects, polls and reads them, and   *)
(* what egg_rehash does to them.                                           *)
(*                                                                         *)
(* pc: "start" (every network of the configuration is tried once), then    *)
(* one pass of the loop after the other: "fdset" (retry the disconnected   *)
(* networks, build the descriptor sets), "select", "dispatch" (the walk    *)
(* over g_cfg->tsockets), "dcc" (the partyline, where .rehash may come).   *)
(* "gone" is a process that has called a NULL pointer or read freed memory.*)
(***************************************************************************)
EXTENDS Naturals, FiniteSets

CONSTANTS Net,      \* the labels a configuration may give its networks
          Retry,    \* those configured with never-give-up 1
          Addr,     \* the addresses malloc() may return for a tsocket
          Null,     \* the NULL pointer
          MaxRehash \* bound: the number of rehashes

ASSUME ConnectionsAssumption ==
    /\ Retry \subseteq Net
    /\ Null \notin Addr
    /\ MaxRehash \in Nat

VARIABLES nets,     \* the labels of g_cfg->networks
          status,   \* net->status
          tsock,    \* net->tsock
          ts,       \* the tsockets: status, descriptor, and data, a network
          live,     \* the tsockets between tsocket_new() and tsocket_free()
          tsockets, \* the elements of g_cfg->tsockets
          rset, wset, \* the descriptor sets: to poll, then those ready
          hello,    \* history: how often USER and NICK were sent on a tsocket
          todo,     \* networks, then tsockets, the running walk has still to visit
          rehashes, \* number of rehashes
          pc

vars == <<nets, status, tsock, ts, live, tsockets, rset, wset, hello, todo, rehashes, pc>>
-----------------------------------------------------------------------------
\* enum tsocket_status, without the values nothing assigns to these sockets.
Status == {"uninitialized", "notinfdset", "infdset", "connecting"}

Tsocket == [status : Status, sock : {"open", "none"}, data : Net \cup {Null}]

TypeOK ==
    /\ nets \subseteq Net
    /\ status \in [Net -> {"disconnected", "inprogress", "idle"}]
    /\ tsock \in [Net -> Addr \cup {Null}]
    /\ ts \in [Addr -> Tsocket]
    /\ live \subseteq Addr /\ tsockets \subseteq Addr
    /\ rset \subseteq Addr /\ wset \subseteq Addr
    /\ hello \in [Addr -> 0..1]
    /\ todo \subseteq Net \cup Addr
    /\ rehashes \in 0..MaxRehash
    /\ pc \in {"start", "fdset", "select", "dispatch", "dcc", "gone"}

\* tsocket_new()
NewTsocket == [status |-> "uninitialized", sock |-> "none", data |-> Null]

\* Some configuration has been read.
Init ==
    /\ nets \in SUBSET Net \ {{}}
    /\ status = [n \in Net |-> "disconnected"]
    /\ tsock = [n \in Net |-> Null]
    /\ ts = [a \in Addr |-> NewTsocket]
    /\ live = {} /\ tsockets = {}
    /\ rset = {} /\ wset = {}
    /\ hello = [a \in Addr |-> 0]
    /\ todo = nets
    /\ rehashes = 0
    /\ pc = "start"

-----------------------------------------------------------------------------
\* network_connect: a tsocket for n that the servers' attempts leave in state s,
\* with the network's registration sent h times.
Started(n, a, s, h) ==
    /\ ts' = [ts EXCEPT ![a] = [status |-> s, sock |-> "open", data |-> n]]
    /\ hello' = [hello EXCEPT ![a] = h]
    /\ live' = live \cup {a}
    /\ tsockets' = tsockets \cup {a}

\* A server accepts at once, a connection is under way, or all have failed:
\* then the tsocket is freed and net->tsock keeps its address.
NetworkConnect(n, a) ==
    /\ a \notin live
    /\ status' = [status EXCEPT ![n] = "inprogress"]
    /\ tsock' = [tsock EXCEPT ![n] = a]
    /\ \/ Started(n, a, "notinfdset", 1)
       \/ Started(n, a, "connecting", 0)
       \/ UNCHANGED <<ts, hello, live, tsockets>>
    /\ UNCHANGED <<nets, rset, wset, rehashes>>

StartUp(n, a) ==
    /\ pc = "start"
    /\ n \in todo
    /\ NetworkConnect(n, a)
    /\ todo' = todo \ {n}
    /\ pc' = IF todo' = {} THEN "fdset" ELSE "start"

\* Mutant of Disconnected: only those an earlier pass has left a tsocket.
DisconnectedKnown == {n \in nets \cap Retry : status[n] = "disconnected" /\ tsock[n] # Null}

\* The networks the top of a pass tries again.  last_try is 0 or an attempt
\* ago; the delay between attempts is left out.
Disconnected == {n \in nets \cap Retry : status[n] = "disconnected"}

Reconnect(n, a) ==
    /\ pc = "fdset"
    /\ n \in Disconnected
    /\ NetworkConnect(n, a)
    /\ UNCHANGED <<todo, pc>>

\* The descriptor sets of one pass.
FdSet ==
    /\ pc = "fdset"
    /\ Disconnected = {}
    /\ rset' = {a \in tsockets : ts[a].status \in {"infdset", "notinfdset"}}
    /\ wset' = {a \in tsockets : ts[a].status = "connecting"}
    /\ ts' = [a \in Addr |-> IF a \in rset' THEN [ts[a] EXCEPT !.status = "infdset"]
                             ELSE ts[a]]
    /\ pc' = "select"
    /\ UNCHANGED <<nets, status, tsock, live, tsockets, hello, todo, rehashes>>

\* Some descriptors are ready, those of the partyline's sessions among them.
Select ==
    /\ pc = "select"
    /\ rset' \in SUBSET rset
    /\ wset' \in SUBSET wset
    /\ todo' = tsockets
    /\ pc' = "dispatch"
    /\ UNCHANGED <<nets, status, tsock, ts, live, tsockets, hello, rehashes>>

-----------------------------------------------------------------------------
\* The walk comes to the tsocket a.
Visit(a) ==
    /\ pc = "dispatch"
    /\ a \in todo
    /\ todo' = todo \ {a}
    /\ UNCHANGED <<nets, live, tsockets, rset, wset, rehashes>>

\* Mutant of ConnectOk: the callback is not called.
ConnectOkSilent(a) ==
    /\ Visit(a)
    /\ ts[a].status = "connecting" /\ a \in wset
    /\ ts' = [ts EXCEPT ![a].status = "notinfdset"]
    /\ UNCHANGED <<status, tsock, hello, pc>>

\* tsocket_check_nonblocking_connect: SO_ERROR is 0, the callback of the tsocket
\* sends USER and NICK to net->tsock.
ConnectOk(a) ==
    /\ Visit(a)
    /\ ts[a].status = "connecting" /\ a \in wset
    /\ hello' = [hello EXCEPT ![tsock[ts[a].data]] = @ + 1]
    /\ ts' = [ts EXCEPT ![a].status = "notinfdset"]
    /\ UNCHANGED <<status, tsock, pc>>

\* Mutant of ConnectFailed: the descriptor is given up, the status is not.
ConnectFailedForgotten(a) ==
    /\ Visit(a)
    /\ ts[a].status = "connecting" /\ a \in wset
    /\ ts' = [ts EXCEPT ![a].sock = "none"]
    /\ UNCHANGED <<status, tsock, hello, pc>>

\* It is not: the tsocket stays in the list, without a descriptor.
ConnectFailed(a) ==
    /\ Visit(a)
    /\ ts[a].status = "connecting" /\ a \in wset
    /\ ts' = [ts EXCEPT ![a].status = "uninitialized", ![a].sock = "none"]
    /\ UNCHANGED <<status, tsock, hello, pc>>

\* irc_in with a line, or with recv() failing; the line 376, the end of the
\* MOTD, sets the network's status (troll_user_host_handler).
IrcIn(a) ==
    /\ Visit(a)
    /\ ts[a].status = "infdset" /\ a \in rset
    /\ \/ UNCHANGED status
       \/ status' = [status EXCEPT ![ts[a].data] = "idle"]
    /\ UNCHANGED <<tsock, ts, hello, pc>>

\* irc_in with the connection closed: it closes net->tsock and returns 0, and
\* the loop calls tsocket_disconnect_cb, which network_connect leaves NULL.
IrcClosed(a) ==
    LET c == tsock[ts[a].data]
    IN  /\ Visit(a)
        /\ ts[a].status = "infdset" /\ a \in rset
        /\ ts' = [ts EXCEPT ![c].status = "uninitialized", ![c].sock = "none"]
        /\ pc' = "gone"
        /\ UNCHANGED <<status, tsock, hello>>

NotReady(a) ==
    /\ Visit(a)
    /\ a \notin rset \cup wset
    /\ UNCHANGED <<status, tsock, ts, hello, pc>>

DispatchEnd ==
    /\ pc = "dispatch"
    /\ todo = {}
    /\ pc' = "dcc"
    /\ UNCHANGED <<nets, status, tsock, ts, live, tsockets, rset, wset, hello, todo, rehashes>>

-----------------------------------------------------------------------------
\* Mutant of Rehashed: the list of tsockets is carried over as it is.
RehashedWithSockets(kept) ==
    /\ nets' \in SUBSET Net \ {{}}
    /\ status' = [n \in Net |-> IF n \in kept \cap nets' THEN status[n] ELSE "disconnected"]
    /\ tsock' = [n \in Net |-> Null]
    /\ UNCHANGED tsockets

\* egg_rehash: new network records, of which those in kept get the status of
\* the old record of their name; no record gets the tsocket of the old one, and
\* the new g_cfg->tsockets is empty.
Rehashed(kept) ==
    /\ nets' \in SUBSET Net \ {{}}
    /\ status' = [n \in Net |-> IF n \in kept \cap nets' THEN status[n] ELSE "disconnected"]
    /\ tsock' = [n \in Net |-> Null]
    /\ tsockets' = {}

\* The loop over the old records frees each but the first before it looks at
\* it: the first is always matched, a later one only if its memory still holds
\* the label; or the loop goes astray (RehashAstray).
Rehash(kept) ==
    /\ pc = "dcc"
    /\ rehashes < MaxRehash
    /\ kept \in SUBSET nets \ {{}}
    /\ Rehashed(kept)
    /\ rehashes' = rehashes + 1
    /\ rset' = {} /\ wset' = {}
    /\ pc' = "fdset"
    /\ UNCHANGED <<ts, live, hello, todo>>

RehashAstray ==
    /\ pc = "dcc"
    /\ rehashes < MaxRehash
    /\ Cardinality(nets) > 1
    /\ pc' = "gone"
    /\ UNCHANGED <<nets, status, tsock, ts, live, tsockets, rset, wset, hello, todo, rehashes>>

\* The pass ends; FD_ZERO.
LoopEnd ==
    /\ pc = "dcc"
    /\ rset' = {} /\ wset' = {}
    /\ pc' = "fdset"
    /\ UNCHANGED <<nets, status, tsock, ts, live, tsockets, hello, todo, rehashes>>

-----------------------------------------------------------------------------
Connecting == \E n \in Net, a \in Addr : StartUp(n, a) \/ Reconnect(n, a)

Dispatch ==
    \/ \E a \in Addr : \/ ConnectOk(a) \/ ConnectFailed(a)
                       \/ IrcIn(a) \/ IrcClosed(a) \/ NotReady(a)
    \/ DispatchEnd

Partyline == (\E kept \in SUBSET Net : Rehash(kept)) \/ RehashAstray \/ LoopEnd

Next == Connecting \/ FdSet \/ Select \/ Dispatch \/ Partyline

\* The loop goes round: other descriptors, those of the partyline, keep
\* select() returning.
Spec == Init /\ [][Next]_vars /\ WF_vars(Next)
-----------------------------------------------------------------------------
\* Ownership across network records, the global list and the heap: a polled
\* tsocket is allocated, belongs to a network of the current configuration,
\* and is the one that network knows, so that no network has two.  irc_in
\* relies on it: it reads the socket of tsock and closes that of net->tsock.
PolledSocketsBelong ==
    \A a \in tsockets :
        /\ a \in live
        /\ ts[a].data \in nets
        /\ tsock[ts[a].data] = a

\* select() is never given the descriptor -1, and no callback meets it.
PolledHaveDescriptors ==
    pc \in {"select", "dispatch"} =>
        \A a \in (rset \cup wset) \cap (IF pc = "select" THEN tsockets ELSE todo) :
            ts[a].sock = "open"

\* Over both ways a connection can come up, USER and NICK go out exactly once,
\* before the first line is read and never on a connection that failed; a
\* network is idle only after it has registered.
RegisteredOnce ==
    pc # "gone" =>
        /\ \A a \in tsockets : hello[a] = IF ts[a].sock = "open" /\ ts[a].status # "connecting"
                                          THEN 1 ELSE 0
        /\ \A n \in nets : status[n] = "idle" /\ tsock[n] # Null => hello[tsock[n]] = 1

\* A network that a rehash has added is connected, if it is to keep trying.
NewNetworksConnect ==
    \A n \in Retry : (n \in nets /\ status[n] = "disconnected")
                         ~> (n \notin nets \/ status[n] # "disconnected" \/ pc = "gone")
-----------------------------------------------------------------------------
=============================================================================
