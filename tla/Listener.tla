------------------------------ MODULE Listener ------------------------------
(***************************************************************************)
(* How a network learns its own host and opens the socket that DCC chats   *)
(* are accepted on (dcc_init_listener), on top of its connections: the     *)
(* reply 302 comes after every connection, a CTCP CHAT at any time, and    *)
(* egg_rehash hands both on to the new record.                             *)
(***************************************************************************)
EXTENDS Connections

CONSTANT Vhost  \* the networks configured with a vhost

ASSUME ListenerAssumption == Vhost \subseteq Net

VARIABLES shostFrom, \* what net->shost is: "none", what the "server" said, or
                     \* the "vhost"
          listener, \* net->dcc_listener: "none", "open", or "dead", a socket that
                    \* could not be bound
          opened    \* history: how often the record, or those it comes from, made one

listening == <<shostFrom, listener, opened>>

lvars == <<vars, listening>>

LInit ==
    /\ Init
    /\ shostFrom = [n \in Net |-> "none"]
    /\ listener = [n \in Net |-> "none"]
    /\ opened = [n \in Net |-> 0]
-----------------------------------------------------------------------------
\* dcc_init_listener: the host may not resolve; a descriptor that setsockopt(),
\* bind() or listen() refuses is kept all the same.
InitListener(n) ==
    \/ UNCHANGED <<listener, opened>>
    \/ \E s \in {"open", "dead"} :
         /\ listener' = [listener EXCEPT ![n] = s]
         /\ opened' = [opened EXCEPT ![n] = @ + 1]

\* Mutant of HostReply: each reply counts, not the first only.
HostReplyAgain(a) ==
    LET n == ts[a].data
    IN  /\ IrcIn(a)
        /\ UNCHANGED status
        /\ shostFrom' = [shostFrom EXCEPT ![n] = "server"]
        /\ InitListener(n)

\* The server's 302 with a host, and none is known yet.
HostReply(a) ==
    LET n == ts[a].data
    IN  /\ IrcIn(a)
        /\ UNCHANGED status
        /\ shostFrom[n] = "none"
        /\ shostFrom' = [shostFrom EXCEPT ![n] = "server"]
        /\ InitListener(n)

\* reverse_dcc_chat before that: the vhost becomes the host, so that the reply
\* 302 opens no listener any more.
ReverseChat(a) ==
    LET n == ts[a].data
    IN  /\ IrcIn(a)
        /\ UNCHANGED status
        /\ n \in Vhost /\ shostFrom[n] = "none"
        /\ shostFrom' = [shostFrom EXCEPT ![n] = "vhost"]
        /\ UNCHANGED <<listener, opened>>

\* The part of egg_rehash that hands on the host and the listener.  The listener
\* of a network that is not kept stays open, without a record.
RehashListening(kept) ==
    LET carried(f, none) == [n \in Net |-> IF n \in kept \cap nets' THEN f[n] ELSE none]
    IN  /\ Rehash(kept)
        /\ shostFrom' = carried(shostFrom, "none")
        /\ listener' = carried(listener, "none")
        /\ opened' = carried(opened, 0)

LNext ==
    \/ (Connecting \/ FdSet \/ Select \/ Dispatch \/ RehashAstray \/ LoopEnd)
         /\ UNCHANGED listening
    \/ \E a \in Addr : HostReply(a) \/ ReverseChat(a)
    \/ \E kept \in SUBSET Net : RehashListening(kept)

LSpec == LInit /\ [][LNext]_lvars /\ WF_lvars(LNext)
-----------------------------------------------------------------------------
\* Over reconnections, rehashes and the order of replies and chats, a network
\* makes its listening socket at most once, so that none is lost by being
\* overwritten, and only for a host the server has told.
OneListener ==
    \A n \in nets :
        /\ opened[n] <= 1
        /\ opened[n] = 1 <=> listener[n] # "none"
        /\ listener[n] # "none" => shostFrom[n] = "server"
=============================================================================
