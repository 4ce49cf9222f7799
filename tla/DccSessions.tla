---------------------------- MODULE DccSessions -----------------------------
(***************************************************************************)
(* The DCC partyline of one network: the sessions of dcc.c, the part of    *)
(* the select() loop (irc_loop in sockets.c) that polls, reads and frees   *)
(* them, the login that parse_dcc_line runs, and what the command .rehash  *)
(* does to them.  The network is the only one of the configuration, and a  *)
(* rehash finds its label again.                                           *)
(*                                                                         *)
(* One iteration of the loop is: "fdset" (build the descriptor sets),      *)
(* "select" (block), "irc" (the other sockets' callbacks, where a CTCP     *)
(* request may start an outgoing session, then the listener), "walk" (the  *)
(* while loop over net->dccs, at the session at) and, inside it, "parse"   *)
(* (the loop of dcc_in over the lines it has received).  "fault" is a read *)
(* of freed memory or of a NULL pointer: the process ends there, or what   *)
(* it does from there on is not what the program says.                     *)
(***************************************************************************)
EXTENDS CursorList

CONSTANTS Addr,      \* the addresses malloc() may return for a session
          Null,      \* the NULL pointer
          User,      \* the user records of net->users, named by username
          NoUser,    \* dcc->user == NULL
          Partyline, \* the users who have the flag p
          Word,      \* the other words a peer may send
          Dash,      \* the word "-"
          NL,        \* the end of a line
          NoHash,    \* user->passhash == NULL
          Password,  \* each user's password, a line, or NoHash
          HashType,  \* what a configuration may give as its hash_type
          StartType, \* the one the bot was started with and hashes are stored with
          NoType,    \* g_cfg->hash_type == NULL
          Chunk,     \* what one recv() may return: sequences of words and NL
          MaxLeftover, \* bound: words left in the input buffer when more arrive
          MaxIdx     \* bound: ids handed to outgoing sessions

Text == User \cup Word
Line == Seq(Text)

ASSUME DccAssumption ==
    /\ Null \notin Addr
    /\ NoUser \notin User
    /\ Partyline \subseteq User
    /\ Dash \in Word
    /\ NL \notin Text
    /\ NoHash \notin Line
    /\ StartType \in HashType
    /\ NoType \notin HashType
    /\ Password \in [User -> Line \cup {NoHash}]
    /\ Chunk \subseteq Seq(Text \cup {NL})
    /\ MaxLeftover \in Nat
    /\ MaxIdx \in Nat

VARIABLES sess,     \* the fields of each session
          live,     \* the sessions between new_dcc_session() and free()
          dccs,     \* net->dccs
          hash,     \* user->passhash, per user: the line it was made from
          buffer,   \* dcc_in's static buffer, one for all sessions
          size,     \* its static size: BUFFER_SIZE, or set for this or another text
          cfgType,  \* g_cfg->hash_type
          record,   \* the network's record: the first, or one a rehash has made
          old,      \* the listed sessions whose dcc->net a rehash has replaced
          rset,     \* the read fd set: sessions to poll, then those ready
          wset,     \* the write fd set, likewise
          hup,      \* sessions whose peer has closed, all data read
          pc, at

sessions == <<sess, live, dccs, old, hup>>
users == <<hash, cfgType>>
input == <<buffer, size>>
sets == <<rset, wset>>
vars == <<sessions, users, input, record, sets, pc, at>>

-----------------------------------------------------------------------------
\* enum dcc_status, in its order.
Waiting         == 0
NonBlockConnect == 1
WaitingConnect  == 2
NotReady        == 3
Connected       == 4
HasUsername     == 5
Authenticated   == 6

Session == [status : Waiting..Authenticated,
            sock   : {"open", "none"},
            idx    : -1..MaxIdx,
            user   : User \cup {NoUser}]

TypeOK ==
    /\ sess \in [Addr -> Session]
    /\ live \subseteq Addr
    /\ IsList(dccs, Addr)
    /\ hash \in [User -> Line \cup {NoHash}]
    /\ cfgType \in HashType \cup {NoType}
    /\ buffer \in Seq(Text \cup {NL})
    /\ size \in {"start", "own", "other"}
    /\ record \in {"first", "moved", "new"}
    /\ old \subseteq Addr
    /\ rset \subseteq Addr
    /\ wset \subseteq Addr
    /\ hup \subseteq Addr
    /\ pc \in {"fdset", "select", "irc", "walk", "parse", "fault"}
    /\ at \in Addr \cup {Null}

\* new_dcc_session()
BlankSession == [status |-> Waiting, sock |-> "none", idx |-> -1, user |-> NoUser]

\* A session that has got its socket.
OpenSession(status, idx) ==
    [status |-> status, sock |-> "open", idx |-> idx, user |-> NoUser]

Init ==
    /\ sess = [a \in Addr |-> BlankSession]
    /\ live = {}
    /\ dccs = EmptyList
    /\ hash = Password
    /\ cfgType = StartType
    /\ buffer = << >>
    /\ size = "start"
    /\ record = "first"
    /\ old = {}
    /\ rset = {} /\ wset = {}
    /\ hup = {}
    /\ pc = "fdset"
    /\ at = Null

-----------------------------------------------------------------------------
\* The top of an iteration.  Only NonBlockConnect sessions enter the write set.
FdSet ==
    LET seen == ToSet(Forward(dccs))
    IN  /\ pc = "fdset"
        /\ rset' = {s \in seen : sess[s].sock # "none" /\ sess[s].status >= NotReady}
        /\ wset' = {s \in seen : sess[s].status = NonBlockConnect}
        /\ sess' = [s \in Addr |->
                      [sess[s] EXCEPT !.status =
                         IF s \in rset' /\ @ = NotReady THEN Connected
                         ELSE IF s \in wset' THEN WaitingConnect ELSE @]]
        /\ pc' = "select"
        /\ UNCHANGED <<live, dccs, old, hup, users, input, record, at>>

\* The peer of a session closes its end.
HangUp(s) ==
    /\ pc = "select"
    /\ s \in live \ hup
    /\ sess[s].status >= NotReady
    /\ hup' = hup \cup {s}
    /\ UNCHANGED <<sess, live, dccs, old, users, input, record, sets, pc, at>>

\* select() reports some ready descriptors; a closed connection is readable.
Select ==
    /\ pc = "select"
    /\ rset' \in {r \in SUBSET rset : hup \cap rset \subseteq r}
    /\ wset' \in SUBSET wset
    /\ pc' = "irc"
    /\ UNCHANGED <<sessions, users, input, record, at>>

\* Mutant of NewIdx: the greatest id is given out a second time.
NewIdxKept ==
    LET n == Len(dccs.items)
    IN  IF dccs = EmptyList THEN 1
        ELSE Max({sess[dccs.items[i]].idx : i \in 1..(n - 1)}
                    \cup {sess[dccs.items[1]].idx})

\* The id of an outgoing session: the scan starts with the first element's
\* id and its loop stops before it has looked at the last element.
NewIdx ==
    LET n == Len(dccs.items)
    IN  IF dccs = EmptyList THEN 1
        ELSE 1 + Max({sess[dccs.items[i]].idx : i \in 1..(n - 1)}
                        \cup {sess[dccs.items[1]].idx})

\* The network's server is heard until a rehash: the new record has no tsocket.
Online == record = "first"

\* A CTCP DCC CHAT request: connect() is in progress (or done), the session
\* joins the list.  A connect() that fails at once changes nothing.
InitiateDccChat(a) ==
    /\ pc = "irc"
    /\ Online
    /\ a \notin live
    /\ NewIdx <= MaxIdx
    /\ sess' = [sess EXCEPT ![a] = OpenSession(NonBlockConnect, NewIdx)]
    /\ live' = live \cup {a}
    /\ dccs' = ListAdd(dccs, a)
    /\ UNCHANGED <<old, hup, users, input, record, sets, pc, at>>

\* The listener is readable: accept(), then the walk over net->dccs starts.
\* malloc() may return a block that is freed and still linked: see ReadsFreed.
NewDccConnection(a) ==
    /\ pc = "irc"
    /\ a \notin live \cup Members(dccs)
    /\ sess' = [sess EXCEPT ![a] = OpenSession(NotReady, -1)]
    /\ live' = live \cup {a}
    /\ dccs' = ListAdd(dccs, a)
    /\ pc' = "walk"
    /\ at' = First(dccs', Null)
    /\ UNCHANGED <<old, hup, users, input, record, sets>>

\* "/msg bot pass <word>": a known user without a password sets one.  The
\* crypto module that makes the hash is there until a rehash, as the server is.
NewUserPass(u, w) ==
    /\ pc = "irc"
    /\ Online
    /\ hash[u] = NoHash
    /\ hash' = [hash EXCEPT ![u] = <<w>>]
    /\ UNCHANGED <<sessions, cfgType, input, record, sets, pc, at>>

NoNewConnection ==
    /\ pc = "irc"
    /\ pc' = "walk"
    /\ at' = First(dccs, Null)
    /\ UNCHANGED <<sessions, users, input, record, sets>>

-----------------------------------------------------------------------------
\* Mutant of RemoveSession: the session is freed and stays linked.
RemoveSessionKeepsLink(s, listed) ==
    /\ sess' = [sess EXCEPT ![s] = BlankSession]
    /\ live' = live \ {s}
    /\ hup' = hup \ {s}
    /\ UNCHANGED <<dccs, old>>

\* net->dccs = dcc_list_del(net->dccs, s); free_dcc_session(s).  listed says
\* that net is the record in use: the one a rehash has replaced has no list, and
\* the session is freed where it is linked.  What freed memory holds is forgotten.
RemoveSession(s, listed) ==
    /\ IF listed THEN dccs' = ListDel(dccs, s) /\ old' = old \ {s}
                 ELSE UNCHANGED <<dccs, old>>
    /\ sess' = [sess EXCEPT ![s] = BlankSession]
    /\ live' = live \ {s}
    /\ hup' = hup \ {s}

\* The loop keeps its net over the pass in which a session rehashes the bot.
LoopIsCurrent == record # "moved"

\* What the rest of the loop body reads of the session at: dcc->next.
NextSession == Successor(dccs, at, Null)

Standing == pc = "walk" /\ at \in live

SelectedForRead == at \in rset /\ sess[at].status > NotReady

SelectedForWrite == at \in wset /\ sess[at].status = WaitingConnect

\* The size that tcrealloc0 sets when it makes room behind a fragment.
Grown == IF buffer # << >> /\ size = "start" THEN "own" ELSE size

\* A size that was set for another text: tcrealloc0 takes the fragment for
\* shorter than it is and clears its end, or clears nothing behind it.
Misjudged == buffer # << >> /\ size = "other"

Piece == {<< >>} \cup {<<w>> : w \in Word}

\* What is left of the fragment.
Fragment ==
    IF Misjudged
    THEN {buffer} \cup {SubSeq(buffer, 1, i) \o x : i \in 0..(Len(buffer) - 1), x \in Piece}
    ELSE {buffer}

\* recv() fails: the buffer is dropped, whoever sent what it held.
RecvError ==
    /\ Standing
    /\ SelectedForRead
    /\ at \notin hup
    /\ buffer' = << >>
    /\ size' = IF buffer = << >> THEN size ELSE "other"
    /\ at' = NextSession
    /\ UNCHANGED <<sessions, users, record, sets, pc>>

\* Mutants of RecvClosed: the walk keeps the freed pointer; the return value
\* is ignored.
RecvClosedKeepsPointer ==
    /\ Standing
    /\ SelectedForRead
    /\ at \in hup
    /\ RemoveSession(at, LoopIsCurrent)
    /\ UNCHANGED <<users, input, record, sets, pc, at>>

RecvClosedIgnored ==
    /\ Standing
    /\ SelectedForRead
    /\ at \in hup
    /\ at' = NextSession
    /\ UNCHANGED <<sessions, users, input, record, sets, pc>>

\* recv() returns 0: the session is removed; the buffer is not.
RecvClosed ==
    /\ Standing
    /\ SelectedForRead
    /\ at \in hup
    /\ RemoveSession(at, LoopIsCurrent)
    /\ buffer' \in Fragment
    /\ size' = IF buffer = << >> THEN "start" ELSE Grown
    /\ at' = NextSession
    /\ UNCHANGED <<users, record, sets, pc>>

\* recv() returns data: it is put behind whatever the buffer holds.
RecvData(c) ==
    /\ Standing
    /\ SelectedForRead
    /\ at \notin hup
    /\ Len(buffer) <= MaxLeftover
    /\ \E kept \in Fragment, junk \in IF Misjudged THEN Piece ELSE {<< >>} :
          buffer' = kept \o c \o junk
    /\ size' = Grown
    /\ pc' = "parse"
    /\ UNCHANGED <<sessions, users, record, sets, at>>

\* The outgoing connection is up, or SO_ERROR says it failed.
ConnectOk ==
    /\ Standing
    /\ SelectedForWrite
    /\ sess' = [sess EXCEPT ![at].status = NotReady]
    /\ at' = NextSession
    /\ UNCHANGED <<live, dccs, old, hup, users, input, record, sets, pc>>

ConnectFailed ==
    /\ Standing
    /\ SelectedForWrite
    /\ RemoveSession(at, LoopIsCurrent)
    /\ at' = NextSession
    /\ UNCHANGED <<users, input, record, sets, pc>>

NothingToDo ==
    /\ Standing
    /\ ~SelectedForRead
    /\ ~SelectedForWrite
    /\ at' = NextSession
    /\ UNCHANGED <<sessions, users, input, record, sets, pc>>

\* The walk stands on a session that is freed: it reads what free() has left
\* there and goes on, or frees it once more.
MeetsFreed ==
    /\ pc = "walk" /\ at \notin live \cup {Null}
    /\ \/ at' = NextSession /\ UNCHANGED pc
       \/ pc' = "fault" /\ UNCHANGED at
    /\ UNCHANGED <<sessions, users, input, record, sets>>

\* The scans for the descriptors and for the end of the list read the freed
\* sessions too, and a block that is linked twice makes the list a ring.
ReadsFreed ==
    /\ pc \in {"fdset", "irc"}
    /\ ~(ToSet(Forward(dccs)) \subseteq live)
    /\ pc' = "fault"
    /\ UNCHANGED <<sessions, users, input, record, sets, at>>

\* The next iteration starts with FD_ZERO on both sets, and with the networks
\* of the configuration in use.
WalkEnd ==
    /\ pc = "walk" /\ at = Null
    /\ pc' = "fdset"
    /\ rset' = {} /\ wset' = {}
    /\ record' = IF record = "moved" THEN "new" ELSE record
    /\ UNCHANGED <<sessions, users, input, at>>

-----------------------------------------------------------------------------
\* The loop of dcc_in: the first line, and what is left after its newline and
\* the newlines that follow it.
HasLine(b) == \E i \in DOMAIN b : b[i] = NL

LineEnd(b) == CHOOSE i \in DOMAIN b :
                 b[i] = NL /\ \A j \in 1..(i - 1) : b[j] # NL

FirstLine(b) == SubSeq(b, 1, LineEnd(b) - 1)

LineRest(b) ==
    LET k == CHOOSE i \in (LineEnd(b) + 1)..(Len(b) + 1) :
                /\ i \in DOMAIN b => b[i] # NL
                /\ \A j \in (LineEnd(b) + 1)..(i - 1) : b[j] = NL
    IN  SubSeq(b, k, Len(b))

\* parse_dcc_line is about to handle the first line of the buffer.
LineReady(status) ==
    /\ pc = "parse"
    /\ HasLine(buffer)
    /\ sess[at].status = status

\* A buffer with nothing left is freed, its size is not reset.
TakeLine ==
    /\ buffer' = LineRest(buffer)
    /\ size' = IF LineRest(buffer) # << >> THEN "own"
               ELSE IF size = "own" THEN "other" ELSE size

\* dcc->net->users: a replaced record has none.
UsersOf(s) == IF s \in old THEN {} ELSE User

\* egg_passwdok: an empty line or "-" only asks whether a password is set; for
\* any other there must be a crypto module, which a rehash drops.
PasswdOk(s, line) ==
    LET u == sess[s].user
    IN  /\ u \in UsersOf(s)
        /\ hash[u] # NoHash
        /\ line \in {<< >>, <<Dash>>} \/ (record = "first" /\ hash[u] = line)

\* The hash a successful login leaves: re-made when the configured hash type is
\* not the stored one, which only a rehash can bring, and then there is nothing
\* to make it with.
ConvertHash(u) ==
    IF cfgType = StartType THEN hash ELSE [hash EXCEPT ![u] = NoHash]

\* Mutant of GiveUsername: the flag p is not asked for.
GiveAnyUsername ==
    /\ LineReady(Connected)
    /\ \E u \in UsersOf(at) :
         /\ FirstLine(buffer) = <<u>>
         /\ sess' = [sess EXCEPT ![at].user = u, ![at].status = HasUsername]
    /\ TakeLine
    /\ UNCHANGED <<live, dccs, old, hup, users, record, sets, pc, at>>

GiveUsername ==
    /\ LineReady(Connected)
    /\ \E u \in Partyline \cap UsersOf(at) :
         /\ FirstLine(buffer) = <<u>>
         /\ sess' = [sess EXCEPT ![at].user = u, ![at].status = HasUsername]
    /\ TakeLine
    /\ UNCHANGED <<live, dccs, old, hup, users, record, sets, pc, at>>

GivePassword ==
    /\ LineReady(HasUsername)
    /\ PasswdOk(at, FirstLine(buffer))
    /\ cfgType # NoType
    /\ hash' = ConvertHash(sess[at].user)
    /\ sess' = [sess EXCEPT ![at].status = Authenticated]
    /\ TakeLine
    /\ UNCHANGED <<live, dccs, old, hup, cfgType, record, sets, pc, at>>

\* A command or a partyline message that changes no session.
GiveCommand ==
    /\ LineReady(Authenticated)
    /\ TakeLine
    /\ UNCHANGED <<sessions, users, record, sets, pc, at>>

\* .rehash: a new record gets the list, the users and the listener, under the
\* loop that walks over it; the sessions keep the record they were opened with.
Rehash ==
    /\ LineReady(Authenticated)
    /\ TakeLine
    /\ old' = Members(dccs)
    /\ record' = "moved"
    /\ cfgType' \in HashType \cup {NoType}
    /\ UNCHANGED <<sess, live, dccs, hup, hash, sets, pc, at>>

\* An unknown user, a user without the flag p, a wrong password.
Refused ==
    \/ /\ LineReady(Connected)
       /\ \A u \in Partyline \cap UsersOf(at) : FirstLine(buffer) # <<u>>
    \/ /\ LineReady(HasUsername)
       /\ hash[sess[at].user] # NoHash
       /\ ~PasswdOk(at, FirstLine(buffer))

\* The session is closed, unlinked and freed inside parse_dcc_line; dcc_in
\* and the loop go on with the freed pointer.  With no further line they only
\* read its status and its next link, which free() leaves in place.
RefuseLogin ==
    /\ Refused
    /\ ~HasLine(LineRest(buffer))
    /\ RemoveSession(at, at \notin old)
    /\ TakeLine
    /\ pc' = "walk"
    /\ at' = NextSession
    /\ UNCHANGED <<users, record, sets>>

\* With another line in the buffer parse_dcc_line runs on the freed session;
\* without one the allocator may have overwritten the two fields; and a user
\* without a password hash is refused and then compared all the same.
UseAfterFree ==
    /\ \/ Refused
       \/ LineReady(HasUsername) /\ hash[sess[at].user] = NoHash
    /\ RemoveSession(at, at \notin old)
    /\ pc' = "fault"
    /\ UNCHANGED <<users, input, record, sets, at>>

\* strcmp() with no hash_type; and a command, or the saving of a converted hash,
\* may ask for the flags of a user of a replaced record (dcc_command_handler, and
\* dcc_log_filter_handler for whatever is logged), where users is NULL.
ReadsNull ==
    /\ LET converts == /\ LineReady(HasUsername)
                       /\ PasswdOk(at, FirstLine(buffer))
                       /\ cfgType # StartType
       IN  \/ converts /\ cfgType = NoType
           \/ old # {} /\ (converts \/ LineReady(Authenticated))
    /\ pc' = "fault"
    /\ UNCHANGED <<sessions, users, input, record, sets, at>>

\* Mutant of ParseEnd: only one line is taken of what was received.
ParseEndEarly ==
    /\ pc = "parse"
    /\ pc' = "walk"
    /\ at' = NextSession
    /\ UNCHANGED <<sessions, users, input, record, sets>>

ParseEnd ==
    /\ pc = "parse"
    /\ ~HasLine(buffer)
    /\ pc' = "walk"
    /\ at' = NextSession
    /\ UNCHANGED <<sessions, users, input, record, sets>>

-----------------------------------------------------------------------------
DccIn ==
    \/ RecvError \/ RecvClosed \/ (\E c \in Chunk : RecvData(c))
    \/ GiveUsername \/ GivePassword \/ GiveCommand \/ Rehash
    \/ RefuseLogin \/ UseAfterFree \/ ReadsNull \/ ParseEnd

Walk ==
    \/ DccIn
    \/ ConnectOk \/ ConnectFailed \/ NothingToDo \/ MeetsFreed \/ WalkEnd

Loop ==
    \/ FdSet \/ Select
    \/ (\E a \in Addr : NewDccConnection(a) \/ InitiateDccChat(a))
    \/ (\E u \in User, w \in Word : NewUserPass(u, w))
    \/ NoNewConnection
    \/ ReadsFreed
    \/ Walk

Next == Loop \/ \E s \in Addr : HangUp(s)

\* The loop never blocks but in select(), which returns once a polled peer
\* has closed.  Nothing is assumed of the peers.
Progress == Loop /\ (pc = "select" => hup \cap rset # {})

Spec == Init /\ [][Next]_vars /\ WF_vars(Progress)
-----------------------------------------------------------------------------
\* Memory discipline of net->dccs: no session that is allocated is ever lost
\* from the list, whatever order connections, refusals, disconnects and rehashes
\* come in, and a link to a freed one is left only where a rehash has put the
\* session under a record it does not know (dcc_list_del on dcc->net or on the
\* loop's net).
ListHoldsLiveSessions ==
    /\ live \subseteq Members(dccs)
    /\ Members(dccs) \ live \subseteq old

\* The loop's own pointer: while it walks or parses, at is a session that a
\* walk from the list of the record in use still meets, although deletions move
\* net->dccs and a rehash moves it away; dcc_in only ever reads allocated ones,
\* and the walk stands on a freed one only behind a rehash.
WalkStaysInList ==
    pc \in {"walk", "parse"} /\ at # Null =>
        /\ InForward(dccs, at)
        /\ at \in live \/ (pc = "walk" /\ at \in old)

\* No session without a descriptor is ever allocated between two steps, so
\* select() is given the descriptors of allocated sessions only: freed ones that
\* are still linked after a rehash have none.
ListedSessionsHaveSockets ==
    /\ \A s \in live : sess[s].sock = "open" /\ sess[s].status # Waiting
    /\ pc \in {"select", "irc"} => rset \cup wset \subseteq live

\* A logged-in session belongs to a user with the flag p, who has a password as
\* long as no rehash has taken the crypto module away (a login then annuls it,
\* dcc.c:697), and nobody has a user who has not named one.
LoginIsBackedByUser ==
    \A s \in live :
        /\ sess[s].status >= HasUsername => sess[s].user \in Partyline
        /\ sess[s].status = Authenticated /\ record = "first" => hash[sess[s].user] # NoHash
        /\ sess[s].status < HasUsername => sess[s].user = NoUser

\* Only an unfinished line survives dcc_in: no complete line waits in the
\* buffer for the next, unrelated, recv().
NoLineLeftBehind == pc \notin {"parse", "fault"} => ~HasLine(buffer)

\* A session whose peer has closed is freed, as long as the walk from
\* net->dccs reaches it; one that has come to stand in front of the kept
\* pointer may never be.
ClosedPeersAreReaped ==
    \A s \in Addr :
        s \in hup /\ InForward(dccs, s)
            ~> s \notin hup \/ ~InForward(dccs, s) \/ pc = "fault"
=============================================================================
