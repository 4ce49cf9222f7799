------------------------------- MODULE Channels -----------------------------
(***************************************************************************)
(* What the bot believes about the channels of one network: the records of *)
(* net->chans with their users and bans (channel.c), and the handlers that *)
(* update them from the server's lines (irc_proto.c, troll_lib.c), as      *)
(* trigger_match (irc_trigger.c) dispatches them.                          *)
(*                                                                         *)
(* on, op, banned and topic are the server's truth.  The lines of a connection    *)
(* arrive in order and parse_irc_line runs the handler of one line to its  *)
(* end, so an action is an event at the server and the handler of the line *)
(* that tells of it.  While the bot is not in c, on[c] = {}: the server    *)
(* tells it nothing.                                                       *)
(*                                                                         *)
(* Names that differ in letter case only are not told apart, of the modes  *)
(* of a user only o is kept (v is treated alike), and the bot keeps its    *)
(* nick.                                                                   *)
(***************************************************************************)
EXTENDS Integers, FiniteSets, CursorList

CONSTANTS Nick, Bot,  \* the users, and the bot among them
          Chan,       \* the channels of the network
          Mask,       \* the ban masks
          Topic,      \* the topics
          World,      \* what may be given: the channels of the configuration, in
                      \* order, the users on the network, the masks and topics in use
          Key,        \* an argument of a mode that takes one and is not o, v, b
          None,       \* no channel, no topic; also a channel name that is NULL
          MaxUsers, MaxRecords, \* bounds: the length of a user or ban list and of chans
          MaxLapses   \* bound: the number of events the bot misses

ASSUME ChannelsAssumption ==
    /\ IsFiniteSet(Nick) /\ Bot \in Nick /\ Key \notin Nick \cup Mask
    /\ None \notin Chan \cup Topic
    /\ World \subseteq [configured : Seq(Chan), users : SUBSET Nick,
                       masks : SUBSET Mask, topics : SUBSET Topic]
    /\ \A w \in World : Bot \in w.users
    /\ MaxUsers \in Nat /\ MaxRecords \in Nat /\ MaxLapses \in Nat

VARIABLES world,  \* the one that is given
          on, op, \* for each channel, the users in it and its operators
          banned, \* the masks banned from it
          topic,  \* its topic, if it has one
          chans,  \* net->chans
          due,    \* the channel whose 332 or 353 lines follow the JOIN just sent
          untold, \* whether its 332 line is still to come
          running, \* FALSE once the program has gone through a NULL pointer
          astray, \* history: channels of which the bot missed some event
          missed, \* history: those where it missed the new name of a user
          lapses  \* history: the number of missed events

members == <<on, op>>
server == <<world, members, banned, topic>>
history == <<astray, missed, lapses>>
asked == <<due, untold>>
vars == <<server, chans, asked, running, history>>
-----------------------------------------------------------------------------
User == [nick : Nick, op : BOOLEAN]
ListOf(S) == [items : Seq(S), head : Nat]
Record == [name : Chan \cup {None}, users : ListOf(User), bans : ListOf(Mask \cup {Key}),
           topic : Topic \cup {None}]

\* The kept pointer is NULL for the empty list and points to a node otherwise.
PointsInto(l) == l.head \in 0..Len(l.items) /\ (l.head = 0 <=> l.items = << >>)

TypeOK ==
    /\ world \in World
    /\ on \in [Chan -> SUBSET Nick]
    /\ op \in [Chan -> SUBSET Nick]
    /\ banned \in [Chan -> SUBSET Mask]
    /\ topic \in [Chan -> Topic \cup {None}]
    /\ chans \in Seq(Record)
    /\ \A k \in DOMAIN chans : PointsInto(chans[k].users) /\ PointsInto(chans[k].bans)
    /\ due \in Chan \cup {None}
    /\ untold \in BOOLEAN
    /\ running \in BOOLEAN
    /\ astray \subseteq Chan /\ missed \subseteq Chan
    /\ lapses \in 0..MaxLapses

\* new_channel_user()
NewUser(n, isop) == [nick |-> n, op |-> isop]

\* new_channel()
NewChannel(c) == [name |-> c, users |-> EmptyList, bans |-> EmptyList, topic |-> None]

\* The records the configuration made; the bot is in no channel.
Init ==
    /\ world \in World
    /\ on = [c \in Chan |-> {}] /\ op = [c \in Chan |-> {}]
    /\ banned = [c \in Chan |-> {}]
    /\ topic = [c \in Chan |-> None]
    /\ chans = [k \in DOMAIN world.configured |-> NewChannel(world.configured[k])]
    /\ due = None /\ untold = FALSE
    /\ running = TRUE
    /\ astray = {} /\ missed = {} /\ lapses = 0

-----------------------------------------------------------------------------
\* The first of the positions I at or after h, 0 when there is none.
FirstFrom(h, I) ==
    IF \E i \in I : h <= i
    THEN CHOOSE i \in I : h <= i /\ \A j \in I : h <= j => i <= j
    ELSE 0

\* The record of c; nothing moves net->chans from the first record.
ChanAt(c) == FirstFrom(1, {k \in DOMAIN chans : chans[k].name = c})

\* A walk from the list's kept pointer that looks for nick n, or for mask m.
UserAt(l, n) == FirstFrom(l.head, {i \in DOMAIN l.items : l.items[i].nick = n})
BanAt(l, m) == FirstFrom(l.head, {i \in DOMAIN l.items : l.items[i] = m})

\* The user or ban list of c in the bot's view.
UsersOf(c) == chans[ChanAt(c)].users
BansOf(c) == chans[ChanAt(c)].bans

SetUsers(c, l) == chans' = [chans EXCEPT ![ChanAt(c)].users = l]
SetBans(c, l) == chans' = [chans EXCEPT ![ChanAt(c)].bans = l]

\* A search for c ends before it compares with a name that is NULL.
Walkable(c) ==
    \A k \in DOMAIN chans : chans[k].name = None => ChanAt(c) \in 1..(k - 1)

\* The server tells the bot about c.
Told(c) == running /\ due = None /\ Bot \in on[c]

\* The handler runs and finds the record of c.
Known(c) == Told(c) /\ Walkable(c) /\ ChanAt(c) # 0

HasRoom(l) == Len(l.items) < MaxUsers

\* The bot misses an event of the channels A, or writes into their records what
\* the server has not said; of those in M it misses a new name.
Lapse(A, M) ==
    /\ astray' = astray \cup A
    /\ missed' = missed \cup M
    /\ lapses' = IF A = {} THEN lapses ELSE lapses + 1
    /\ lapses' <= MaxLapses

\* The event is in the view of c exactly when ok.
Noted(c, ok) == Lapse(IF ok THEN {} ELSE {c}, {})
-----------------------------------------------------------------------------
\* new_join: the found record stays, with its modes.
NewJoin(c, n) ==
    IF ChanAt(c) = 0 THEN UNCHANGED chans
    ELSE LET l == UsersOf(c)
         IN  IF UserAt(l, n) # 0 THEN UNCHANGED chans
             ELSE HasRoom(l) /\ SetUsers(c, ListAdd(l, NewUser(n, FALSE)))

UserJoins(c, n) ==
    /\ Told(c) /\ Walkable(c)
    /\ n \in world.users \ on[c]
    /\ on' = [on EXCEPT ![c] = @ \cup {n}]
    /\ NewJoin(c, n)
    /\ UNCHANGED <<world, op, banned, topic, asked, running, history>>

\* The bot enters c, which join_channels, .+chan or a forward made it ask for,
\* and finds the users S, operators O, bans B and topic t.
BotJoins(c, S, O, B, t) ==
    /\ running /\ due = None /\ Bot \notin on[c]
    /\ Walkable(c)
    /\ on' = [on EXCEPT ![c] = S \cup {Bot}]
    /\ op' = [op EXCEPT ![c] = O]
    /\ banned' = [banned EXCEPT ![c] = B]
    /\ topic' = [topic EXCEPT ![c] = t]
    /\ NewJoin(c, Bot)
    /\ due' = c /\ untold' = (t # None)
    /\ UNCHANGED <<world, running, history>>

\* The server goes on with what it tells a bot that has entered c.
Asked(c, b) == running /\ due = c /\ untold = b /\ Walkable(c)

BotEnters(c) ==
    \E S \in SUBSET (world.users \ {Bot}) : \E O \in SUBSET (S \cup {Bot}) :
      \E B \in SUBSET world.masks, t \in world.topics \cup {None} : BotJoins(c, S, O, B, t)

\* Mutant of WithTopic: a topic that is known is kept.
WithTopicOnce(c, t) ==
    IF ChanAt(c) = 0 \/ chans[ChanAt(c)].topic # None THEN chans
    ELSE [chans EXCEPT ![ChanAt(c)].topic = t]

\* The channel's record, if it has one, takes the topic.
WithTopic(c, t) ==
    IF ChanAt(c) = 0 THEN chans ELSE [chans EXCEPT ![ChanAt(c)].topic = t]

\* channel_set_topic: the 332 line, which comes before the names; a server sends
\* none for a channel without a topic.
TopicReply(c) ==
    /\ Asked(c, TRUE)
    /\ chans' = WithTopic(c, topic[c])
    /\ untold' = FALSE
    /\ UNCHANGED <<server, due, running, history>>

\* Mutant of Listed: a user who has a record keeps the modes it had.
ListedOnce(l, s, O) ==
    LET new == Picked(s, {i \in DOMAIN s : UserAt(l, s[i]) = 0})
    IN  [items |-> l.items \o [i \in DOMAIN new |-> [nick |-> new[i], op |-> new[i] \in O]],
         head  |-> IF l.head = 0 THEN 1 ELSE l.head]

\* The list l after the names s, of whom O are shown with @: a record that is
\* found takes the modes shown, the others are appended in the order of s.
Listed(l, s, O) ==
    LET new == Picked(s, {i \in DOMAIN s : UserAt(l, s[i]) = 0})
        old == [i \in DOMAIN l.items |->
                  IF i = UserAt(l, l.items[i].nick) /\ l.items[i].nick \in ToSet(s)
                  THEN [l.items[i] EXCEPT !.op = l.items[i].nick \in O]
                  ELSE l.items[i]]
    IN  [items |-> old \o [i \in DOMAIN new |-> NewUser(new[i], new[i] \in O)],
         head  |-> IF l.head = 0 THEN 1 ELSE l.head]

\* channel_list_add, of a new record.
WithRecord(records, c) == Append(records, NewChannel(c))

\* The server names the users of c in some order.
Orders == SetToAllKPermutations(Nick)
NamesOf(c, s) == ToSet(s) = on[c]

\* channel_list_populate, for a channel that has a record.
NamesReply(c, s) ==
    /\ Asked(c, FALSE) /\ ChanAt(c) # 0
    /\ NamesOf(c, s)
    /\ LET l == Listed(UsersOf(c), s, op[c])
       IN  Len(l.items) <= MaxUsers /\ SetUsers(c, l)
    /\ due' = None
    /\ UNCHANGED <<server, untold, running, history>>

\* For one that has none: a record is appended, and the loop over the names
\* goes on with the record that was the last.
NamesReplyUnknown(c, s) ==
    /\ Asked(c, FALSE) /\ ChanAt(c) = 0 /\ chans # << >>
    /\ NamesOf(c, s)
    /\ Len(chans) < MaxRecords
    /\ LET last == Len(chans)
           l == Listed(chans[last].users, s, op[c])
       IN  /\ Len(l.items) <= MaxUsers
           /\ chans' = WithRecord([chans EXCEPT ![last].users = l], c)
           /\ Lapse({c, chans[last].name} \cap Chan, {c})
    /\ due' = None
    /\ UNCHANGED <<server, untold, running>>

\* troll_trig_update_topic, for a TOPIC line; trigger_match runs no handler for
\* one whose text is empty, which takes the topic away.
TopicChanges(c, t) ==
    /\ Told(c) /\ t \in (world.topics \cup {None}) \ {topic[c]}
    /\ topic' = [topic EXCEPT ![c] = t]
    /\ IF t = None THEN UNCHANGED chans
       ELSE Walkable(c) /\ chans' = WithTopic(c, t)
    /\ UNCHANGED <<world, members, banned, asked, running, history>>

\* troll_parse_who: one line of the answer to WHO.
WhoReply(c, n) ==
    /\ Known(c) /\ n \in on[c]
    /\ UserAt(UsersOf(c), n) = 0
    /\ HasRoom(UsersOf(c))
    /\ SetUsers(c, ListAdd(UsersOf(c), NewUser(n, FALSE)))
    /\ Noted(c, FALSE)
    /\ UNCHANGED <<server, asked, running>>

-----------------------------------------------------------------------------
\* At the server, n leaves c; of a channel the bot has left it hears no more.
LeftAtServer(c, n) ==
    /\ on' = [on EXCEPT ![c] = IF n = Bot THEN {} ELSE @ \ {n}]
    /\ op' = [op EXCEPT ![c] = IF n = Bot THEN {} ELSE @ \ {n}]
    /\ banned' = [banned EXCEPT ![c] = IF n = Bot THEN {} ELSE @]
    /\ topic' = [topic EXCEPT ![c] = IF n = Bot THEN None ELSE @]

\* new_part and new_kick: the found record is unlinked and freed.
Removed(c, n) ==
    LET l == UsersOf(c)
        i == UserAt(l, n)
    IN  IF i = 0 THEN UNCHANGED chans ELSE SetUsers(c, RemoveNode(l, i))

UserParts(c, n) ==
    /\ Known(c) /\ n \in on[c]
    /\ LeftAtServer(c, n)
    /\ Removed(c, n)
    /\ Noted(c, n # Bot /\ UserAt(UsersOf(c), n) # 0)
    /\ UNCHANGED <<world, asked, running>>

\* A PART without a reason has no trailing parameter, and trigger_match runs no
\* handler for it.
UserPartsSilently(c, n) ==
    /\ Told(c) /\ n \in on[c]
    /\ LeftAtServer(c, n)
    /\ Noted(c, FALSE)
    /\ UNCHANGED <<world, chans, asked, running>>

\* A kicked bot sends JOIN at once: BotJoins may follow.
UserKicked(c, n) ==
    /\ Known(c) /\ n \in on[c]
    /\ LeftAtServer(c, n)
    /\ Removed(c, n)
    /\ Noted(c, n # Bot /\ UserAt(UsersOf(c), n) # 0)
    /\ UNCHANGED <<world, asked, running>>

\* trigger_match has no branch that runs new_quit.
UserQuits(n) ==
    /\ running /\ due = None /\ n # Bot
    /\ \E c \in Chan : n \in on[c]
    /\ on' = [c \in Chan |-> on[c] \ {n}]
    /\ op' = [c \in Chan |-> op[c] \ {n}]
    /\ Lapse({c \in Chan : n \in on[c]}, {})
    /\ UNCHANGED <<world, banned, topic, chans, asked, running>>

\* The connection closes, and the loop calls tsocket_disconnect_cb, which is NULL.
Disconnected ==
    /\ running
    /\ running' = FALSE
    /\ UNCHANGED <<server, chans, asked, history>>

Renamed(S, n, m) == IF n \in S THEN (S \ {n}) \cup {m} ELSE S

\* Mutant of RenamedIn: the record of the old nick is dropped, as after a QUIT.
RenamedDropped(l, n, m) ==
    LET i == UserAt(l, n)
    IN  IF i = 0 THEN l ELSE RemoveNode(l, i)

RenamedIn(l, n, m) ==
    LET i == UserAt(l, n)
    IN  IF i = 0 THEN l ELSE [l EXCEPT !.items[i].nick = m]

\* troll_trig_update_nick: in every record, the node that is found.
UserRenames(n, m) ==
    /\ running /\ due = None /\ Bot \notin {n, m}
    /\ \E c \in Chan : n \in on[c]
    /\ m \in world.users /\ \A c \in Chan : m \notin on[c]
    /\ on' = [c \in Chan |-> Renamed(on[c], n, m)]
    /\ op' = [c \in Chan |-> Renamed(op[c], n, m)]
    /\ chans' = [k \in DOMAIN chans |->
                   [chans[k] EXCEPT !.users = RenamedIn(chans[k].users, n, m)]]
    /\ LET M == {c \in Chan : n \in on[c] /\ ChanAt(c) # 0 /\ UserAt(UsersOf(c), n) = 0}
       IN  Lapse(M, M)
    /\ UNCHANGED <<world, banned, topic, asked, running>>

-----------------------------------------------------------------------------
\* troll_trig_update_mode counts the arguments of o, v and b only: a change
\* like +k before one of these makes it take the wrong argument.
Argument(x, keyed) == IF keyed THEN Key ELSE x

OpChanges(c, n, keyed) ==
    /\ Known(c) /\ n \in on[c]
    /\ op' = [op EXCEPT ![c] = IF n \in @ THEN @ \ {n} ELSE @ \cup {n}]
    /\ LET l == UsersOf(c)
           i == UserAt(l, Argument(n, keyed))
       IN  /\ IF i = 0 THEN UNCHANGED chans
              ELSE SetUsers(c, [l EXCEPT !.items[i].op = n \notin op[c]])
           /\ Noted(c, i # 0)
    /\ UNCHANGED <<world, on, banned, topic, asked, running>>

\* channel_ban_add
WithBan(l, m) == ListAdd(l, m)

BanSet(c, m, keyed) ==
    /\ Known(c) /\ m \in world.masks \ banned[c]
    /\ banned' = [banned EXCEPT ![c] = @ \cup {m}]
    /\ HasRoom(BansOf(c))
    /\ SetBans(c, WithBan(BansOf(c), Argument(m, keyed)))
    /\ Noted(c, ~keyed)
    /\ UNCHANGED <<world, members, topic, asked, running>>

BanLifted(c, m, keyed) ==
    /\ Known(c) /\ m \in banned[c]
    /\ banned' = [banned EXCEPT ![c] = @ \ {m}]
    /\ LET l == BansOf(c)
           i == BanAt(l, Argument(m, keyed))
       IN  /\ IF i = 0 THEN UNCHANGED chans ELSE SetBans(c, RemoveNode(l, i))
           /\ Noted(c, ~keyed /\ (m \in Members(l) => i # 0))
    /\ UNCHANGED <<world, members, topic, asked, running>>

\* Mutant of BanUnknown: the 367 line is added without the search.
BanUnknownAlways(l, m) == TRUE

BanUnknown(l, m) == BanAt(l, m) = 0

\* channel_banlist_add: one 367 line of the answer to MODE b.
BanReply(c, m) ==
    /\ Known(c) /\ m \in banned[c]
    /\ BanUnknown(BansOf(c), m)
    /\ HasRoom(BansOf(c))
    /\ SetBans(c, WithBan(BansOf(c), m))
    /\ Noted(c, m \in Members(BansOf(c)) => BanAt(BansOf(c), m) # 0)
    /\ UNCHANGED <<server, asked, running>>

\* egg_newchanban, from a script: the record comes first, then MODE +b goes out,
\* which the server answers with a MODE line of its own, or refuses.
NewChanBan(c, m) ==
    /\ running /\ due = None /\ Walkable(c) /\ ChanAt(c) # 0
    /\ m \in world.masks /\ BanAt(BansOf(c), m) = 0
    /\ HasRoom(BansOf(c))
    /\ SetBans(c, WithBan(BansOf(c), m))
    /\ Noted(c, FALSE)
    /\ UNCHANGED <<server, asked, running>>

\* troll_trig_channel_redirect, for a forward to a channel that has a record:
\* c_params[3] of the 470 line is NULL, and tstrdup() returns that.
Redirected(to) ==
    /\ running /\ due = None /\ Walkable(to) /\ ChanAt(to) # 0
    /\ Bot \notin on[to]
    /\ chans' = [chans EXCEPT ![ChanAt(to)].name = None]
    /\ UNCHANGED <<server, asked, running, history>>

\* A handler's search for c compares with the name that is NULL, or that of the 353
\* line starts at no record.
Crash(c) ==
    /\ running /\ (~Walkable(c) \/ (Asked(c, FALSE) /\ chans = << >>))
    /\ running' = FALSE
    /\ UNCHANGED <<server, chans, asked, history>>

Next ==
    \/ \E c \in Chan :
         \/ \E n \in Nick : \/ UserJoins(c, n) \/ WhoReply(c, n)
                            \/ UserParts(c, n) \/ UserPartsSilently(c, n) \/ UserKicked(c, n)
                            \/ \E keyed \in BOOLEAN : OpChanges(c, n, keyed)
         \/ BotEnters(c)
         \/ TopicReply(c)
         \/ \E t \in Topic \cup {None} : TopicChanges(c, t)
         \/ \E s \in Orders : NamesReply(c, s) \/ NamesReplyUnknown(c, s)
         \/ \E m \in Mask : \/ BanReply(c, m) \/ NewChanBan(c, m)
                            \/ \E keyed \in BOOLEAN : BanSet(c, m, keyed) \/ BanLifted(c, m, keyed)
         \/ Redirected(c)
         \/ Crash(c)
    \/ \E n, m \in Nick : UserRenames(n, m)
    \/ \E n \in Nick : UserQuits(n)
    \/ Disconnected

Spec == Init /\ [][Next]_vars
-----------------------------------------------------------------------------
NicksIn(l) == {l.items[i].nick : i \in DOMAIN l.items}
OpsIn(l) == {l.items[i].nick : i \in {j \in DOMAIN l.items : l.items[j].op}}

\* No key, a nick or a mask, is in two nodes.
NoTwo(l, Same(_, _)) == \A i, j \in DOMAIN l.items : Same(l.items[i], l.items[j]) => i = j

\* The bot is in c, knows it and has its names.
Settled(c) == Bot \in on[c] /\ due # c /\ ChanAt(c) # 0

\* Everyone in a channel with the bot has a record there, through stale
\* records, second records of a nick and a kept pointer that has left the
\* front of the list; but for a user whose new nick the walk of
\* troll_trig_update_nick passed by, and a channel that had no record when its
\* names came.
NobodyIsOverlooked ==
    \A c \in Chan \ missed : Settled(c) => on[c] \subseteq NicksIn(UsersOf(c))

\* While the bot has heard of every event in a channel, its view is exact: one
\* record for each user, with the operators marked.
ViewIsExact ==
    \A c \in Chan \ astray :
        Settled(c) => LET l == UsersOf(c)
                      IN  /\ NicksIn(l) = on[c]
                          /\ OpsIn(l) = op[c]
                          /\ NoTwo(l, LAMBDA x, y : x.nick = y.nick)

\* In such a channel the ban list names no mask twice and none that is not
\* banned, whatever the order of 367 lines and MODE changes.
BansAreReal ==
    \A c \in Chan \ astray :
        Settled(c) => LET l == BansOf(c)
                      IN  /\ Members(l) \subseteq banned[c]
                          /\ NoTwo(l, LAMBDA x, y : x = y)

\* A channel that has a topic has it on record, whatever the bot has missed,
\* through a forward and a return to a channel whose record is old; but for a
\* channel that had no record when its 332 line came.  (The topic that is taken
\* away stays on record, even through a return.)
TopicIsTrue ==
    \A c \in Chan \ missed :
        Settled(c) /\ topic[c] # None => chans[ChanAt(c)].topic = topic[c]
=============================================================================
