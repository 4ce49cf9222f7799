---------------------------- MODULE ChannelQueries ---------------------------
(***************************************************************************)
(* What scripts are told about the channels (egg_lib.c: isop, isvoice,     *)
(* onchan, ischanban, isban, chanbans, channels, topic) and what is kept   *)
(* of the records: chans_to_tconfig and chans_save (channel.c) write them  *)
(* as blocks, new_chan_from_tconfig_block makes records of such blocks.    *)
(*                                                                         *)
(* The functions read net->chans and change nothing: they are operators on *)
(* the state of Channels.  A question without a channel is asked with None.*)
(***************************************************************************)
EXTENDS Channels

CONSTANT Options  \* the options of each channel's block in the configuration

\* new_chan_from_tconfig_block makes no record of a block without options.
ASSUME OptionsAssumption ==
    \A w \in World : \A k \in DOMAIN w.configured : Options[w.configured[k]] \in Seq(STRING) \ {<< >>}
-----------------------------------------------------------------------------
\* channel_channel_user_find: the node that a record has for nick n.
Finds(r, n) == UserAt(r.users, n) # 0

\* Mutant of HasOp: the modes are not looked into.
HasModes(r, n) == Finds(r, n)

HasOp(r, n) == Finds(r, n) /\ r.users.items[UserAt(r.users, n)].op

\* The records a question about channel c is put to; nothing moves net->chans
\* from the first.
Asking(c) == IF c = None THEN ToSet(chans) ELSE {chans[k] : k \in {ChanAt(c)} \ {0}}

\* isop; isvoice is alike.
IsOp(n, c) == \E r \in Asking(c) : HasOp(r, n)
BotIsOp(c) == IsOp(Bot, c)

\* onchan; its own search is that of network_channel_find.
OnChan(n, c) == \E r \in Asking(c) : Finds(r, n)
BotOnChan(c) == OnChan(Bot, c)

\* ischanban
IsChanBan(m, c) == \E r \in Asking(c) : BanAt(r.bans, m) # 0

\* isban, ispermban, isbansticky and unstick look for the ban in the same way.
\* Without a channel they answer no: there is no global list.
HasBan(m, c) == c # None /\ IsChanBan(m, c)

\* chanbans: the nodes from the kept pointer on.
ChanBans(c) == IF ChanAt(c) = 0 THEN << >> ELSE Forward(BansOf(c))

\* channels: the names in order; it does not survive a network without channels.
ChannelNames == Picked([k \in DOMAIN chans |-> chans[k].name], {k \in DOMAIN chans : chans[k].name # None})

\* topic; for a channel without a record it is empty.
TopicTold(c) == IF ChanAt(c) = 0 THEN None ELSE chans[ChanAt(c)].topic
-----------------------------------------------------------------------------
Block == [name : Chan \cup {None}, options : Seq(STRING)]

\* slist_insert_next for one option after the other, with no node to insert behind:
\* each goes before the ones that are there.
Inserted(options) == Reverse(options)

\* Only new_chan_from_tconfig_block gives a record options.
EggVars(k) ==
    IF k \in DOMAIN world.configured THEN Inserted(Options[world.configured[k]]) ELSE << >>

\* Mutant of Blocks: only records with options are written.
BlocksWithOptions ==
    Picked([k \in DOMAIN chans |-> [name |-> chans[k].name, options |-> EggVars(k)]],
           {k \in DOMAIN chans : EggVars(k) # << >>})

\* chans_to_tconfig
Blocks == [k \in DOMAIN chans |-> [name |-> chans[k].name, options |-> EggVars(k)]]

\* How chans_save ends: whether the program is still up, whether the file was opened,
\* which empties it, and the blocks it has then; of a file that is cut short they are
\* not told apart.
Outcome(up, opened, blocks) == [up |-> up, opened |-> opened, written |-> blocks]

\* named: there is a chanfile line, or all networks are saved.  Otherwise the label is
\* read through a NULL pointer, and so are the blocks of a network without channels.
\* tconfig_to_file may fail to open the file, and the writer ends the program at a
\* block whose value is NULL.
SaveOutcomes(named) ==
    IF chans = << >> \/ ~named THEN {Outcome(FALSE, FALSE, << >>)}
    ELSE {Outcome(TRUE, FALSE, << >>),
          IF \A k \in DOMAIN chans : chans[k].name # None
          THEN Outcome(TRUE, TRUE, Blocks) ELSE Outcome(FALSE, TRUE, << >>)}

\* new_chan_from_tconfig_block for each block, as for those of the configuration:
\* the records it makes, with their options.
MadeOf(blocks) ==
    LET made == Picked(blocks, {k \in DOMAIN blocks : blocks[k].options # << >>})
    IN  [k \in DOMAIN made |-> [name |-> made[k].name, options |-> Inserted(made[k].options)]]
-----------------------------------------------------------------------------
\* What a script is told holds at the server, in every channel the bot has missed
\* nothing of, whatever stands in the lists and before their kept pointers: who
\* is shown on it or as its operator is there and is one, what is shown as a ban is
\* banned, and a topic that is set is told.  While nothing was missed anywhere, this
\* holds of a question without a channel too.
AnswersAreTrue ==
    /\ \A c \in Chan \ astray : Settled(c) =>
         /\ \A n \in Nick : (OnChan(n, c) => n \in on[c]) /\ (IsOp(n, c) => n \in op[c])
         /\ \A m \in Mask : IsChanBan(m, c) \/ HasBan(m, c) => m \in banned[c]
         /\ ToSet(ChanBans(c)) \subseteq banned[c]
         /\ (BotOnChan(c) => Bot \in on[c]) /\ (BotIsOp(c) => Bot \in op[c])
         /\ c \notin missed /\ topic[c] # None => TopicTold(c) = topic[c]
    /\ astray = {} /\ due = None =>
         \A n \in Nick : /\ OnChan(n, None) => \E c \in Chan : n \in on[c]
                         /\ IsOp(n, None) => \E c \in Chan : n \in op[c]

\* When a save has written the file and the bot goes on, the file names every
\* channel the bot is in, and channels does too; and its blocks stand for the
\* configuration's: the records made of those, in that order and with those options,
\* would be made of them again, and none for a channel that was met only in a 353
\* line.  (Nothing in the program reads the file: chan_init has no caller.)
ChannelsAreSaved ==
    \A named \in BOOLEAN : \A o \in SaveOutcomes(named) : o.up /\ o.opened =>
        /\ \A c \in Chan : Bot \in on[c] /\ due # c =>
              c \in ToSet(ChannelNames) /\ \E k \in DOMAIN o.written : o.written[k].name = c
        /\ MadeOf(o.written) = [k \in DOMAIN world.configured |->
                                   [name |-> world.configured[k],
                                    options |-> Options[world.configured[k]]]]
=============================================================================
