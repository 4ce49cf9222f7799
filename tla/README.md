# Trollbot: a verification project

Trollbot is an IRC bot in C. One single-threaded process serves any number of IRC networks, an
eggdrop-like DCC partyline for each network, timers and triggers of scripts in several embedded
languages, and optional modules, all from one `select()` loop (`irc_loop` in `src/sockets.c`). This
directory holds TLA+ models of its core, TLC configurations that check them on small instances, and
TLAPS proofs that hold for every instance. Paths below are relative to the repository's `src/`
directory unless they start with `doc_dist` or `conf_dist`.

There are no threads and no locks. What makes the program hard is that every handler runs inside a walk
over a linked list that the handler may change: sessions are freed by the walk that visits them, timers by
the check that runs them, networks are replaced by a command that arrives over a session of one of them,
in the middle of the walk over its sessions. All hazards of this kind come from *long legal sequences of
calls*, which the models explore and, for the loop and its lists, the proofs cover.

## 1. Inventory

| Component | State | Operations | Interacts with |
|---|---|---|---|
| **Linked lists** (`channel.c`, `dcc.c`, `user.c`, `irc_trigger.c`, `modules/ics/ics_server.c`) | nodes with `next`/`prev`, a kept pointer that may be inside the list | `_add`, the caller's search, `_del` (returns the node before the deleted one), free | every component below owns such lists |
| **DCC partyline** (`dcc.c`, `sockets.c`, `egg_lib.c`) | `net->dccs`, status, socket, id and user of each session, one static input buffer, the users' password hashes | accept, CTCP chat (`initiate_dcc_chat`), `dcc_in`, `parse_dcc_line` (user name, password, command), hash conversion, removal | users (login), rehash (the list moves to a new network record), console log |
| **IRC connections** (`tsocket.c`, `network.c`, `sockets.c`, `irc.c`) | `net->status`, `net->tsock`, the tsocket status machine, `g_cfg->tsockets` | `network_connect` over the server list, polling, completion of a non-blocking connect, registration, reading, disconnection, reconnect branch | rehash, every sender (`net->tsock`) |
| **Timers** (`t_timer.c`, `egg_lib.c`, `sockets.c`) | `net->timers`, expiry of each timer | `utimer`, `t_timers_check`, `t_timer_remove` | scripts (a command may set timers), network status (`NET_IDLE` gates the check) |
| **Channels** (`channel.c`, `irc_proto.c`, `troll_lib.c`) | users, modes, bans and topic of each channel, as the bot sees them | JOIN, PART, KICK, NICK, MODE, NAMES, WHO, topic numerics | triggers (each handler is one), server |
| **Triggers** (`irc_trigger.c`, `egg_lib.c`) | a table of lists by kind of event | bind, unbind, match and dispatch | every incoming event, scripts |
| **Users** (`user.c`, `egg_lib.c`, `irc_proto.c`) | handles, hosts, flags, password hashes; the user file | `hello`, `pass`, `goodbye`, adduser, chhandle, matchattr, save | login, rehash |
| **Configuration** (`tconfig.c`, `config_engine.c`) | a tree of blocks; the structs built from it | read, merge with the defaults, free, write, build networks | start-up, rehash, user and channel files |
| **Rehash** (`egg_lib.c` `egg_rehash`) | the old and the new configuration | match networks by label, move fields, replace `g_cfg` | everything that holds a network pointer |
| **IRC input** (`irc.c`) | a static buffer | `irc_in`, line splitting into `irc_data` | triggers |
| **Logging** (`log_filter.c`, `log_entry.c`, `debug.c`) | filters | match, format, write | partyline, files |
| **Matching** (`util.c`, `troll_lib.c`) | none | `matchwilds`, `troll_matchwilds` | triggers, users, log filters |
| **Script embeddings** (`tcl_*`, `js_*`, `php_*`, `perl_*`, `python_*`) | an interpreter, context or object for each network; script arrays | commands that call `egg_lib.c`, event handlers, loading | every other component, rehash |
| **Modules** (`modules/`) | ICS, XMPP and HTTP servers, a log filter | own protocols | loop (partly) |
| **Ciphers and hashes** (`modules/crypto/`) | none | md5, sha512, blowfish | passwords |
| **Start-up and exit** (`main.c`, `die.c`) | none of their own | | |

What makes each correct:

- *Lists*: the links always represent the sequence of additions and removals; a deletion frees the
  node its caller found and no other; nothing leaks or dangles, wherever the kept pointer stands.
- *Partyline*: no allocated session is lost from `net->dccs`; a link to a freed one, or a walk that
  stands on one, has a `.rehash` behind it; a login is backed by a user with the flag `p`, and with a
  password until a rehash drops the crypto module; every complete line is handled in the call that
  received it; a closed connection is freed.
- *Connections*: what is polled is allocated, open, and known to a network of the current
  configuration; registration is sent exactly once on a connection; a network that should be
  connected is tried.
- *Timers*: only a rehash loses timers; each runs once, when its second has come, in order of expiry.
- *Channels*: the bot's view of a channel equals the server's once its messages have been read.
- *Input*: a network's lines reach its triggers whole, once and in order; a line's fields are the line.
- *Triggers*: those that are due when a walk begins run, once each, unless a handler removes them; no
  mask is bound twice where that is not allowed.
- *Users*: an announced password is set and saved, and nobody gets in as a user who was told of none;
  nobody drops out but by a rehash that does not recognise the network.
- *Configuration*: the merge loses nothing, what is written is read as the same tree.
- *Scripts*: a call does what it says on the network it is for; what a script has bound is heard.
- *Rehash*: what was open before is served after it, and belongs to the new records.

## 2. Plan

| Order | Module | Composes | Abstract specification | Theorems |
|---|---|---|---|---|
| 1, done | `CursorList`, `TrollList` | | `ListSpec` | types, links, no dangling pointer, refinement |
| 2, done | `DccSessions`, `DccQueries` | `CursorList` | | types, memory discipline, login, lines, what is told of the sessions |
| 3, done | `Timers` | | | types, no timer lost, once and in order |
| 4, done | `Connections` (connections and rehash) | | | types, ownership, registration |
| 5, done | `Listener` | `Connections` | `Connections`, which it implements | one listener, implementation |
| 6, done | `Channels`, `ChannelQueries` (with the channel file) | `CursorList` | the server's truth | types, nobody is overlooked, exact view, bans, topics, answers, channel file |
| 7, done | `Matching` | | the language of the masks | positions stay inside, matches are real, clear masks match |
| 8, done | `IrcInput` | | the lines as they were sent | types and bounds of buffer and words, lines in order, fragments kept, tidy lines found whole |
| 9, done | `Triggers` | `CursorList` | | types, due triggers run, one trigger for a mask |
| 10, checked | `TConfig` | | the union of two trees | (recursion over data stays with TLC) |
| 11, done | `Users` (with the user file, its interruption and the rehash) | | | types, logins were told, nobody is forgotten, what was told is saved |
| 12, done | `ScriptCalls`, `Scripts` (with the rehash) | | the documented commands | types, calls reach their network, every script is heard |

The rehash has no module of its own: it is an action of `DccSessions` (from within the walk that it
pulls the list from under), `Timers`, `Connections`, `Listener`, `Users` and `Scripts`. `Channels` and
`Triggers` have none: a recognised network's record takes over both lists as they are, and one that is not
recognised starts anew as `Init` does. Parameters
are constants with named assumptions, each operation is one action, invariants are conjunctions of named
parts. RECURSIVE operators are confined to `TConfig`'s reference definitions, which are not proved about.
The order puts first what every other component stands on (the lists), then the parts of the loop in
which memory and order are at stake, then what is built on them.

## 3. The modules

### CursorList, ListSpec, TrollList

All `_add` and `_del` functions have the same text. The owner keeps a pointer that is not always the
head: `_del` returns `node->prev` if there is one, so the kept pointer moves into the list, and later
searches (`while (p != NULL) p = p->next`) see only the nodes from there on.

`CursorList` is the list as a value, a sequence with a position: `ListAdd` appends, `ListDel` removes
a node the walk meets and moves the position. `TrollList` is the pointer code, one step for each loop
iteration: `AddFirst`, `AddBegin`, `AddWalk`, `AddLink` (`channel_user_add`), `FindBegin`,
`FindWalk`, `NotFound` (the caller's search), `DelBegin`, `DelWalk`, `Unlink` (`channel_user_del` and
the caller's `free`). Memory that `free` has released keeps its links until it is allocated again.
`ListSpec` is what the owner is promised; `ImplementsListSpec` says that the pointers refine it under
the mapping `AsList`. `DccSessions` builds on the value, which the refinement justifies.

### DccSessions

One network's sessions and the part of `irc_loop` that handles them. `pc` names the place in a pass
(the network is the only one of the configuration, so that a rehash finds its label again):
`fdset` (build the sets), `select`, `irc` (other callbacks, where a CTCP request may start a session
and `/msg bot pass` may set a password; then the listener), `walk` (the `while` over `net->dccs`, at
session `at`), `parse` (the loop of `dcc_in` over its lines).

| Code | Actions |
|---|---|
| `sockets.c` 293-323, 396-400 | `FdSet`, `Select` |
| `new_dcc_connection`, `initiate_dcc_chat` | `NewDccConnection`, `NoNewConnection`, `InitiateDccChat` |
| `new_user_pass` | `NewUserPass` |
| `dcc_in` | `RecvError`, `RecvClosed`, `RecvData`, `ParseEnd` |
| `parse_dcc_line` | `GiveUsername`, `GivePassword`, `GiveCommand`, `RefuseLogin`, `UseAfterFree` |
| `rehash_bot` with `egg_rehash` | `Rehash` |
| `sockets.c` 581-654 | `ConnectOk`, `ConnectFailed`, `NothingToDo`, `WalkEnd`, `MeetsFreed`, `ReadsFreed` |
| the peer | `HangUp` |

The input buffer is one for all sessions, as in the code: a line begun by one peer may be completed by
another. Text is a sequence of words and line ends. `\r` is left out: it ends a line as `\n` does, but
only `\n` makes `dcc_in` look for one. A refused login frees the session inside `parse_dcc_line` and the
caller goes on with the pointer: with no further line in the buffer it only reads two fields that `free`
leaves in place (`RefuseLogin`); in every other outcome the process is gone (`fault`).

A `.rehash` is a line that `parse_dcc_line` handles, so it runs inside the walk. It makes a new record of
the network and moves the list there, while the loop keeps the record it began the pass with (`record` is
`"moved"` until the pass ends) and every session that was listed keeps a `dcc->net` without list and users
(`old`). For such a session, and in such a pass, `dcc_list_del` works on the NULL list of the replaced
record and `free_dcc_session` frees the block where it stays linked (`RemoveSession` with `listed`
FALSE); no user is found any more; what meets the freed session later is `MeetsFreed` or `ReadsFreed`. The new
record's tsocket is NULL and the new configuration has no crypto module, so that `/msg` no longer reaches the
bot, only `-` or an empty line passes for a password, and where the new hash type is not the
old one the login sets `passhash` to NULL (`ConvertHash`), or compares with a NULL hash type (`UseAfterFree`).
`ListHoldsLiveSessions` and `WalkStaysInList` hold in full until the first rehash; behind it they say what is
left: no allocated session is lost, and the walk does not leave the list in use. `size` is the static size
that `dcc_in` gives `tcrealloc0`; where it was set for another text, bytes are wiped or left over (`Fragment`).

`DccQueries` adds what scripts and the partyline's own commands are told: `Broadcast`, `PutDcc`,
`Hand2Idx`, `Idx2Hand`, `ValidIdx`, `Who`. Each is a walk of its own from `net->dccs`. A
message goes to sessions that have not logged in too; all accepted sessions share the id -1, so that
`putdcc` reaches the first of them, and `idx2hand` does not look at the id it is given. The scan for a free id
leaves out the last session (`dcc.c:416`), so an id may be given twice: `IdsAreNearlyUnique` says that it
then belongs to two neighbours of the list, and so how far a message sent to it can go astray.

### Timers

`net->timers` at the level of its pointers, `utimer` (`Utimer`, from a callback, a timer's command or
a partyline line), the check in the loop (`CheckBegin`, `NoCheck`), and `t_timers_check` and
`t_timer_remove` (`RunHandler`, `NotDue`, `RemoveFirst`, `RemoveOther`, `CheckEnd`). A handler may set
timers while its own timer is first in the list. The block of a freed timer may be handed out again.
`Chain` is what following `->next` meets; an addition that walks a list which runs into itself, or
one that starts at a freed timer, makes the process `stuck`.

A `.rehash` (`RehashTimers`) leaves all timers on the replaced record, in `left`, where nobody checks them.
What scripts set later is on the new record if the network still has Tcl scripts (`newest`), and otherwise joins
those left behind (`AddToReplaced`); and as the new record has no tsocket (`heard`), a rehash before the end
of the MOTD leaves the check closed for good. The properties are about the timers of the record in use.

The code is correct only while scripts are `orderly`: each timer is set to run no earlier than the
last one of the list, and not from a kept pointer whose timer was just freed. The flag is a history
variable. Without it a removal from the middle of the list returns the removed timer as its head
(`RemoveOther`), as section 8 says.

### Connections

`network_connect` with the outcome of its walk over the servers (a server accepts at once, a
connection is under way, or all fail and the tsocket is freed while `net->tsock` keeps its address),
the loop's reconnect branch, descriptor sets and dispatch, and `egg_rehash` as far as networks and
connections go. Addresses are reused: another network's tsocket may get the freed one's.

| Code | Actions |
|---|---|
| `sockets.c` 173-186, 255-272; `network_connect`, `tsocket_connect` | `StartUp`, `Reconnect` |
| `sockets.c` 362-404 | `FdSet`, `Select` |
| `tsocket_check_nonblocking_connect`, `irc_ball_start_rolling` | `ConnectOk`, `ConnectFailed` |
| `irc_in`, `troll_user_host_handler` | `IrcIn`, `IrcClosed` |
| `sockets.c` 404-437 | `NotReady`, `DispatchEnd` |
| `egg_rehash` | `Rehash`, `RehashAstray` |

The walk over `g_cfg->tsockets` is a set of tsockets still to visit: their order cannot be told apart,
because no visit reads another tsocket's state. `IrcClosed` ends in `gone`: the loop calls
`tsocket_disconnect_cb`, which is NULL for IRC. `egg_rehash` frees each old network record but the
first before it reads it, so any set of records may be recognised, or the process is gone
(`RehashAstray`). The dead code that polls `net->sock` (`sockets.c` 274-283, 325-337, 534-569, 655-672)
is not modelled: nothing assigns `net->sock` or the states it asks for.

### Listener

On top of `Connections`: how a network learns its own host and opens the socket DCC chats are accepted
on. The numeric 302 comes after every connection (`HostReply`, `irc.c` 303-320 with
`dcc_init_listener`), a CTCP CHAT may come before it (`ReverseChat`, `dcc.c` 303-320), and a rehash hands
both on to the new record (`RehashListening`). A chat before the first 302 fills in the host from the
vhost, and then no listener is ever made: `OneListener` says at most one, and for the server's host only.

### Channels

The records of one network's channels, `chans`, each with a user list and a ban list (`CursorList`
values), next to the server's truth: who is `on` a channel, who has `op`, which masks are `banned`.
The lines of a connection arrive in order and the handler of one line runs to its end, so an action
is an event at the server together with the handler `trigger_match` dispatches for its line.

| Code | Actions |
|---|---|
| `new_join`, `join_channels` | `UserJoins`, `BotJoins` |
| `channel_list_populate` (353), `troll_parse_who` (352) | `NamesReply`, `NamesReplyUnknown`, `WhoReply` |
| `new_part`, `new_kick` | `UserParts`, `UserPartsSilently`, `UserKicked` |
| `irc_trigger.c` 296-299; `irc.c` 364-368 with `sockets.c` 426 | `UserQuits`; `Disconnected`, which ends the program |
| `troll_trig_update_nick` | `UserRenames` |
| `troll_trig_update_mode` | `OpChanges`, `BanSet`, `BanLifted` |
| `channel_banlist_add` (367), `egg_newchanban` | `BanReply`, `NewChanBan` |
| `troll_trig_channel_redirect` (470) | `Redirected`, `Crash` |

The view can be exact only while the bot is told everything, and the code loses events: QUIT is
dispatched to nobody, a PART without a reason has no trailing parameter and so no handler, a mode
change behind `+k` or `+l` takes the wrong argument, a deletion leaves the kept pointer behind the
front, where a search does not look. The model has all of these steps. The history variables record
them: `astray` has the channels with a lost event, `missed` those in which somebody's new nick was
lost, `lapses` counts. `ViewIsExact` and `BansAreReal` are about the channels that are not astray;
`NobodyIsOverlooked` is about all but the missed ones. Two steps leave the list of records itself
damaged: 353 for a channel without a record appends one and then fills the record that was last; 470
for a channel with a record makes its name NULL, and the next search that comes to it is the end of
the process (`Crash`). So is a 353 line for a network without any record.

A topic is what 332 or TOPIC said last; a topic that is taken away stays on record, because a TOPIC line
without text reaches no handler (`irc_trigger.c:306`), and 332 before 353 finds no record
(`irc_proto.c:236`), which counts as missed.

`world` is what is given: the configured channels, the users on the network, the masks and the topics in
use.

`ChannelQueries` is what scripts are told of this state (isop, onchan, ischanban, chanbans, topic,
channels, ...) and the channel file. `SaveOutcomes` is how `chans_save` may end: through a NULL pointer
where the network has no channel, or no `chanfile` line and is not saved together with all others
(`channel.c:690`); with the file as it was, because it cannot be opened; cut short by a record without
a name; or with `Blocks`, what `chans_to_tconfig` makes of the records. `MadeOf` is what
`new_chan_from_tconfig_block` makes of blocks when the configuration is read; nothing reads the channel file
itself (`chan_init` has no caller), so `ChannelsAreSaved` says what the file holds and not what becomes of
it. It and `AnswersAreTrue` hold at every moment a script could ask or save.

### Matching

The two matchers, one step for each round of their loop over the mask: `NeedleEnds`, `HaystackEnds`,
`AnyCharacter`, `Star`, `NonSpaces`, `Spaces`, `Differ` (where `matchwilds` goes back to the last star and
`troll_matchwilds` fails), `Agree`. `Matches` is the reference, written from the comment in front of both
functions: which characters of the text each symbol of the mask stands for. The matchers are greedy, so
a match is always one by the reference (`MatchesAreReal`), but not every text that should match does:
`ClearMasksMatch` says for which masks it must.

### IrcInput

| Code | Actions |
|---|---|
| `irc_in` with `tcrealloc0` | `RecvNew`, `RecvMore`, `RecvNothing`, `TakeLine`, `NoLine` |
| `parse_irc_line` with `tsrealloc0` | `ParsePrefix`, `ParseCommand`, `Param`, `ParamsEnd`, `RestWord`, `RestEnd`, `PingFails`, `RunTriggers` |

`irc_in` has one buffer and one size, both static, for all networks. The size is not reset when the buffer
is given up, so a later `tcrealloc0` may take it for larger or smaller than it is: bytes are then wiped, or
a string is left without its `\0`. `zeros` says how far the bytes behind the string are known to be 0. The
history `broken` has the networks whose bytes were mixed, wiped or given up; `LinesInOrder` is about the
others, and `FragmentsAreKept` says that a fragment is damaged in these ways only. An empty line is skipped
together with the end of the line in front of it (`irc.c:377-381`), so `LinesInOrder` compares lines
of networks that send none. In a prefix the first `!` counts, and an `@` behind it; later ones are part of
the host. A scan that runs behind a line (a command without a space, `irc.c:170`), ends in `fault`.

### Triggers

`egg_bind` (`BindNew`, `BindReplacing`), `egg_unbind` (`Unbind`, `UnbindFails`), `trigger_match` (`Event`
chooses the lists, `BeginWalk` the masks that match, then `PassBy`, `RunHandler`, `WalkEnd`, `EventEnd`),
and the handlers of the script languages, which bind and unbind while the walk stands on their trigger
(`HandlerCall`) and read fields that the line may not have (`TclReads`, `JsReads`, `PhpReads`, `PyReads`;
where one is NULL the process is gone, as it may be when the walk goes on from a trigger that was freed:
`HandlerLost`). A PRIVMSG or NOTICE without text ends the process at the first trigger it is compared with
(`Trusts`). `egg_bind` compares masks in any case (`AlikeMask`), `egg_unbind` does not (`SameMask`): the
worlds say which masks differ in case only. The lists are `CursorList` values; a freed trigger keeps its
link. What is due in `pub` is the first trigger that matches, and in `join` only the front of the list, so
that a script's bind behind `new_join` never is. `rash` is a history variable: some handler has freed the
trigger the walk goes on from. `hidden` has the lists whose kept pointer has passed a trigger by.

### TConfig

A file is a sequence of tokens. `file_to_tconfig` (`ReadOpen`, `ReadClose`, `ReadPair`, `ReadBad`,
`ReadEnd`), `tconfig_merge` with a frame for each recursive call (`MergeBlock`, `MergeWild`, `MergeLeaf`,
`MergeReturn`, `MergeFault`), `free_tconfig` (`FreeDown`, `FreeAcross`, `FreeList`), `config_engine_load`
(`Load`) and the writer (`WriteBlock`, `WriteLeaf`, `WriteLast`, `WriteFault`) run one after the other on
blocks with addresses, and then the written file is read again. Only the first block of a list knows the
block above it: `Up` is the climb of all three functions. `Merged` and `Once` are the reference
definitions. The merge is right for defaults that are `Orderly` and `Compatible`, as those of
`conf_dist/defaults.conf` are, and not for others: a block that is made as the first of a list loses the
link upwards (`tconfig.c:825`).

Of `config_engine_load`, a network has its label, one setting that takes the first value (`nick`), its
servers with their ports, and its scripts. An array of scripts has room for nine: with the tenth,
`tsrealloc0` shrinks it (sizes are bytes there and slots here), clears its first slot and a write goes
behind the end (`Overrun`, `Cut`); the bot then ends or goes on. `FirstValueWins` claims the scripts up to
that number; PHP's array is shared by all networks.

### Users

| Code | Actions |
|---|---|
| `introduce_user`, `new_user_pass`, `egg_save` | `Hello`, `Pass`, `Goodbye` |
| `egg_adduser`, `egg_chhandle`, `egg_matchattr` | `AddUser`, `ChHandle`, `MatchAttrOfNobody` |
| `parse_dcc_line` with `egg_passwdok` (the user's side) | `NameLine`, `PassLineRight`, `PassLineWrong`, `PassLineFault`, `PassLineFreed`, `HangUp`, `SaveAll` |
| `users_save`, `tconfig_to_file` | `SaveOf` (`Open`: the file is emptied, or cannot be opened), `Write` |
| `egg_rehash`; the operating system | `Rehash`, `RehashForgets`; `Crash`, `Restart` |

A save is two steps, and the process may be killed between them. A start does not read the file:
`user_init` has no caller, so `Restart` begins without users and `Earlier` stands for a file nothing reads
again. A rehash reads the configuration without `defaults.conf`, and so without a crypto module: `pass`
then announces a password and sets none. It keeps the users of a network whose old record it recognises by its
label (`Rehash`). Each old record but the first is freed before its label is read: such a network may be left
without users and without the triggers that would make new ones (`RehashForgets`, `reach`).

`egg_passwdok` lets an empty line or `-` pass for the password of any user who has one (`Dash`). After a rehash
that brings another hash type, a login with it replaces the announced password by NULL, as there is no crypto
module to make a hash with, and saves that (`PassLineRight`, history `annulled`); with no hash type at all it
is the end of the process (`PassLineFault`). So `LoginsWereTold` says that nobody gets in as a user who was told
of no password, and `ToldIsSaved` that a password stays until such a login. The history `unsaved` says that the
last save could not open the file. `crooked` is a history variable too: some user's name is not the nick. While
it never was, `ToldIsSaved` and `NobodyIsForgotten` hold; after a rename, `hello` cuts off the users behind the
one its search stops at.

### ScriptCalls and Scripts

`ScriptCalls` has one operator for each function of `tcl_lib.c`, `js_lib.c`, `php_lib.c` and
`python_lib.c`: what a call with `n` arguments passes on to which function of `egg_lib.c`, or that it is
refused, or which parameter it reads behind the last argument or never assigns. `Scripts` is the life of
the interpreters: `Start`, partyline sessions and their `.tcl` and `.js`, `Rehash` and `RehashAstray`, and
a call of any command in any language (`CallTcl`, `CallJs`, `CallPhp`, `CallPy`) with the record it
reaches. `After` says how a call may end. Many functions of `egg_lib.c` go through a pointer that the
network may not have, and then the process is gone: `savechannels` without a `chanfile` line, `channels`
without a channel, `matchattr` without users, `botname` before the host is known, whatever sends without a
connection, Tcl's `rand 0`. `ReliesOn` has, for each function, what it needs; a call is made with any part
of that missing, also on a record that a rehash has replaced, and does not return then (or, for those in
`Sometimes`, need not). `CallsDoWhatTheySay` compares every documented call that has what it relies on
with its outcome, in both directions: `Unfaithful` lists the calls that go wrong all the same, and none
else does.

## 4. The runs

| Run | Instance | Shows |
|---|---|---|
| `list` | 4 addresses | links, searches, refinement of `ListSpec` |
| `dcc_sessions` | 3 sessions, 2 users (one without flag and password), 3 chunks, 2 hash types or none, any number of rehashes, symmetry on sessions | memory discipline of the list and its walk, logins, lines, ids |
| `dcc_reaping` | 3 sessions, one user | a closed session that the walk meets is freed |
| `timers` | 3 timers, delays 1 and 2, 3 seconds, any number of rehashes | no timer lost but by a rehash, once and in order, due timers run |
| `connections` | 2 networks (one with never-give-up and a vhost), 4 tsockets, 2 rehashes | ownership, registration, one listener, new networks are connected |
| `channels` | 2 channels, or none configured, 2 users besides the bot, 2 masks, 2 topics, 1 lost event, symmetry on the users | everyone is listed; view, bans, topics and answers are true while nothing was lost; the channel file is complete |
| `matching` | every text and mask of up to 3 characters, and those of 4 over the characters that differ | matches are real, clear masks match, every call returns |
| `irc_input` | every line of up to 4 characters of 5, longer ones, 2 networks; a buffer of 5 bytes, arrays of 3 words | lines whole and in order, fields are the line, fragments are kept |
| `triggers` | 3 triggers, 2 masks (in one world the same but for their case), 2 commands, each kind of event, with and without text, up to 2 calls in a handler, symmetry on addresses | due triggers run, one trigger for a mask |
| `tconfig` | some 20,000 pairs of files: 1 or 2 networks, 2 entries each and up to 4 scripts (3 slots), defaults for all or one; every file of up to 4 tokens | merge, writing and reading, first values, ports and scripts |
| `users` | 3 users, names that differ in case only, a password and `-`, 2 hash types or none after a rehash | nobody is forgotten, announced passwords are kept and saved, logins were told |
| `scripts` | 2 networks, 3 configurations, 2 rehashes, up to 6 arguments, any part missing of what a call relies on | calls do what they say, on the network in use; scripts are heard |

Why the bounds are enough. *Lists*: with four nodes the third can be deleted while nodes exist on both
sides and the kept pointer is inside, the only shapes the code distinguishes; the proofs remove the bound.
*Sessions*: three are needed for one to be in front of the kept pointer while another is freed.
`MaxLeftover` (words left in the buffer when more arrive) is 1: one unfinished word of another peer is
what matters; `MaxIdx` bounds the ids of outgoing sessions. Behind a rehash `MCBound` follows three
sessions only where there is no hash type: nobody new is reached by then, so that two sessions show what
happens to the lists, and it leaves out the states that differ in a password nobody can use. *Timers*: a
first, a middle and a last one, and a block that is free; delays that collide and that do not. `MaxTime`
bounds the clock. *Connections*: four tsockets are as many as two networks and two rehashes can allocate;
a second network is needed for `RehashAstray` and for the reuse of an address. *Channels*: with the bot
and two users a deletion can leave a record in front of the kept pointer; the second channel may have a
record or not. Users, bans and topics do not meet in any handler, so the worlds of `MCChannels` give masks
only to channels with one other user and topics to the bot alone. `MaxLapses` is 1: one stale record, or
one record too many, is what the later handlers must cope with; `MaxUsers` and `MaxRecords` leave room for
it. *Matching*: a star, what it skips, what follows it and a second star fit in four symbols. *Input*:
with a buffer of 5 every line is longer or shorter than one read somewhere, and 3 slots make the word
arrays grow. *Triggers*: one before, one at and one behind the walk; two calls let a handler unbind its
own trigger and bind one in the freed block. *Configuration*: blocks two levels deep with a list before
and behind them; the code treats deeper levels by the same steps. *Users*: three, so that one is behind
the one a search stops at; `Bound` lets long lists have few messages about passwords, and none longer once
a name is not the nick. *Scripts*: two networks, one of which can be lost, gained, or come first; two
rehashes make a record older than the last. Deadlock is off where the system stops: a process that is
gone, a clock at its bound, a call that has returned.

## 5. Fairness

- `Matching`: `WF(Iteration)`. A function that was called runs to its end; there is one thread.
- `DccSessions`: `WF(Progress)`. The loop's own steps go on; `select()` returns if a polled peer has
  closed, because a closed socket is readable. Nothing is assumed of peers. `ClosedPeersAreReaped` excuses
  sessions that have come to stand in front of the kept pointer, and a process that is gone.
- `Timers`: `Spec` has `WF(Loop)`, the bot's own steps, which includes that a command ends. `FairSpec`
  adds `WF(Traffic)` (a peer sends something now and then, as IRC servers do with PING) and
  `SF(EndOfMotd)` (the server's MOTD ends). `DueTimersRun` needs both: without traffic `select()` never
  returns, because the loop does not pass it a timeout. After a rehash the server is not heard and only
  the partyline can be that traffic.
- `Connections`, `Listener`: `WF(Next)`. The loop goes round; `select()` returns because of partyline
  traffic or because the loop skips it when it has no descriptor. No outcome of a connect is assumed.

The other modules state safety only: what comes next is up to a server, a script or a user.

## 6. What is proved

All theorems hold for every value of the constants under the named assumptions. Most of them say that NULL
is not an address, bounds are natural numbers and sets have the right members. Six say more:
`ChannelsAssumption` that the nicks in use are finitely many, `UsersAssumption` that an absent and an
emptied user file are not files with entries and that the bot's own configuration has no crypto module
(`defaults.conf` has it), `TriggersAssumption` that there are masks and commands and that
`add_default_triggers` gives no list two triggers for a mask (it does not, `irc_proto.c` 44-120),
`MatchingAssumption` that the symbols of masks are characters, none of them white space, and that the '\0'
which ends a string is none, `ScriptsAssumption` that a configuration has a network and gives scripts to
its own networks only. The provers need no bound on the number of nodes, sessions, users, records,
triggers or events, nor on the length of masks and texts.

- `CursorListProofs`: what `ListAdd` and `ListDel` return and keep (a list stays a list, the members
  change by exactly one, the walk's successor survives the removal of the node it stands on), and what
  `Picked`, the search for several nodes, finds: `PickedElements` says that its result is the elements at
  the given positions, in order and none left out. Induction is out of reach, so `LeastNat` takes its
  place: a statement about all prefixes that failed would fail first at some prefix.
- `TrollListProofs`: `LinksAreConsistent`, `NoPointerDangles`, `DeletionsFindTheirNode` and the step
  simulation `PointersImplementTheList`. The checked invariants are not inductive: the
  strengthening adds where the walks of a running function stand (the searched node lies on the path
  from `tmp`) and that a node being added is not linked.
- `DccSessionsProofs`: the memory discipline, logins and lines of `DccSessions`, with
  `ListedSessionsArePollable` and the types, over any number of rehashes. Their conjunction is inductive
  with three facts added: a session is current while its lines are parsed, only allocated sessions can
  have hung up, and `RehashLeaves`: before the first rehash no session has lost its record, and while the
  loop holds the replaced record every listed one has. The hard step is a removal, where the memory
  discipline, the walk's position and the descriptor sets must move together, and which in a rehash's pass
  leaves the freed session linked: the properties then promise less, and the next step has to start from
  that. `IdsNameNeighbours` has an invariant of its own, `IdsAdjacent`: an id is given twice only to the
  last session and the one added behind it, and no removal moves two sessions apart.
- `TimersProofs`: `OrderlyTimersAreKept`, `OrderlyTimersRunOnceInOrder`. `Chain` is defined as a least
  set, which the provers cannot unfold step by step; the invariant therefore states that *some* sequence
  represents the list (`Represents`), sorted by expiry, and each action exhibits the new one. The sequence
  is that of the timers of the record in use (`Pending`): a rehash makes it empty, and the blocks of those
  left behind cannot be handed out again, so that no later path runs into one. `CheckState` ties the local
  variables of `t_timers_check` to it: while scripts are orderly the timer that runs is always the first.
  The second half of the module is about `Scripts`: `CallsReachTheirNetwork`, `EveryScriptIsHeard` and the
  types (`ScriptsOK`). `LanguagesServe` says what each language has after any number of rehashes: Tcl
  commands act on the record in use unless a rehash found no Tcl scripts for the network, a JavaScript
  context belongs to the record in use, and Python has the last network with a script registered
  (`LastPyIsScripted`), with the script only before the first rehash. A Python call goes to the network in
  use because the object it comes from is the registered one (`HeardPython`).
- `ConnectionsProofs`: ownership, open descriptors, registration, types. The strengthening says that
  a disconnected network has no tsocket in the list (so the reconnect branch cannot make a second
  one), that an idle network's tsocket has registered or was left behind by a rehash, and that the
  sets of one pass still describe the tsockets it has not visited. The type invariant itself needs
  it: the registration count stays at one only because of it. The module also has the theorems of
  `Listener`: `ListenerImplementsConnections` (the safety part of `LSpec` implies that of `Spec`: every
  step is one of `Connections` or a stutter, so its invariants hold of the composition) and
  `NetworksHaveOneListener`. Its strengthening speaks of every label, not only of the networks in use,
  because a rehash may bring a label back: host, listener and count are handed on together or not at all.
  The second half of the module is about what is read from the connections, `IrcInput`:
  `LinesComeInOrder`, `FragmentsStay` (an action property) and the types (`InputOKHolds`), in which the
  bounds of the buffer and of the word arrays are the hard part. `ReadInv` follows the bytes: of an
  undamaged network, the lines handled, the one being handled, the begun one in the buffer and what was not
  yet read are together what it sends (`StreamInv`); at each place of `irc_in` the string ends where
  `zeros` says, and once a line was taken `size` is one more than its length, which is what `tcrealloc0`
  must be told (`BufferInv`). `ParserInv` counts: a word is stored only while its array has a slot left
  for the NULL (`WordsFit`), also when the loop leaves with a full array. What is sent is the lines joined
  by `FlattenSeq`, a recursion; that the join of `ls` is `ls[1]`, its end and the join of the rest
  comes from `LeastNat`, applied to the first prefix for which it would fail.
  `TidyLinesAreWhole` follows `parse_irc_line` through a line as the protocol has them: `TidyInv` says for
  each place what was found so far and where it stands. In the parameters, prefix, command and words put
  together are the line up to the space before the position, or all of the head (`ParamNext`); in the
  trailing text its words with their spaces are the text up to there (`RestNext`). That the loops stop where
  they should comes from the shape of a tidy head (`HeadShape`): no colon behind a space in it, and after
  each space a word, so the step over the first character of a word never jumps over a space. A
  fault is left to a `PING` with no text, since a text has at least one word (`AllParsed`).
- `ChannelsProofs`: all checked properties of `Channels` and `ChannelQueries`. The properties speak of a
  channel whose names have come; `ViewOf` adds what must hold of the others, so that they can become such
  a channel: until the names come the record has the bot alone, and a record that is not in use is as
  `new_channel` made it, also one that has lost its name (`NamelessAreBlank`). A channel may have two
  records, of which the code uses the first it meets; the hard steps are those that add or rename a record
  and so change which one that is. `ScriptsAreToldTheTruth` follows from the invariant.
  `TheFileIsTheChannels` is about the saves that open the file and end with the bot up, and needs two facts
  more: the records of the configuration stay in front, in their order (`ConfiguredStay`), and every channel the
  bot is in has one (`OneIsThere`).
- `UsersProofs`: `NobodyGetsInUntold`, `AnnouncedIsSaved`, `NobodyLeavesTheList` (an action property) and
  the types. What was told must be followed from the message over the record into the file and to a
  session: `Distinct` (no two users answer to one name), `OneHash` (with a crypto module every
  password has the configured type, so the branch that hashes a password anew is taken after a rehash only, when
  there is nothing to hash it with and the password goes), `Announced` (no password without a message),
  `Stay` (who was told is still in the list, with the password unless a login has annulled it, and so is a
  session's user), `Filed` (between saves that could open it the file has whoever was announced a password, with
  the password the user has). `Stay` and `Filed` are for bots whose users' names have been their nicks.
- `TriggersProofs`: `WalkRunsWhatIsDue`, `PubAndMsgAreUnstackable` and the types. `Walking` divides the list
  at the place where the walk will go on (`Cursor`: the trigger it stands on, or the next of the one that
  runs, in the list or not): what has run is before it, what is due is at it or behind, both in list order.
  What a handler binds goes to the end and changes neither part. What it unbinds leaves both, and
  its own trigger, once out, keeps the link to the place; the next trigger is then the one removal that
  would break it, which is what `rash` records. All three functions that change the table take one form
  (`TableStep`), for which each conjunct is proved once. `PubAndMsgAreUnstackable` needs that the kept
  pointer is at the front unless a removal behind the second place has moved it (`FrontIsKept`): only then
  does the search of `egg_bind` meet every trigger of the list. It compares masks in lower case (`Alike`), any
  function on masks.
  The second half of the module is about the matcher behind the triggers' masks, `Matching`:
  `MatchesAreReal`, `ClearMasksMatch` and that no position leaves its string (`LocalsOK`). `Matches` has no
  recursion, it asks for a cut of the text, so each step can extend the cut. `MatchInv` says what such a cut
  covers: either what has been read of the mask stands for what has been read of the text, or the matcher
  has come back to a star, which may stand for more than it did; the kept star has the same (`StarAfter`).
  `ClearMasksMatch` has two parts. For a mask that leaves no choice every cut has to agree with the position
  of the matcher (`ClearInv`): the skip stops where the cut ends, which is shown for the first place where
  it would not. For `matchwilds` and a mask `*word*`, the matcher does not pass the first letter of an
  occurrence before it has found the word (`WordInv`), however often it begins a word that is none.

Only model-checked: all liveness (`ClosedPeersAreReaped`, `DueTimersRun`, `NewNetworksConnect`,
`EveryCallReturns`), which is out of reach of the prover together with fairness; the properties of
`TConfig`, and `CallsDoWhatTheySay`. Those of `TConfig` compare the code with reference
definitions by recursion over trees of blocks, and what a recursive definition computes cannot be proved for
every input with these provers; the last evaluates each documented command, which TLC does completely. The
type invariants of the proved modules are theorems; `TypeOK` of `TConfig` says what the variables hold and
is checked now and then, not by a run of its own.

Every property has a mutant of the code model (the definitions commented `Mutant of`) under which TLC
finds it violated.

## 7. Not modelled

- *Log filters and entries*: the sources disagree with each other at this commit. `struct log_filter` has
  no field `net`, which `config_engine.c:214` assigns; handlers are declared with two parameters and defined
  with three. Nor does the loop fit: `main` calls `socket_loop`, `sockets.c` defines `irc_loop`.
- *ICS, XMPP, HTTP, the PostgreSQL log filter*: XMPP and HTTP are commented out in `configure.ac`; nothing
  polls a module's sockets, so the protocol code of ICS is never called. With the vendored libraries
  (`libltdl`, the headers and sources of libtomcrypt) they are most of what the map does not cover.
- *Functions without a caller*: the t_timers_free, free_networks, free_channel family, `user_init`,
  `chan_init`, `tsocket_listen`, `egg_timer`, `egg_deluser`, the put functions of `egg_lib.c` 57-135 and some
  string helpers of `util.c`.
- *Of channels*: the mode string (324), the mode `v` (its branch is that of `o`), letter case, a change of
  the bot's own nick, the channel options that scripts set.
- *Of users*: the flags (one flag, `p`, is modelled), chattr, `finduser` by host.
- *Partyline commands that only print*, `.+chan`, console output.
- *Perl*: a stub.
- *Descriptors that are not closed* (`tsocket_close` shuts down only): descriptors are not counted.
- *Ciphers and hashes*: third-party arithmetic; a hash is modelled by the line and the type it was made
  from.
- *Formatting, logging, allocation failure.*

## 8. Where the code and its documents differ

The models have these behaviours; the properties are stated so that they hold with them.

| The text | What the code does | Where in the models |
|---|---|---|
| `sockets.c:297` "Set all active connections into the read fd set" | a session in front of the kept pointer is not polled (`dcc.c:95-134`) | `FdSet` |
| `dcc.c:688` conversion "while we still have the plaintext pass" | the types differ only after a rehash, when there is no crypto module: only an empty line or `-` passes (`egg_lib.c:241-249`), and the password becomes NULL (`egg_lib.c:217`) | `GivePassword`, `ConvertHash`, `PassLineRight` |
| `doc_dist/tcl-commands.doc:1325` `utimer` | the command of a timer behind the first runs again (`t_timer.c:75-81`) | `RemoveOther` |
| `conf_dist/defaults.conf:83` "Keep trying to connect to servers forever" | a failed connection is never tried again (`sockets.c:259-272`), a lost one ends the program (`sockets.c:426`) | `ConnectFailed`, `IrcClosed`, `Disconnected` |
| `network.h:84` "Copy over on rehash" | `tsock` is not copied, and the new list of tsockets is empty; neither are the timers | `Rehashed`, `RehashTimers` |
| `irc_proto.c:192` "its unique key, mask" | a script's ban is recorded again when the server reports it (`troll_lib.c:367-379`) | `NewChanBan`, `BanSet` |
| `conf_dist/defaults.conf:8` "You can use network *" | with a file that has no other network, one labelled `*` is made (`config_engine.c:275`) | `Load` |
| `tconfig.c:114` "The very left element in tree should have the parent" | not in a list the merge has begun with a block (`tconfig.c:825`) | `MergeBlock` |
| `egg_lib.c:1441` hand2idx "Returns 0 on error" | 0 is also the id of an outgoing session after an accepted one | `Hand2Idx` |
| `util.c:435` `tcrealloc0`: "(*bufsize)-1 == strlen(new) + 1 - 1" | `irc_in`'s static size outlives its buffer (`irc.c:335`), so the size is not that of the text | `RecvNew`, `Zeroed` |
| `doc_dist/tcl-commands.doc` unbind, finduser, isop, idx2hand and other commands | unbind also hides the triggers before it; the calls of `Unfaithful` | `Unbind`, `Unfaithful` |

## 9. Running the checks

    tlc -workers 2 -config MCDccSessions.cfg MCDccSessions.tla
    tlapm DccSessionsProofs.tla

Each run's module and configuration are in `PROJECT.json`, which also maps every definition of the
models to the source lines it stands for, lists the hazards of the code with the properties that
cover them, and the theorems.
