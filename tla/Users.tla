-------------------------------- MODULE Users --------------------------------
(***************************************************************************)
(* The users of a network (user.c): how the messages "hello", "pass" and   *)
(* "goodbye", the scripts' adduser and chhandle, a login and a rehash      *)
(* change the list, and the user file it is saved to.  A save first        *)
(* empties the file and then writes it, if it can be opened at all, and    *)
(* the program may stop at any time.  After a start the file is not read:  *)
(* user_init has no caller.  A rehash keeps the users of a network whose   *)
(* old record it recognises, and drops those of any other.                 *)
(***************************************************************************)
EXTENDS Integers, FiniteSets, SequencesExt

CONSTANTS Name,          \* nicks and user names
          Fold(_),       \* a name in lower case
          Password,
          Dash,          \* the password "-", and a line without any text
          HashType,
          Works,         \* the hash types create_hash knows
          StartConf,     \* what a start takes from the configuration and defaults.conf
          OwnConf,       \* what a rehash takes from the configuration alone
          HasFile,       \* the network has a userfile
          MaxUsers,
          Emptied,       \* a user file with nothing in it
          Earlier,       \* one that an earlier run has written, which nothing reads
          NULL

Conf == [flags : BOOLEAN, hash : HashType \cup {NULL}, crypto : BOOLEAN]

Hash == (Password \X HashType) \cup {NULL}

\* What the user file has of a user.
Entry == [name : Name, nick : Name, pass : Hash, hash : HashType \cup {NULL}]

ASSUME UsersAssumption ==
    /\ \A n \in Name : Fold(n) \in Name
    /\ Dash \in Password
    /\ NULL \notin Name \cup Password \cup HashType
    /\ StartConf \cup OwnConf \subseteq Conf /\ StartConf # {} /\ OwnConf # {}
    /\ \A c \in OwnConf : ~c.crypto
    /\ {NULL, Emptied, Earlier} \cap Seq(Entry) = {}
    /\ HasFile \in BOOLEAN /\ MaxUsers \in Nat /\ Works \subseteq HashType

VARIABLES user,      \* the users that have been allocated since the start
          users,     \* net->users
          file,      \* the user file: absent (NULL), emptied, or its entries
          pc,        \* idle, saving, dying (saving before the end) or down
          conf,
          sess,      \* a partyline session
          reach,     \* what reaches the network: its server's messages, only sessions, or none
          told,      \* history: the passwords that were announced as set
          crooked,   \* history: some user's name has not been the nick
          annulled,  \* history: the nicks of those whose password a login has annulled
          unsaved    \* history: the file could not be opened for the last save

vars == <<user, users, file, pc, conf, sess, reach, told, crooked, annulled, unsaved>>

NewUser(name, nick, hash) ==
    [name |-> name, nick |-> nick, pass |-> NULL, hash |-> hash, flags |-> conf.flags]

NoSession == [st |-> "none", user |-> NULL, pw |-> NULL, old |-> FALSE]

Init ==
    /\ user = << >> /\ users = << >> /\ file = NULL /\ pc = "idle"
    /\ conf \in StartConf /\ sess = NoSession /\ reach = "messages"
    /\ told = {} /\ crooked = FALSE /\ annulled = {} /\ unsaved = FALSE

\* The first of the list of which P holds, 0 if there is none.
First(P(_)) ==
    LET found == {i \in DOMAIN users : P(user[users[i]])}
    IN  IF found = {} THEN 0 ELSE CHOOSE i \in found : \A j \in found : i <= j

Named(n) == First(LAMBDA u : u.name = n)
NamedLike(n) == First(LAMBDA u : Fold(u.name) = Fold(n))
ByNick(n) == First(LAMBDA u : u.nick = n)

User == [name : Name, nick : Name, pass : Hash, hash : HashType \cup {NULL}, flags : BOOLEAN]

\* The list has users of this run, each once, and sessions that have got a name have one of
\* them (net->users, dcc->user).
TypeOK ==
    /\ user \in Seq(User) /\ Len(user) <= MaxUsers
    /\ users \in Seq(DOMAIN user) /\ IsInjective(users)
    /\ file \in {NULL, Emptied, Earlier} \cup Seq(Entry)
    /\ pc \in {"idle", "saving", "dying", "down"} /\ conf \in Conf
    /\ reach \in {"messages", "sessions", "none"}
    /\ sess.st \in {"none", "named", "in"} /\ (sess.st # "none" => sess.user \in DOMAIN user)

Straight == \A i \in DOMAIN users : user[users[i]].name = user[users[i]].nick

Handles == pc = "idle" /\ crooked' = (crooked \/ ~Straight')

CreateHash(p, h) == IF h \in Works THEN <<p, h>> ELSE NULL
MakePasswd(p, h) == IF conf.crypto THEN CreateHash(p, h) ELSE NULL
-----------------------------------------------------------------------------
\* users_save

\* Mutant of SaveOf: the file is left alone.
SaveOfNone(list) == UNCHANGED <<pc, file, unsaved>>

\* tconfig_to_file opens the file, which empties it, or gives up and leaves it as it was.
Open(opened, failed) ==
    \/ pc' = opened /\ file' = Emptied /\ UNCHANGED unsaved
    \/ pc' = failed /\ unsaved' = TRUE /\ UNCHANGED file

\* Nothing is opened for an empty list; without a userfile the network's label is read
\* through a NULL pointer.
SaveOf(list) ==
    CASE list = << >> /\ HasFile -> UNCHANGED <<pc, file, unsaved>>
      [] ~HasFile -> pc' = "down" /\ UNCHANGED <<file, unsaved>>
      [] OTHER -> Open("saving", "idle")

\* users_to_tconfig
EntryOf(u) == [name |-> u.name, nick |-> u.nick, pass |-> u.pass, hash |-> u.hash]

\* The flags come last: without them a user's list ends with a block that has no key, and
\* the writer stops there.
Write ==
    /\ pc \in {"saving", "dying"}
    /\ IF \A i \in DOMAIN users : user[users[i]].flags
       THEN /\ file' = [i \in DOMAIN users |-> EntryOf(user[users[i]])]
            /\ pc' = (IF pc = "saving" THEN "idle" ELSE "down") /\ unsaved' = FALSE
       ELSE pc' = "down" /\ UNCHANGED <<file, unsaved>>
    /\ UNCHANGED <<user, users, conf, sess, reach, told, crooked, annulled>>

\* new_user_from_tconfig_block
UserOf(e) == [name |-> e.name, nick |-> e.nick, pass |-> e.pass, hash |-> e.hash, flags |-> TRUE]

\* The users that user_init would make of a file: none without one.  Of an emptied one it
\* reads a block without a key, and stops the program.
Unpacked(f) == IF f \in {NULL, Emptied, Earlier} THEN << >> ELSE [i \in DOMAIN f |-> UserOf(f[i])]
-----------------------------------------------------------------------------
\* What scripts ask: egg_validuser and egg_countusers.
ValidUser(n) == Named(n) # 0
CountUsers == Len(users)
-----------------------------------------------------------------------------
\* The messages of irc_proto.c.

Added(u) == user' = Append(user, u) /\ Len(user) < MaxUsers

\* Mutant of Stop: the search stops one user early.
StopEarly(n) == IF Named(n) # 0 THEN Named(n) ELSE IF Len(users) > 1 THEN Len(users) - 1 ELSE 1

\* Where the search of introduce_user stops: at the user of that name or the last.
Stop(n) == IF Named(n) # 0 THEN Named(n) ELSE Len(users)

\* What comes after that user is cut off.
Hello(n) ==
    /\ reach = "messages"
    /\ \/ users = << >> /\ users' = <<Len(user) + 1>>
       \/ /\ users # << >> /\ user[users[Stop(n)]].nick # n
          /\ users' = Append(SubSeq(users, 1, Stop(n)), Len(user) + 1)
    /\ Added(NewUser(n, n, conf.hash))
    /\ UNCHANGED <<file, pc, conf, sess, reach, told, annulled, unsaved>> /\ Handles

Pass(n, p) ==
    LET i == ByNick(n)
        u == user[users[i]]
    IN  /\ reach = "messages" /\ i # 0 /\ u.pass = NULL
        /\ user' = [user EXCEPT ![users[i]].pass = MakePasswd(p, conf.hash), ![users[i]].hash = conf.hash]
        /\ told' = told \cup {[nick |-> n, pw |-> p, sealed |-> MakePasswd(p, conf.hash) # NULL]}
        /\ SaveOf(users)
        /\ UNCHANGED <<users, conf, sess, reach, annulled>> /\ Handles

\* egg_save(NULL): takes the label of each network, and the program ends.
Goodbye ==
    /\ reach = "messages"
    /\ IF users = << >> THEN pc' = "down" /\ UNCHANGED <<file, unsaved>> ELSE Open("dying", "down")
    /\ UNCHANGED <<user, users, conf, sess, reach, told, annulled>> /\ Handles
-----------------------------------------------------------------------------
\* egg_adduser, egg_chhandle, egg_matchattr as scripts call them

Taken(n) == NamedLike(n) # 0

\* nick is that of somebody on a channel who is called so, or the name itself.
AddUser(n, nick) ==
    /\ ~Taken(n) /\ Fold(nick) = Fold(n)
    /\ Added(NewUser(n, nick, NULL))
    /\ users' = Append(users, Len(user) + 1)
    /\ SaveOf(users')
    /\ UNCHANGED <<conf, sess, reach, told, annulled>> /\ Handles

\* Of several users of the old name the last one gets the new one.
ChHandle(old, new) ==
    LET olds == {i \in DOMAIN users : user[users[i]].name = old}
    IN  /\ olds # {} /\ Named(new) = 0
        /\ user' = [user EXCEPT ![users[CHOOSE i \in olds : \A j \in olds : j <= i]].name = new]
        /\ UNCHANGED <<users, file, pc, conf, sess, reach, told, annulled, unsaved>> /\ Handles

\* The walk back to the first user begins at NULL.
MatchAttrOfNobody ==
    /\ users = << >> /\ pc' = "down"
    /\ UNCHANGED <<user, users, file, conf, sess, reach, told, annulled, unsaved>> /\ Handles
-----------------------------------------------------------------------------
\* parse_dcc_line

\* egg_matchattr with the flag p, of the first user whose name differs in case at most.
MatchAttr(n) == NamedLike(n) # 0 /\ user[users[NamedLike(n)]].flags

\* A session of before a rehash has the old network, which has no users any more.
NameLine(n) ==
    /\ reach # "none" /\ sess.st = "none" /\ ~sess.old /\ Named(n) # 0 /\ MatchAttr(n)
    /\ sess' = [sess EXCEPT !.st = "named", !.user = users[Named(n)]]
    /\ UNCHANGED <<user, users, file, pc, conf, reach, told, annulled, unsaved>> /\ Handles

\* Mutant of PasswdOk: any password of the right hash type is.
PasswdOkAny(u, p) == u.hash # NULL /\ MakePasswd(p, u.hash) # NULL

\* Of "-" and of no text it is only asked whether the user has a password.
PasswdOk(u, p) ==
    IF p = Dash THEN u.pass # NULL
    ELSE u.hash # NULL /\ MakePasswd(p, u.hash) # NULL /\ u.pass = MakePasswd(p, u.hash)

\* The user whose password is compared: the first of the name the session's user has now.
Checked == Named(user[sess.user].name)

CannotCompare(p) ==
    LET u == user[users[Checked]]
    IN  p # Dash /\ u.hash # NULL /\ MakePasswd(p, u.hash) # NULL /\ u.pass = NULL

Answers == sess.st = "named" /\ user[sess.user].pass # NULL
Compares == Answers /\ ~sess.old /\ Checked # 0

Right(p) == Compares /\ ~CannotCompare(p) /\ PasswdOk(user[users[Checked]], p)

\* The hash types of the configuration and of the user are compared: one is missing.
NoType == NULL \in {conf.hash, user[sess.user].hash}

\* If they differ the password is hashed anew.  They do after a rehash only, when there is no
\* crypto module: the user is left without a password.
PassLineRight(p) ==
    LET s == sess.user
    IN  /\ Right(p) /\ ~NoType
        /\ sess' = [sess EXCEPT !.st = "in", !.pw = p]
        /\ IF conf.hash = user[s].hash THEN UNCHANGED <<user, file, pc, annulled, unsaved>>
           ELSE /\ user' = [user EXCEPT ![s].hash = conf.hash, ![s].pass = MakePasswd(p, conf.hash)]
                /\ annulled' = annulled \cup {user[s].nick}
                /\ SaveOf(users)
        /\ UNCHANGED <<users, conf, reach, told>> /\ Handles

PassLineWrong(p) ==
    /\ Answers
    /\ Compares => ~CannotCompare(p) /\ ~PasswdOk(user[users[Checked]], p)
    /\ sess' = NoSession
    /\ UNCHANGED <<user, users, file, pc, conf, reach, told, annulled, unsaved>> /\ Handles

PassLineFault(p) ==
    /\ \/ Compares /\ CannotCompare(p)
       \/ Right(p) /\ NoType
    /\ pc' = "down"
    /\ UNCHANGED <<user, users, file, conf, sess, reach, told, annulled, unsaved>> /\ Handles

\* A user without a password: "Login failed" closes and frees the session, which is then
\* used on; this may end the program or pass.
PassLineFreed ==
    /\ sess.st = "named" /\ user[sess.user].pass = NULL
    /\ pc' \in {"idle", "down"} /\ sess' = NoSession
    /\ UNCHANGED <<user, users, file, conf, reach, told, annulled, unsaved>> /\ Handles

HangUp ==
    /\ sess # NoSession /\ sess' = NoSession
    /\ UNCHANGED <<user, users, file, pc, conf, reach, told, annulled, unsaved>> /\ Handles

\* .saveall
SaveAll ==
    /\ sess.st = "in" /\ users # << >>
    /\ Open("saving", "idle")
    /\ UNCHANGED <<user, users, conf, sess, reach, told, annulled>> /\ Handles
-----------------------------------------------------------------------------
\* egg_rehash: the configuration is read without defaults.conf and the crypto module.

\* The old record is recognised by its label: the users move to the new one.  The connection
\* stays behind, if the network had one, as it has while there are sessions.
Rehash ==
    /\ conf' \in OwnConf
    /\ sess' = IF sess.st = "none" THEN sess ELSE [sess EXCEPT !.old = TRUE]
    /\ reach' \in {reach, IF reach = "messages" THEN "sessions" ELSE reach}
    /\ sess.st # "none" => reach' # "messages"
    /\ UNCHANGED <<user, users, file, pc, told, annulled, unsaved>> /\ Handles

Forgets ==
    /\ user' = << >> /\ users' = << >> /\ sess' = NoSession
    /\ told' = {} /\ crooked' = FALSE /\ annulled' = {} /\ unsaved' = FALSE

Aged(f) == IF f \in {NULL, Emptied} THEN f ELSE Earlier

\* Any record but the first is freed before its label is read: the network gets a record without
\* users, without the triggers of "hello" and the partyline, and nothing reads the user file.
RehashForgets ==
    /\ pc = "idle" /\ pc' = "idle"
    /\ conf' \in OwnConf /\ reach' = "none"
    /\ Forgets /\ file' = Aged(file)
\* External: the program is killed.
Crash ==
    /\ pc # "down" /\ pc' = "down"
    /\ Forgets /\ UNCHANGED <<file, conf, reach>>

Restart ==
    /\ pc = "down" /\ pc' = "idle"
    /\ Forgets /\ conf' \in StartConf /\ reach' = "messages"
    /\ file' = Aged(file)

Next ==
    \/ Write \/ Goodbye \/ MatchAttrOfNobody \/ PassLineFreed \/ HangUp \/ SaveAll
    \/ Rehash \/ RehashForgets \/ Crash \/ Restart
    \/ \E n \in Name : Hello(n) \/ NameLine(n)
    \/ \E n, m \in Name : AddUser(n, m) \/ ChHandle(n, m)
    \/ \E p \in Password : PassLineRight(p) \/ PassLineWrong(p) \/ PassLineFault(p) \/ \E n \in Name : Pass(n, p)

Spec == Init /\ [][Next]_vars
-----------------------------------------------------------------------------
\* While every user's name is the nick, whatever is done, but a rehash that does not recognise
\* the network, leaves all users in the list, those that hello's search does not reach too, and
\* no two users share a nick.
NobodyIsForgotten ==
    [][pc # "down" /\ pc' # "down" /\ Straight /\ ~RehashForgets =>
          /\ IsPrefix(users, users')
          /\ \A i, j \in DOMAIN users : user[users[i]].nick = user[users[j]].nick => i = j]_vars

\* As long as every user's name has been the nick, a password that was announced is that user's
\* password until a login after a rehash annuls it; scripts are told of the user; and once the
\* save that follows is over, if it could open the file, a list made of that file has the user
\* with the password the user has.
ToldIsSaved ==
    pc = "idle" /\ ~crooked =>
        \A t \in told : t.sealed =>
            \E i \in DOMAIN users :
                LET u == user[users[i]]
                IN  /\ u.nick = t.nick
                    /\ ValidUser(u.name) /\ CountUsers >= Cardinality({s.nick : s \in told})
                    /\ t.nick \in annulled \/ (u.pass # NULL /\ u.pass[1] = t.pw)
                    /\ \/ unsaved
                       \/ \E k \in DOMAIN Unpacked(file) : Unpacked(file)[k] = u

\* Nobody gets in as a user but with the password that was announced to the user of that name,
\* or with "-" or no text, and then only as one to whom a password was announced, although the
\* list may change between the name and the password.
LoginsWereTold ==
    sess.st = "in" /\ ~crooked =>
        \E t \in told : t.nick = user[sess.user].nick /\ (t.pw = sess.pw \/ sess.pw = Dash) /\ t.sealed
=============================================================================
