----------------------------- MODULE UsersProofs -----------------------------
(***************************************************************************)
(* What user.c keeps of the users of a network and of their passwords, for *)
(* any names, passwords and hash types and any order of messages, saves,   *)
(* rehashes and crashes.                                                   *)
(***************************************************************************)
EXTENDS Users, FiniteSetTheorems, SequenceTheorems, TLAPS

Lists == INSTANCE CursorListProofs

Session == [st : {"none", "named", "in"}, user : Nat \cup {NULL}, pw : Password \cup {NULL},
            old : BOOLEAN]
Told == [nick : Name, pw : Password, sealed : BOOLEAN]

Types ==
    /\ TypeOK
    /\ sess \in Session /\ told \in SUBSET Told /\ crooked \in BOOLEAN
    /\ annulled \in SUBSET Name /\ unsaved \in BOOLEAN

\* The i-th user of the list.
At(i) == user[users[i]]

\* No two users of the list have the same name and nick, whoever had either before.
Distinct ==
    \A i, j \in DOMAIN users :
        At(i).name = At(i).nick /\ At(j).name = At(j).nick /\ At(i).name = At(j).name => i = j

\* While the crypto module is there, all passwords have the hash type of the configuration.
OneHash == conf.crypto => \A v \in DOMAIN user : user[v].pass # NULL => user[v].hash = conf.hash

\* Every password was announced, to the user that has it.
Announced ==
    \A v \in DOMAIN user : user[v].pass # NULL =>
        \E t \in told : t.nick = user[v].nick /\ t.pw = user[v].pass[1] /\ t.sealed

\* A user has the password that was announced, or had it.
Holds(u, t) == t.nick \in annulled \/ (u.pass # NULL /\ u.pass[1] = t.pw)

Noted(u) == u.pass # NULL \/ u.nick \in annulled

\* While the names have been the nicks, a session's user stays in the list, and so does one who
\* was told of a password, and has it, if no login has annulled it.
Stay ==
    ~crooked =>
        /\ Straight
        /\ sess.st # "none" => \E i \in DOMAIN users : users[i] = sess.user
        /\ \A t \in told : \E i \in DOMAIN users :
              At(i).nick = t.nick /\ (t.sealed => Holds(At(i), t))
        /\ \A n \in annulled : \E i \in DOMAIN users : At(i).nick = n

\* Between the saves the user file has whoever has a password, or has had one, if the last save
\* could open it.
Filed ==
    pc = "idle" /\ ~crooked /\ ~unsaved =>
        \A i \in DOMAIN users : Noted(At(i)) =>
            /\ At(i).flags /\ file \notin {NULL, Emptied, Earlier}
            /\ \E k \in DOMAIN file : file[k] = EntryOf(At(i))

IInv == Types /\ Distinct /\ OneHash /\ Announced /\ Stay /\ Filed /\ LoginsWereTold
-----------------------------------------------------------------------------
\* What a search of the list answers: the least of the places it looks for, or 0.
LEMMA FirstOf ==
    ASSUME NEW T \in SUBSET (1..Len(users)), Len(users) \in Nat, NEW x,
           x = IF T = {} THEN 0 ELSE CHOOSE i \in T : \A j \in T : i <= j
    PROVE  /\ x = 0 => T = {}
           /\ x # 0 => x \in T /\ \A j \in T : x <= j
<1>1. CASE T = {}
  BY <1>1
<1>2. CASE T # {}
  <2>1. T \in SUBSET Nat
    OBVIOUS
  <2>2. \E i \in T : \A j \in T : i <= j
    BY <1>2, <2>1, Lists!LeastNat
  <2>3. x \in T /\ \A j \in T : x <= j
    BY <1>2, <2>2
  <2>4. \A k \in 1..Len(users) : k # 0
    OBVIOUS
  <2>5. x # 0
    BY <2>3, <2>4
  <2> QED BY <2>3, <2>5
<1> QED BY <1>1, <1>2

\* What the types say of the list and of its users.
LEMMA ListTypes ==
    ASSUME Types
    PROVE  /\ user \in Seq(User) /\ Len(user) \in Nat /\ DOMAIN user = 1..Len(user)
           /\ users \in Seq(1..Len(user)) /\ Len(users) \in Nat /\ DOMAIN users = 1..Len(users)
           /\ \A v \in 1..Len(user) : user[v] \in User
           /\ \A i \in 1..Len(users) : users[i] \in 1..Len(user) /\ At(i) \in User
           /\ \A i, j \in 1..Len(users) : users[i] = users[j] => i = j
<1>1. user \in Seq(User) /\ users \in Seq(DOMAIN user) /\ IsInjective(users)
  BY DEF Types, TypeOK
<1>2. /\ Len(user) \in Nat /\ DOMAIN user = 1..Len(user)
      /\ \A v \in 1..Len(user) : user[v] \in User
  BY <1>1
<1>3. /\ users \in Seq(1..Len(user)) /\ Len(users) \in Nat /\ DOMAIN users = 1..Len(users)
      /\ \A i \in 1..Len(users) : users[i] \in 1..Len(user)
  BY <1>1, <1>2
<1>4. \A i, j \in 1..Len(users) : users[i] = users[j] => i = j
  BY <1>1, <1>3 DEF IsInjective
<1> QED BY <1>1, <1>2, <1>3, <1>4 DEF At

LEMMA NamedIsFirst ==
    ASSUME Types, NEW n
    PROVE  /\ Named(n) \in 0..Len(users)
           /\ Named(n) = 0 => \A i \in 1..Len(users) : At(i).name # n
           /\ Named(n) # 0 => /\ At(Named(n)).name = n
                              /\ \A i \in 1..Len(users) : At(i).name = n => Named(n) <= i
<1> DEFINE T == {i \in DOMAIN users : user[users[i]].name = n}
<1>1. Named(n) = IF T = {} THEN 0 ELSE CHOOSE i \in T : \A j \in T : i <= j
  BY DEF Named, First
<1>2. Len(users) \in Nat /\ DOMAIN users = 1..Len(users) /\ T \in SUBSET (1..Len(users))
  BY ListTypes
<1>3. \A i : i \in T <=> i \in 1..Len(users) /\ At(i).name = n
  BY <1>2 DEF At
<1> HIDE DEF T
<1>4. /\ Named(n) = 0 => T = {}
      /\ Named(n) # 0 => Named(n) \in T /\ \A j \in T : Named(n) <= j
  BY <1>1, <1>2, FirstOf
<1> QED BY <1>2, <1>3, <1>4

LEMMA ByNickIsFirst ==
    ASSUME Types, NEW n
    PROVE  /\ ByNick(n) \in 0..Len(users)
           /\ ByNick(n) = 0 => \A i \in 1..Len(users) : At(i).nick # n
           /\ ByNick(n) # 0 => At(ByNick(n)).nick = n
<1> DEFINE T == {i \in DOMAIN users : user[users[i]].nick = n}
<1>1. ByNick(n) = IF T = {} THEN 0 ELSE CHOOSE i \in T : \A j \in T : i <= j
  BY DEF ByNick, First
<1>2. Len(users) \in Nat /\ DOMAIN users = 1..Len(users) /\ T \in SUBSET (1..Len(users))
  BY ListTypes
<1>3. \A i : i \in T <=> i \in 1..Len(users) /\ At(i).nick = n
  BY <1>2 DEF At
<1> HIDE DEF T
<1>4. /\ ByNick(n) = 0 => T = {}
      /\ ByNick(n) # 0 => ByNick(n) \in T
  BY <1>1, <1>2, FirstOf
<1> QED BY <1>2, <1>3, <1>4

\* A name that adduser takes is nobody's in the list.
LEMMA NotTaken ==
    ASSUME Types, NEW n, ~Taken(n)
    PROVE  \A i \in 1..Len(users) : At(i).name # n
<1> DEFINE T == {i \in DOMAIN users : Fold(user[users[i]].name) = Fold(n)}
<1>1. NamedLike(n) = IF T = {} THEN 0 ELSE CHOOSE i \in T : \A j \in T : i <= j
  BY DEF NamedLike, First
<1>2. Len(users) \in Nat /\ DOMAIN users = 1..Len(users) /\ T \in SUBSET (1..Len(users))
  BY ListTypes
<1>3. \A i \in 1..Len(users) : At(i).name = n => i \in T
  BY <1>2 DEF At
<1> HIDE DEF T
<1>4. NamedLike(n) = 0 => T = {}
  BY <1>1, <1>2, FirstOf
<1> QED BY <1>3, <1>4 DEF Taken

\* What the history of a handled message says.
LEMMA Handled ==
    ASSUME Handles, crooked \in BOOLEAN
    PROVE  pc = "idle" /\ crooked' \in BOOLEAN /\ (~crooked' => ~crooked /\ Straight')
BY DEF Handles
-----------------------------------------------------------------------------
\* A password that is sealed is a pair of it and the hash type.
LEMMA SealedPair ==
    ASSUME NEW p, NEW h, MakePasswd(p, h) # NULL
    PROVE  conf.crypto /\ h \in Works /\ MakePasswd(p, h) = <<p, h>>
BY DEF MakePasswd, CreateHash

LEMMA SealedHash ==
    ASSUME NEW p \in Password, NEW h
    PROVE  MakePasswd(p, h) \in Hash
BY UsersAssumption DEF MakePasswd, CreateHash, Hash

Files == {NULL, Emptied, Earlier} \cup Seq(Entry)

\* A save leaves the file, because it has nothing to write, fails, or cannot open it, or empties
\* it and goes on to write it.
LEMMA SaveOfMeans ==
    ASSUME NEW list, SaveOf(list)
    PROVE  \/ list = << >> /\ pc' = pc /\ file' = file /\ unsaved' = unsaved
           \/ pc' = "down" /\ file' = file /\ unsaved' = unsaved
           \/ pc' = "saving" /\ file' = Emptied /\ unsaved' = unsaved
           \/ pc' = "idle" /\ file' = file /\ unsaved' = TRUE
BY DEF SaveOf, Open
-----------------------------------------------------------------------------
\* A step that leaves the users and what they were told, as most messages do: a session has the
\* user that it had or one of the list.
LEMMA ListKept ==
    ASSUME IInv, user' = user, users' = users, told' = told, annulled' = annulled,
           crooked' \in BOOLEAN, ~crooked' => ~crooked, unsaved' \in BOOLEAN,
           reach' \in {"messages", "sessions", "none"},
           conf' \in Conf, conf' = conf \/ ~conf'.crypto,
           file' \in Files, pc' \in {"idle", "saving", "dying", "down"},
           sess' \in Session,
           sess'.st # "none" => \/ sess.st # "none" /\ sess'.user = sess.user
                                \/ \E i \in DOMAIN users : users[i] = sess'.user
    PROVE  Types' /\ Distinct' /\ OneHash' /\ Announced' /\ Stay'
<1>1. Types
  BY DEF IInv
<1>2. sess'.st # "none" => sess'.user \in DOMAIN user
  BY <1>1, ListTypes DEF Types, TypeOK
<1>3. Types'
  BY <1>1, <1>2 DEF Types, TypeOK, Files, Session
<1>4. Distinct' /\ OneHash' /\ Announced'
  BY DEF IInv, Distinct, OneHash, Announced, At
<1>5. Stay'
  <2> SUFFICES ASSUME ~crooked' PROVE
                 /\ Straight'
                 /\ sess'.st # "none" => \E i \in DOMAIN users' : users'[i] = sess'.user
                 /\ \A t \in told' : \E i \in DOMAIN users' :
                      At(i)'.nick = t.nick /\ (t.sealed => Holds(At(i), t)')
                 /\ \A x \in annulled' : \E i \in DOMAIN users' : At(i)'.nick = x
    BY DEF Stay
  <2>1. Stay /\ ~crooked
    BY DEF IInv
  <2> QED BY <2>1 DEF Stay, Straight, At, Holds
<1> QED BY <1>3, <1>4, <1>5

\* Between the saves the file stays with it.
LEMMA FileKept ==
    ASSUME IInv, user' = user, users' = users, annulled' = annulled, ~crooked' => ~crooked,
           pc' = "idle" /\ ~unsaved' => pc = "idle" /\ file' = file /\ ~unsaved
    PROVE  Filed'
BY DEF IInv, Filed, At, EntryOf, Noted

\* Who is in has come in before.
LEMMA LoginKept ==
    ASSUME IInv, user' = user, told' = told, ~crooked' => ~crooked,
           sess'.st = "in" => sess.st = "in" /\ sess'.user = sess.user /\ sess'.pw = sess.pw
    PROVE  LoginsWereTold'
BY DEF IInv, LoginsWereTold

LEMMA WriteKeeps == ASSUME IInv, Write PROVE IInv'
<1>1. /\ user' = user /\ users' = users /\ conf' = conf /\ sess' = sess /\ told' = told
      /\ crooked' = crooked /\ annulled' = annulled /\ reach' = reach
      /\ unsaved' \in {unsaved, FALSE}
  BY DEF Write
<1>2. Types
  BY DEF IInv
<1>3. \A i \in 1..Len(users) : EntryOf(At(i)) \in Entry
  BY <1>2, ListTypes DEF EntryOf, Entry, User
<1> DEFINE written == [i \in DOMAIN users |-> EntryOf(user[users[i]])]
<1>4. written \in Seq(Entry) /\ DOMAIN written = DOMAIN users
  <2>1. DOMAIN users = 1..Len(users) /\ Len(users) \in Nat
    BY <1>2, ListTypes
  <2>2. written \in [1..Len(users) -> Entry]
    BY <1>3, <2>1 DEF At
  <2> QED BY <2>1, <2>2, SeqDef
<1>5. \/ file' = file /\ pc' = "down"
      \/ /\ file' = written /\ pc' \in {"idle", "down"}
         /\ \A i \in DOMAIN users : At(i).flags
  BY DEF Write, At
<1>6. file' \in Files /\ pc' \in {"idle", "down"}
  BY <1>2, <1>4, <1>5 DEF Types, TypeOK, Files
<1>7. Types' /\ Distinct' /\ OneHash' /\ Announced' /\ Stay'
  BY <1>1, <1>2, <1>6, ListKept DEF Types, TypeOK
<1>8. Filed'
  <2> SUFFICES ASSUME pc' = "idle", NEW i \in DOMAIN users
               PROVE  /\ At(i).flags /\ file' \notin {NULL, Emptied, Earlier}
                      /\ \E k \in DOMAIN file' : file'[k] = EntryOf(At(i))
    BY <1>1 DEF Filed, At, EntryOf
  <2>1. file' = written /\ At(i).flags
    BY <1>5
  <2>2. written \notin {NULL, Emptied, Earlier}
    BY <1>4, UsersAssumption
  <2>3. written[i] = EntryOf(At(i))
    BY DEF At
  <2> QED BY <1>4, <2>1, <2>2, <2>3
<1>9. LoginsWereTold'
  BY <1>1, LoginKept
<1> QED BY <1>7, <1>8, <1>9 DEF IInv
-----------------------------------------------------------------------------
\* The messages that leave the users as they are.
LEMMA QuietKeeps ==
    ASSUME IInv, Handles, UNCHANGED <<user, users, told, annulled>>,
           conf' \in Conf, conf' = conf \/ ~conf'.crypto,
           reach' \in {"messages", "sessions", "none"},
           \/ pc' \in {"idle", "down"} /\ file' = file /\ unsaved' = unsaved
           \/ pc' \in {"idle", "down"} /\ file' = file /\ unsaved' = TRUE
           \/ pc' \in {"saving", "dying"} /\ file' = Emptied /\ unsaved' = unsaved,
           sess' \in Session,
           sess'.st # "none" => \/ sess.st # "none" /\ sess'.user = sess.user
                                \/ \E i \in DOMAIN users : users[i] = sess'.user,
           sess'.st = "in" => sess.st = "in" /\ sess'.user = sess.user /\ sess'.pw = sess.pw
    PROVE  IInv'
<1>1. Types
  BY DEF IInv
<1>2. pc = "idle" /\ crooked' \in BOOLEAN /\ (~crooked' => ~crooked)
  BY <1>1, Handled DEF Types
<1>3. file' \in Files /\ pc' \in {"idle", "saving", "dying", "down"} /\ unsaved' \in BOOLEAN
  BY <1>1 DEF Types, TypeOK, Files
<1>4. Types' /\ Distinct' /\ OneHash' /\ Announced' /\ Stay'
  BY <1>2, <1>3, ListKept
<1>5. Filed'
  BY <1>2, FileKept
<1>6. LoginsWereTold'
  BY <1>2, LoginKept
<1> QED BY <1>4, <1>5, <1>6 DEF IInv

LEMMA GoodbyeKeeps == ASSUME IInv, Goodbye PROVE IInv'
<1>1. /\ conf' = conf /\ sess' = sess /\ conf \in Conf /\ sess \in Session
      /\ \/ pc' = "down" /\ file' = file /\ unsaved' = unsaved
         \/ pc' = "down" /\ file' = file /\ unsaved' = TRUE
         \/ pc' = "dying" /\ file' = Emptied /\ unsaved' = unsaved
      /\ reach' \in {"messages", "sessions", "none"}
  BY DEF Goodbye, Open, IInv, Types, TypeOK
<1> QED BY <1>1, QuietKeeps DEF Goodbye

LEMMA MatchAttrKeeps == ASSUME IInv, MatchAttrOfNobody PROVE IInv'
<1>1. /\ conf' = conf /\ sess' = sess /\ conf \in Conf /\ sess \in Session
      /\ reach' \in {"messages", "sessions", "none"}
  BY DEF MatchAttrOfNobody, IInv, Types, TypeOK
<1> QED BY <1>1, QuietKeeps DEF MatchAttrOfNobody

LEMMA NameLineKeeps == ASSUME IInv, NEW n \in Name, NameLine(n) PROVE IInv'
<1>1. /\ Types /\ conf' = conf /\ conf \in Conf /\ pc' = pc /\ file' = file
      /\ unsaved' = unsaved /\ reach' \in {"messages", "sessions", "none"}
  BY DEF NameLine, IInv, Types, TypeOK
<1>2. Named(n) \in 1..Len(users)
  BY <1>1, NamedIsFirst, ListTypes DEF NameLine
<1>3. users[Named(n)] \in Nat /\ DOMAIN users = 1..Len(users)
  BY <1>1, <1>2, ListTypes
<1>4. sess' = [sess EXCEPT !.st = "named", !.user = users[Named(n)]] /\ sess \in Session
  BY <1>1 DEF NameLine, Types
<1>5. sess' \in Session /\ sess'.st = "named" /\ sess'.user = users[Named(n)]
  BY <1>3, <1>4 DEF Session
<1>6. pc = "idle"
  BY DEF NameLine, Handles
<1> QED BY <1>1, <1>2, <1>3, <1>5, <1>6, QuietKeeps DEF NameLine

\* A session that is given up or goes on as it was.
LEMMA SessionKeeps ==
    ASSUME IInv, Handles, UNCHANGED <<user, users, told, file, conf, reach, annulled, unsaved>>,
           sess' \in {sess, NoSession}, pc' \in {"idle", "down"}
    PROVE  IInv'
<1>1. /\ conf' = conf /\ conf \in Conf /\ sess \in Session
      /\ reach' \in {"messages", "sessions", "none"}
  BY DEF IInv, Types, TypeOK
<1>2. NoSession \in Session /\ NoSession.st = "none"
  BY DEF NoSession, Session
<1> QED BY <1>1, <1>2, QuietKeeps

LEMMA PassLineKeeps ==
    ASSUME IInv, NEW p \in Password, PassLineWrong(p) \/ PassLineFault(p) \/ PassLineFreed \/ HangUp
    PROVE  IInv'
<1>1. /\ Handles /\ UNCHANGED <<user, users, told, file, conf, reach, annulled, unsaved>>
      /\ sess' \in {sess, NoSession}
      /\ pc' = pc \/ pc' \in {"idle", "down"}
  BY DEF PassLineWrong, PassLineFault, PassLineFreed, HangUp
<1>2. pc = "idle"
  BY <1>1 DEF Handles
<1> QED BY <1>1, <1>2, SessionKeeps

LEMMA SaveAllKeeps == ASSUME IInv, SaveAll PROVE IInv'
<1>1. /\ conf' = conf /\ sess' = sess /\ conf \in Conf /\ sess \in Session
      /\ reach' \in {"messages", "sessions", "none"}
  BY DEF SaveAll, IInv, Types, TypeOK
<1>2. \/ pc' = "idle" /\ file' = file /\ unsaved' = TRUE
      \/ pc' = "saving" /\ file' = Emptied /\ unsaved' = unsaved
  BY DEF SaveAll, Open
<1> QED BY <1>1, <1>2, QuietKeeps DEF SaveAll

LEMMA RehashKeeps == ASSUME IInv, Rehash PROVE IInv'
<1>1. conf' \in Conf /\ ~conf'.crypto
  BY UsersAssumption DEF Rehash
<1>2. sess \in Session /\ pc = "idle" /\ reach' \in {"messages", "sessions", "none"}
  BY DEF IInv, Types, TypeOK, Rehash, Handles
<1>3. /\ sess' \in Session
      /\ sess'.st = sess.st /\ sess'.user = sess.user /\ sess'.pw = sess.pw
  BY <1>2 DEF Rehash, Session
<1> QED BY <1>1, <1>2, <1>3, QuietKeeps DEF Rehash
-----------------------------------------------------------------------------
\* Without users everything holds.
LEMMA EmptyHolds ==
    ASSUME Forgets, pc' \in {"idle", "down"}, conf' \in Conf, file' \in Files,
           reach' \in {"messages", "sessions", "none"}
    PROVE  IInv'
<1>0. /\ user' = << >> /\ users' = << >> /\ sess' = NoSession
      /\ told' = {} /\ crooked' = FALSE /\ annulled' = {} /\ unsaved' = FALSE
  BY DEF Forgets
<1>1. DOMAIN user' = {} /\ DOMAIN users' = {} /\ Len(user') = 0
  BY <1>0
<1>2. user' \in Seq(User) /\ users' \in Seq(DOMAIN user') /\ IsInjective(users')
  BY <1>0, <1>1 DEF IsInjective
<1>3. NoSession \in Session /\ NoSession.st = "none"
  BY DEF NoSession, Session
<1>4. Types'
  <2>1. Len(user') <= MaxUsers
    BY <1>1, UsersAssumption
  <2>2. TypeOK'
    BY <1>0, <1>2, <1>3, <2>1 DEF TypeOK, Files
  <2>3. /\ told' \in SUBSET Told /\ crooked' \in BOOLEAN /\ annulled' \in SUBSET Name
        /\ unsaved' \in BOOLEAN
    BY <1>0
  <2> QED BY <1>0, <1>3, <2>2, <2>3 DEF Types
<1>5. Distinct' /\ OneHash' /\ Announced' /\ Filed'
  BY <1>1 DEF Distinct, OneHash, Announced, Filed
<1>6. Stay' /\ LoginsWereTold'
  BY <1>0, <1>1, <1>3 DEF Stay, Straight, LoginsWereTold
<1> QED BY <1>4, <1>5, <1>6 DEF IInv

LEMMA CrashKeeps == ASSUME IInv, Crash PROVE IInv'
<1>1. file \in Files /\ conf \in Conf /\ reach \in {"messages", "sessions", "none"}
  BY DEF IInv, Types, TypeOK, Files
<1> QED BY <1>1, EmptyHolds DEF Crash

LEMMA RestartKeeps == ASSUME IInv, Restart PROVE IInv'
<1>1. file' \in Files /\ conf' \in Conf
  BY UsersAssumption DEF Restart, Files, Aged
<1> QED BY <1>1, EmptyHolds DEF Restart

LEMMA RehashForgetsKeeps == ASSUME IInv, RehashForgets PROVE IInv'
<1>1. file' \in Files /\ conf' \in Conf
  BY UsersAssumption DEF RehashForgets, Files, Aged
<1> QED BY <1>1, EmptyHolds DEF RehashForgets
-----------------------------------------------------------------------------
\* What becomes of the two sequences when a user comes after the m-th of the list.
LEMMA Lengthened ==
    ASSUME NEW U, NEW a \in Seq(U), NEW e \in U, NEW l \in Seq(1..Len(a)), NEW m \in 0..Len(l)
    PROVE  /\ Append(a, e) \in Seq(U) /\ Len(Append(a, e)) = Len(a) + 1
           /\ \A v \in 1..Len(a) : Append(a, e)[v] = a[v]
           /\ Append(a, e)[Len(a) + 1] = e
           /\ Append(SubSeq(l, 1, m), Len(a) + 1) \in Seq(1..(Len(a) + 1))
           /\ Len(Append(SubSeq(l, 1, m), Len(a) + 1)) = m + 1
           /\ \A i \in 1..m : Append(SubSeq(l, 1, m), Len(a) + 1)[i] = l[i]
           /\ Append(SubSeq(l, 1, m), Len(a) + 1)[m + 1] = Len(a) + 1
<1> DEFINE s == SubSeq(l, 1, m)
           k == Len(a) + 1
<1>1. Len(a) \in Nat /\ Len(l) \in Nat /\ m \in Nat /\ k \in 1..k
  OBVIOUS
<1>2. \A i \in 1..m : l[i] \in 1..k
  BY <1>1
<1>3. s \in Seq(1..k) /\ Len(s) = m /\ \A i \in 1..m : s[i] = l[i]
  BY <1>1, <1>2, SubSeqProperties
<1> HIDE DEF s, k
<1>4. /\ Append(s, k) \in Seq(1..k) /\ Len(Append(s, k)) = m + 1
      /\ \A i \in 1..m : Append(s, k)[i] = s[i]
      /\ Append(s, k)[m + 1] = k
  BY <1>1, <1>3, AppendProperties
<1>5. /\ Append(a, e) \in Seq(U) /\ Len(Append(a, e)) = Len(a) + 1
      /\ \A v \in 1..Len(a) : Append(a, e)[v] = a[v]
      /\ Append(a, e)[Len(a) + 1] = e
  BY AppendProperties
<1> QED BY <1>3, <1>4, <1>5 DEF s, k

\* A new user at the end of the list, or after the m-th if hello cuts the rest off.
LEMMA LongerKeeps ==
    ASSUME IInv, Handles, NEW u \in User, u.pass = NULL, u.name \in Name,
           NEW n \in Nat, n = Len(user), n + 1 <= MaxUsers, NEW m \in Nat, m <= Len(users),
           user' \in Seq(User), Len(user') = n + 1, user'[n + 1] = u,
           \A v \in 1..n : user'[v] = user[v],
           users' \in Seq(1..(n + 1)), Len(users') = m + 1, users'[m + 1] = n + 1,
           \A i \in 1..m : users'[i] = users[i],
           UNCHANGED <<conf, sess, reach, told, annulled>>,
           \/ pc' = pc /\ file' = file /\ unsaved' = unsaved
           \/ pc' = "idle" /\ file' = file /\ unsaved' = TRUE
           \/ pc' \in {"saving", "down"} /\ file' \in {file, Emptied} /\ unsaved' = unsaved,
           Straight => m = Len(users),
           \A i \in 1..m : ~(At(i).name = u.name /\ At(i).nick = u.name)
    PROVE  IInv'
<1>1. Types
  BY DEF IInv
<1>2. /\ DOMAIN user = 1..n
      /\ DOMAIN users = 1..Len(users) /\ Len(users) \in Nat
      /\ \A i \in 1..m : i \in 1..Len(users) /\ users[i] \in 1..n
      /\ \A i, j \in 1..m : users[i] = users[j] => i = j
  <2>1. /\ DOMAIN user = 1..Len(user) /\ DOMAIN users = 1..Len(users) /\ Len(users) \in Nat
        /\ \A i \in 1..Len(users) : users[i] \in 1..Len(user)
        /\ \A i, j \in 1..Len(users) : users[i] = users[j] => i = j
    BY <1>1, ListTypes
  <2>2. \A k \in Nat : m <= k => \A i \in 1..m : i \in 1..k
    OBVIOUS
  <2>3. \A i \in 1..m : i \in 1..Len(users)
    BY <2>1, <2>2
  <2> QED BY <2>1, <2>3
<1>3. DOMAIN user' = 1..(n + 1) /\ DOMAIN users' = 1..(m + 1)
  OBVIOUS
<1>5. /\ \A i \in 1..(m + 1) : i \in 1..m \/ i = m + 1
      /\ \A v \in 1..(n + 1) : v \in 1..n \/ v = n + 1
      /\ \A i \in 1..m : i \in 1..(m + 1)
      /\ \A v \in 1..n : v # n + 1 /\ v \in 1..(n + 1)
  OBVIOUS
<1>6. /\ \A i \in 1..m : At(i)' = At(i)
      /\ At(m + 1)' = u
  BY <1>2 DEF At
<1>8. pc = "idle" /\ crooked' \in BOOLEAN /\ (~crooked' => ~crooked /\ Straight')
  BY <1>1, Handled DEF Types
<1>9. ~crooked' => m = Len(users)
  BY <1>8 DEF IInv, Stay
<1>10. Types'
  <2>1. IsInjective(users')
    <3> SUFFICES ASSUME NEW i \in 1..(m + 1), NEW j \in 1..(m + 1), users'[i] = users'[j]
                 PROVE  i = j
      BY <1>3 DEF IsInjective
    <3>1. \A k \in 1..m : users'[k] \in 1..n /\ users'[k] # n + 1
      BY <1>2, <1>5
    <3> QED BY <1>2, <1>5, <3>1
  <2>2. users' \in Seq(DOMAIN user') /\ Len(user') <= MaxUsers
    BY <1>3
  <2>3. sess'.st # "none" => sess'.user \in DOMAIN user'
    BY <1>1, <1>2, <1>3, <1>5 DEF Types, TypeOK
  <2>4. TypeOK'
    BY <1>1, <2>1, <2>2, <2>3 DEF Types, TypeOK
  <2>5. unsaved' \in BOOLEAN
    BY <1>1 DEF Types
  <2> QED BY <1>1, <1>8, <2>4, <2>5 DEF Types
<1>11. Distinct'
  <2> SUFFICES ASSUME NEW i \in 1..(m + 1), NEW j \in 1..(m + 1),
                      At(i)'.name = At(i)'.nick, At(j)'.name = At(j)'.nick,
                      At(i)'.name = At(j)'.name
               PROVE  i = j
    BY <1>3 DEF Distinct
  <2>1. CASE i \in 1..m /\ j \in 1..m
    <3>1. Distinct /\ i \in DOMAIN users /\ j \in DOMAIN users /\ At(i)' = At(i) /\ At(j)' = At(j)
      BY <1>2, <1>6, <2>1 DEF IInv
    <3> QED BY <3>1 DEF Distinct
  <2>2. CASE i = m + 1 \/ j = m + 1
    BY ZenonT(60), <1>5, <1>6, <2>2
  <2> QED BY <1>5, <2>1, <2>2
<1>12. OneHash' /\ Announced'
  <2>1. \A v \in DOMAIN user' : user'[v].pass # NULL => v \in DOMAIN user /\ user'[v] = user[v]
    BY <1>2, <1>3, <1>5
  <2> QED BY SMTT(30), <2>1 DEF IInv, OneHash, Announced
<1>13. Stay'
  <2> SUFFICES ASSUME ~crooked' PROVE
                 /\ Straight'
                 /\ sess'.st # "none" => \E i \in DOMAIN users' : users'[i] = sess'.user
                 /\ \A t \in told' : \E i \in DOMAIN users' :
                      At(i)'.nick = t.nick /\ (t.sealed => Holds(At(i), t)')
                 /\ \A x \in annulled' : \E i \in DOMAIN users' : At(i)'.nick = x
    BY DEF Stay
  <2>1. Stay /\ ~crooked /\ Straight' /\ DOMAIN users = 1..m
    BY <1>2, <1>8, <1>9 DEF IInv
  <2>2. \A i \in 1..m : i \in DOMAIN users' /\ users'[i] = users[i] /\ At(i)' = At(i)
    BY <1>3, <1>5, <1>6
  <2>3. \A i \in 1..m, t \in told : Holds(At(i), t) => Holds(At(i), t)'
    BY <2>2 DEF Holds
  <2>4. sess'.st # "none" => \E i \in DOMAIN users' : users'[i] = sess'.user
    BY <2>1, <2>2 DEF Stay
  <2>5. ASSUME NEW t \in told'
        PROVE  \E i \in DOMAIN users' : At(i)'.nick = t.nick /\ (t.sealed => Holds(At(i), t)')
    <3>1. PICK i \in 1..m : At(i).nick = t.nick /\ (t.sealed => Holds(At(i), t))
      BY <2>1 DEF Stay
    <3>2. i \in DOMAIN users' /\ At(i)' = At(i)
      BY <2>2
    <3> QED BY <2>3, <3>1, <3>2
  <2>6. \A k \in annulled' : \E i \in DOMAIN users' : At(i)'.nick = k
    BY <2>1, <2>2 DEF Stay
  <2> QED BY <2>1, <2>4, <2>5, <2>6
<1>14. Filed'
  <2> SUFFICES ASSUME pc' = "idle", ~crooked', ~unsaved', NEW i \in 1..(m + 1), Noted(At(i))'
               PROVE  /\ At(i)'.flags /\ file' \notin {NULL, Emptied, Earlier}
                      /\ \E k \in DOMAIN file' : file'[k] = EntryOf(At(i)')
    BY <1>3 DEF Filed, EntryOf
  <2>1. i \in 1..m /\ At(i)' = At(i) /\ i \in DOMAIN users
    <3>1. SUFFICES ASSUME i = m + 1 PROVE FALSE
      BY <1>2, <1>5, <1>6
    <3>2. At(i)' = u /\ u.nick \in annulled
      BY <1>6, <3>1 DEF Noted
    <3>3. Stay /\ ~crooked /\ DOMAIN users = 1..m /\ Straight'
      BY <1>2, <1>8, <1>9 DEF IInv
    <3>4. PICK j \in 1..m : At(j).nick = u.nick
      BY <3>2, <3>3 DEF Stay
    <3>5. j \in DOMAIN users' /\ i \in DOMAIN users' /\ At(j)' = At(j) /\ j # i
      BY <1>3, <1>5, <1>6, <3>1
    <3>6. At(j)'.name = At(j)'.nick /\ At(i)'.name = At(i)'.nick
      BY <3>3, <3>5 DEF Straight, At
    <3> QED BY <1>11, <3>2, <3>4, <3>5, <3>6 DEF Distinct
  <2>2. file' = file /\ pc = "idle" /\ ~crooked /\ ~unsaved
    BY <1>8
  <2>3. Noted(At(i))
    BY <2>1 DEF Noted
  <2> QED BY <2>1, <2>2, <2>3 DEF IInv, Filed
<1>15. LoginsWereTold'
  BY <1>1, <1>2, <1>3, <1>8 DEF IInv, LoginsWereTold, Types, TypeOK
<1> QED BY <1>10, <1>11, <1>12, <1>13, <1>14, <1>15 DEF IInv

LEMMA GrownKeeps ==
    ASSUME IInv, Handles, NEW u \in User, u.pass = NULL, u.name \in Name,
           NEW m \in 0..Len(users), Len(user) < MaxUsers,
           user' = Append(user, u), users' = Append(SubSeq(users, 1, m), Len(user) + 1),
           UNCHANGED <<conf, sess, reach, told, annulled>>,
           \/ pc' = pc /\ file' = file /\ unsaved' = unsaved
           \/ pc' = "idle" /\ file' = file /\ unsaved' = TRUE
           \/ pc' \in {"saving", "down"} /\ file' \in {file, Emptied} /\ unsaved' = unsaved,
           Straight => m = Len(users),
           \A i \in 1..m : ~(At(i).name = u.name /\ At(i).nick = u.name)
    PROVE  IInv'
<1>1. /\ user \in Seq(User) /\ Len(user) \in Nat
      /\ users \in Seq(1..Len(user)) /\ Len(users) \in Nat
  BY ListTypes DEF IInv
<1>2. m \in Nat /\ m <= Len(users) /\ Len(user) + 1 <= MaxUsers
  BY <1>1, UsersAssumption
<1> DEFINE a == Append(user, u)
           l == Append(SubSeq(users, 1, m), Len(user) + 1)
<1>3. /\ a \in Seq(User) /\ Len(a) = Len(user) + 1
      /\ \A v \in 1..Len(user) : a[v] = user[v]
      /\ a[Len(user) + 1] = u
      /\ l \in Seq(1..(Len(user) + 1))
      /\ Len(l) = m + 1
      /\ \A i \in 1..m : l[i] = users[i]
      /\ l[m + 1] = Len(user) + 1
  BY <1>1, Lengthened
<1>4. user' = a /\ users' = l
  OBVIOUS
<1> HIDE DEF a, l
<1>5. /\ user' \in Seq(User) /\ Len(user') = Len(user) + 1 /\ user'[Len(user) + 1] = u
      /\ \A v \in 1..Len(user) : user'[v] = user[v]
      /\ users' \in Seq(1..(Len(user) + 1)) /\ Len(users') = m + 1
      /\ users'[m + 1] = Len(user) + 1
      /\ \A i \in 1..m : users'[i] = users[i]
  BY <1>3, <1>4, Zenon
<1> QED BY <1>1, <1>2, <1>5, LongerKeeps

LEMMA NewUserIsUser ==
    ASSUME conf \in Conf, NEW n \in Name, NEW nick \in Name, NEW h \in HashType \cup {NULL}
    PROVE  /\ NewUser(n, nick, h) \in User
           /\ NewUser(n, nick, h).name = n /\ NewUser(n, nick, h).nick = nick
           /\ NewUser(n, nick, h).pass = NULL
BY DEF NewUser, User, Hash, Conf

LEMMA AddUserKeeps == ASSUME IInv, NEW n \in Name, NEW nick \in Name, AddUser(n, nick) PROVE IInv'
<1> DEFINE u == NewUser(n, nick, NULL)
<1>1. Types /\ conf \in Conf
  BY DEF IInv, Types, TypeOK
<1>2. u \in User /\ u.name = n /\ u.pass = NULL
  BY <1>1, NewUserIsUser
<1>3. \A i \in 1..Len(users) : At(i).name # n
  BY <1>1, NotTaken DEF AddUser
<1>4. /\ user' = Append(user, u) /\ Len(user) < MaxUsers /\ users' = Append(users, Len(user) + 1)
      /\ SaveOf(users') /\ UNCHANGED <<conf, sess, reach, told, annulled>> /\ Handles
  BY DEF AddUser, Added
<1> HIDE DEF u
<1>5. /\ Len(users) \in Nat /\ Len(users) \in 0..Len(users)
      /\ SubSeq(users, 1, Len(users)) = users
  BY <1>1, ListTypes, SubSeqFull
<1>6. \/ pc' = pc /\ file' = file /\ unsaved' = unsaved
      \/ pc' = "idle" /\ file' = file /\ unsaved' = TRUE
      \/ pc' \in {"saving", "down"} /\ file' \in {file, Emptied} /\ unsaved' = unsaved
  BY <1>4, SaveOfMeans
<1> QED BY <1>2, <1>3, <1>4, <1>5, <1>6, GrownKeeps

\* Where hello stops: after the last user, or at one whose nick is another.
LEMMA StopMeans ==
    ASSUME Types, users # << >>, NEW n, At(Stop(n)).nick # n
    PROVE  /\ Stop(n) \in 1..Len(users)
           /\ Straight => Stop(n) = Len(users) /\ Named(n) = 0
           /\ \A i \in 1..Stop(n) : ~(At(i).name = n /\ At(i).nick = n)
<1>1. Len(users) \in Nat /\ Len(users) # 0 /\ DOMAIN users = 1..Len(users)
  BY ListTypes, EmptySeq
<1>2. CASE Named(n) = 0
  BY <1>1, <1>2, NamedIsFirst DEF Stop
<1>3. CASE Named(n) # 0
  <2>1. Stop(n) = Named(n) /\ Stop(n) \in 1..Len(users) /\ At(Stop(n)).name = n
    BY <1>1, <1>3, NamedIsFirst DEF Stop
  <2>2. ~Straight
    BY <1>1, <2>1 DEF Straight, At
  <2>3. \A i \in 1..Len(users) : At(i).name = n => Stop(n) <= i
    BY <1>3, <2>1, NamedIsFirst
  <2>4. \A i \in 1..Stop(n) : i \in 1..Len(users) /\ (Stop(n) <= i => i = Stop(n))
    BY <1>1, <2>1
  <2> QED BY <2>1, <2>2, <2>3, <2>4
<1> QED BY <1>2, <1>3

LEMMA HelloKeeps == ASSUME IInv, NEW n \in Name, Hello(n) PROVE IInv'
<1> DEFINE u == NewUser(n, n, conf.hash)
<1>1. Types /\ conf \in Conf /\ conf.hash \in HashType \cup {NULL}
  BY DEF IInv, Types, TypeOK, Conf
<1>2. u \in User /\ u.name = n /\ u.pass = NULL
  BY <1>1, NewUserIsUser
<1>3. /\ user' = Append(user, u) /\ Len(user) < MaxUsers
      /\ UNCHANGED <<file, pc, conf, sess, reach, told, annulled, unsaved>> /\ Handles
  BY DEF Hello, Added
<1> HIDE DEF u
<1>4. Len(users) \in Nat
  BY <1>1, ListTypes
<1>5. CASE users = << >>
  <2>1. Len(users) = 0 /\ SubSeq(users, 1, 0) = << >> /\ users' = <<Len(user) + 1>>
    BY <1>5, SubSeqEmpty DEF Hello
  <2>2. users' = Append(SubSeq(users, 1, 0), Len(user) + 1)
    BY <2>1
  <2>3. 0 \in 0..Len(users) /\ \A i \in 1..0 : ~(At(i).name = u.name /\ At(i).nick = u.name)
    BY <2>1
  <2> QED BY <1>2, <1>3, <2>1, <2>2, <2>3, GrownKeeps
<1>6. CASE users # << >>
  <2>1. /\ At(Stop(n)).nick # n
        /\ users' = Append(SubSeq(users, 1, Stop(n)), Len(user) + 1)
    BY <1>6 DEF Hello, At
  <2>2. /\ Stop(n) \in 0..Len(users) /\ (Straight => Stop(n) = Len(users))
        /\ \A i \in 1..Stop(n) : ~(At(i).name = n /\ At(i).nick = n)
    BY <1>1, <1>4, <1>6, <2>1, StopMeans
  <2> QED BY <1>2, <1>3, <2>1, <2>2, GrownKeeps
<1> QED BY <1>5, <1>6
-----------------------------------------------------------------------------
\* A user of the list changes, but not the nick or the flags.
LEMMA ChangedTypes ==
    ASSUME Types, NEW v \in DOMAIN user, NEW u \in User, user' = [user EXCEPT ![v] = u],
           users' = users
    PROVE  /\ user' \in Seq(User) /\ Len(user') = Len(user) /\ DOMAIN user' = DOMAIN user
           /\ \A w \in DOMAIN user : user'[w] = IF w = v THEN u ELSE user[w]
           /\ \A i \in DOMAIN users : At(i)' = IF users[i] = v THEN u ELSE At(i)
<1>1. /\ user \in Seq(User) /\ DOMAIN user = 1..Len(user) /\ Len(user) \in Nat
      /\ DOMAIN users = 1..Len(users)
      /\ \A i \in 1..Len(users) : users[i] \in 1..Len(user)
  BY ListTypes
<1>2. /\ user' \in Seq(User) /\ Len(user') = Len(user)
      /\ \A w \in 1..Len(user) : user'[w] = IF w = v THEN u ELSE user[w]
  BY <1>1, ExceptSeq
<1>3. DOMAIN user' = DOMAIN user
  BY <1>1
<1> QED BY <1>1, <1>2, <1>3 DEF At

\* A user gets another name: not the nick, if names have been the nicks.
LEMMA ChHandleKeeps == ASSUME IInv, NEW old \in Name, NEW new \in Name, ChHandle(old, new) PROVE IInv'
<1> DEFINE olds == {i \in DOMAIN users : user[users[i]].name = old}
<1>0. PICK c : c = CHOOSE i \in olds : \A j \in olds : j <= i
  OBVIOUS
<1>1. /\ olds # {} /\ Named(new) = 0
      /\ user' = [user EXCEPT ![users[c]].name = new]
      /\ UNCHANGED <<users, file, pc, conf, sess, reach, told, annulled, unsaved>> /\ Handles
  BY <1>0 DEF ChHandle
<1>2. /\ Types /\ DOMAIN users = 1..Len(users) /\ Len(users) \in Nat
      /\ DOMAIN user = 1..Len(user)
      /\ \A i \in 1..Len(users) : users[i] \in 1..Len(user) /\ At(i) \in User
      /\ \A i, j \in 1..Len(users) : users[i] = users[j] => i = j
  BY ListTypes DEF IInv
<1>3. olds \subseteq 1..Len(users)
  BY <1>2
<1>4. \E i \in olds : \A j \in olds : j <= i
  <2> DEFINE back == {k \in Nat : \E i \in olds : k = Len(users) - i}
  <2>1. back \in SUBSET Nat
    OBVIOUS
  <2>2. back # {}
    <3>1. PICK i \in olds : TRUE
      BY <1>1
    <3>2. Len(users) - i \in Nat
      BY <1>2, <1>3
    <3> QED BY <3>1, <3>2
  <2>3. PICK k \in back : \A y \in back : k <= y
    BY <2>1, <2>2, Lists!LeastNat
  <2>4. PICK i \in olds : k = Len(users) - i
    BY <2>3
  <2>5. \A j \in olds : Len(users) - j \in back /\ j \in Nat
    BY <1>2, <1>3
  <2>6. \A j \in olds : j <= i
    BY SMTT(30), <1>2, <1>3, <2>3, <2>4, <2>5
  <2> QED BY <2>6
<1>5. c \in olds
  BY <1>0, <1>4
<1>6. c \in 1..Len(users) /\ At(c).name = old
  BY <1>3, <1>5 DEF At
<1> HIDE DEF olds
<1> DEFINE v == users[c]
           u == [user[v] EXCEPT !.name = new]
<1>7. v \in DOMAIN user /\ user[v] \in User
  BY <1>2, <1>6 DEF At
<1>8. /\ u \in User /\ u.name = new /\ u.nick = user[v].nick /\ u.pass = user[v].pass
      /\ u.hash = user[v].hash
  BY <1>7 DEF User
<1>9. user' = [user EXCEPT ![v] = u]
  BY <1>1, <1>7
<1> HIDE DEF v, u
<1>10. /\ user' \in Seq(User) /\ Len(user') = Len(user) /\ DOMAIN user' = DOMAIN user
       /\ \A w \in DOMAIN user : user'[w] = IF w = v THEN u ELSE user[w]
       /\ \A i \in DOMAIN users : At(i)' = IF users[i] = v THEN u ELSE At(i)
  BY ZenonT(60), <1>1, <1>2, <1>7, <1>8, <1>9, ChangedTypes
<1>11. At(c)' = u /\ \A i \in DOMAIN users : i # c => At(i)' = At(i)
  BY <1>1, <1>2, <1>6, <1>10 DEF v
<1>12. \A i \in DOMAIN users : At(i).name # new
  BY <1>1, <1>2, NamedIsFirst
<1>13. crooked' = TRUE
  <2>1. Handles /\ crooked \in BOOLEAN
    BY <1>1, <1>2 DEF Types
  <2>2. SUFFICES ASSUME ~crooked' PROVE FALSE
    BY <2>1, Handled
  <2>3. ~crooked /\ Straight'
    BY <2>1, <2>2, Handled
  <2>4. Straight
    BY <2>3 DEF IInv, Stay
  <2>5. At(c).name = At(c).nick /\ u.name = u.nick
    BY <1>1, <1>2, <1>6, <1>11, <2>3, <2>4 DEF Straight, At
  <2> QED BY <1>2, <1>6, <1>8, <1>12, <2>5 DEF v, At
<1>14. Types'
  <2>1. TypeOK'
    BY <1>1, <1>2, <1>10 DEF Types, TypeOK
  <2> QED BY <1>1, <1>2, <1>13, <2>1 DEF Types
<1>15. Distinct'
  <2> SUFFICES ASSUME NEW i \in DOMAIN users, NEW j \in DOMAIN users,
                      At(i)'.name = At(i)'.nick, At(j)'.name = At(j)'.nick,
                      At(i)'.name = At(j)'.name
               PROVE  i = j
    BY <1>1 DEF Distinct
  <2>1. CASE i # c /\ j # c
    <3>1. Distinct /\ At(i)' = At(i) /\ At(j)' = At(j)
      BY <1>11, <2>1 DEF IInv
    <3> QED BY <3>1 DEF Distinct
  <2>2. CASE i = c /\ j # c
    BY <1>8, <1>11, <1>12, <2>2
  <2>3. CASE i # c /\ j = c
    BY <1>8, <1>11, <1>12, <2>3
  <2> QED BY <2>1, <2>2, <2>3
<1>16. OneHash' /\ Announced'
  <2>1. \A w \in DOMAIN user : /\ user'[w].pass = user[w].pass /\ user'[w].hash = user[w].hash
                               /\ user'[w].nick = user[w].nick
    BY <1>8, <1>10
  <2> QED BY <1>1, <1>10, <2>1 DEF IInv, OneHash, Announced
<1>17. Stay' /\ Filed' /\ LoginsWereTold'
  BY <1>13 DEF Stay, Filed, LoginsWereTold
<1> QED BY <1>14, <1>15, <1>16, <1>17 DEF IInv

\* While names are the nicks, a nick is one user's.
LEMMA OneOfTheNick ==
    ASSUME IInv, Straight, NEW i \in DOMAIN users, NEW j \in DOMAIN users,
           At(i).nick = At(j).nick
    PROVE  i = j
<1>1. At(i).name = At(i).nick /\ At(j).name = At(j).nick
  BY DEF Straight, At
<1> QED BY <1>1 DEF IInv, Distinct

LEMMA PassKeeps == ASSUME IInv, NEW n \in Name, NEW p \in Password, Pass(n, p) PROVE IInv'
<1>0. PICK c : c = ByNick(n)
  OBVIOUS
<1> DEFINE v == users[c]
           sealed == MakePasswd(p, conf.hash)
           u == [user[v] EXCEPT !.pass = sealed, !.hash = conf.hash]
           t0 == [nick |-> n, pw |-> p, sealed |-> sealed # NULL]
<1>1. /\ c # 0 /\ user[v].pass = NULL
      /\ user' = [user EXCEPT ![v].pass = sealed, ![v].hash = conf.hash]
      /\ told' = told \cup {t0}
      /\ SaveOf(users)
      /\ UNCHANGED <<users, conf, sess, reach, annulled>> /\ Handles
  BY <1>0 DEF Pass
<1>2. /\ Types /\ DOMAIN users = 1..Len(users) /\ Len(users) \in Nat
      /\ DOMAIN user = 1..Len(user)
      /\ \A i \in 1..Len(users) : users[i] \in 1..Len(user) /\ At(i) \in User
      /\ \A i, j \in 1..Len(users) : users[i] = users[j] => i = j
  BY ListTypes DEF IInv
<1>3. c \in 1..Len(users) /\ At(c).nick = n
  BY <1>0, <1>1, <1>2, ByNickIsFirst
<1>4. sealed \in Hash /\ conf.hash \in HashType \cup {NULL} /\ conf \in Conf
  BY <1>2, SealedHash DEF Types, TypeOK, Conf
<1>5. sealed # NULL => sealed[1] = p /\ conf.crypto
  BY SealedPair
<1>6. t0 \in Told /\ t0.nick = n /\ t0.pw = p /\ (t0.sealed <=> sealed # NULL)
  BY DEF Told
<1> HIDE DEF sealed, t0
<1>7. v \in DOMAIN user /\ user[v] \in User /\ user[v] = At(c)
  BY <1>2, <1>3 DEF At
<1>8. /\ u \in User /\ u.name = user[v].name /\ u.nick = n /\ u.pass = sealed
      /\ u.hash = conf.hash
  BY <1>3, <1>4, <1>7 DEF User
<1>9. user' = [user EXCEPT ![v] = u]
  BY <1>1, <1>7
<1> HIDE DEF v, u
<1>10. /\ user' \in Seq(User) /\ Len(user') = Len(user) /\ DOMAIN user' = DOMAIN user
       /\ \A w \in DOMAIN user : user'[w] = IF w = v THEN u ELSE user[w]
       /\ \A i \in DOMAIN users : At(i)' = IF users[i] = v THEN u ELSE At(i)
  <2>1. users' = users /\ Types /\ v \in DOMAIN user /\ u \in User
    BY <1>1, <1>2, <1>7, <1>8
  <2> QED BY <1>9, <2>1, ChangedTypes
<1>11. At(c)' = u /\ \A i \in DOMAIN users : i # c => At(i)' = At(i)
  BY <1>1, <1>2, <1>3, <1>10 DEF v
<1>12. /\ \A w \in DOMAIN user : user'[w].nick = user[w].nick
       /\ \A i \in DOMAIN users : At(i)'.name = At(i).name /\ At(i)'.nick = At(i).nick
  BY <1>3, <1>7, <1>8, <1>10, <1>11
<1>13. pc = "idle" /\ crooked' \in BOOLEAN /\ (~crooked' => ~crooked /\ Straight')
  BY <1>1, <1>2, Handled DEF Types
<1>14. /\ file' \in Files /\ pc' \in {"idle", "saving", "down"} /\ unsaved' \in BOOLEAN
       /\ pc' = "idle" => unsaved'
  <2>1. users # << >>
    BY <1>2, <1>3
  <2> QED BY <1>1, <1>2, <2>1, SaveOfMeans DEF Types, TypeOK, Files
<1>15. Types'
  <2>1. TypeOK'
    BY <1>1, <1>2, <1>10, <1>14 DEF Types, TypeOK, Files
  <2>2. told' \in SUBSET Told
    BY <1>1, <1>2, <1>6 DEF Types
  <2> QED BY <1>1, <1>2, <1>13, <1>14, <2>1, <2>2 DEF Types
<1>16. Distinct'
  BY <1>1, <1>12 DEF IInv, Distinct
<1>17. OneHash'
  BY <1>1, <1>8, <1>10 DEF IInv, OneHash
<1>18. Announced'
  <2> SUFFICES ASSUME NEW w \in DOMAIN user, user'[w].pass # NULL
               PROVE  \E t \in told' : t.nick = user'[w].nick /\ t.pw = user'[w].pass[1] /\ t.sealed
    BY <1>10 DEF Announced
  <2>1. CASE w = v
    <3>1. user'[w].nick = n /\ user'[w].pass = sealed /\ sealed # NULL /\ t0 \in told'
      BY <1>1, <1>8, <1>10, <2>1
    <3> QED BY <1>5, <1>6, <3>1
  <2>2. CASE w # v
    BY <1>1, <1>10, <2>2 DEF IInv, Announced
  <2> QED BY <2>1, <2>2
<1>19. Stay'
  <2> SUFFICES ASSUME ~crooked' PROVE
                 /\ Straight'
                 /\ sess'.st # "none" => \E i \in DOMAIN users' : users'[i] = sess'.user
                 /\ \A t \in told' : \E i \in DOMAIN users' :
                      At(i)'.nick = t.nick /\ (t.sealed => Holds(At(i), t)')
                 /\ \A x \in annulled' : \E i \in DOMAIN users' : At(i)'.nick = x
    BY DEF Stay
  <2>1. Stay /\ ~crooked /\ Straight'
    BY <1>13 DEF IInv
  <2>2. ASSUME NEW t \in told'
        PROVE  \E i \in DOMAIN users : At(i)'.nick = t.nick /\ (t.sealed => Holds(At(i), t)')
    <3>1. CASE t = t0
      BY <1>2, <1>3, <1>5, <1>6, <1>8, <1>11, <3>1 DEF Holds
    <3>2. CASE t \in told
      <4>1. PICK i \in DOMAIN users : At(i).nick = t.nick /\ (t.sealed => Holds(At(i), t))
        BY <2>1, <3>2 DEF Stay
      <4>2. CASE i # c
        BY <1>1, <1>11, <4>1, <4>2 DEF Holds
      <4>3. CASE i = c
        <5>1. At(c).pass = NULL /\ (t.sealed => t.nick \in annulled)
          BY <1>1, <1>7, <4>1, <4>3 DEF Holds
        <5> QED BY <1>1, <1>12, <4>1, <5>1 DEF Holds
      <4> QED BY <4>2, <4>3
    <3> QED BY <1>1, <3>1, <3>2
  <2>3. \A k \in annulled : \E i \in DOMAIN users : At(i)'.nick = k
    BY <1>12, <2>1 DEF Stay
  <2> QED BY <1>1, <2>1, <2>2, <2>3 DEF Stay
<1>20. Filed'
  BY <1>14 DEF Filed
<1>21. LoginsWereTold'
  <2> SUFFICES ASSUME sess'.st = "in", ~crooked'
               PROVE  \E t \in told' : t.nick = user'[sess'.user].nick /\ (t.pw = sess'.pw \/ sess'.pw = Dash) /\ t.sealed
    BY DEF LoginsWereTold
  <2>1. sess' = sess /\ sess.user \in DOMAIN user
    BY <1>1, <1>2 DEF Types, TypeOK
  <2>2. PICK t \in told : t.nick = user[sess.user].nick /\ (t.pw = sess.pw \/ sess.pw = Dash) /\ t.sealed
    BY <1>13, <2>1 DEF IInv, LoginsWereTold
  <2> QED BY <1>1, <1>12, <2>1, <2>2
<1> QED BY <1>15, <1>16, <1>17, <1>18, <1>19, <1>20, <1>21 DEF IInv
\* The right password of a user: it is hashed anew only without the crypto module, for a rehash
\* that brings another hash type takes the module with it, and then nothing is left of it.
LEMMA PassLineRightKeeps == ASSUME IInv, NEW p \in Password, PassLineRight(p) PROVE IInv'
<1>0. PICK c : c = Checked
  OBVIOUS
<1> DEFINE s == sess.user
           u == [user[s] EXCEPT !.hash = conf.hash, !.pass = NULL]
<1>1. /\ sess.st = "named" /\ user[s].pass # NULL /\ c # 0 /\ NULL \notin {conf.hash, user[s].hash}
      /\ PasswdOk(user[users[c]], p) /\ ~CannotCompare(p)
      /\ sess' = [sess EXCEPT !.st = "in", !.pw = p]
      /\ UNCHANGED <<users, conf, reach, told>> /\ Handles
  BY <1>0 DEF PassLineRight, Right, NoType, Compares, Answers
<1>2. /\ Types /\ DOMAIN users = 1..Len(users) /\ Len(users) \in Nat
      /\ DOMAIN user = 1..Len(user) /\ sess \in Session /\ s \in DOMAIN user
      /\ conf \in Conf /\ user[s] \in User
      /\ \A i \in 1..Len(users) : users[i] \in 1..Len(user) /\ At(i) \in User
      /\ \A i, j \in 1..Len(users) : users[i] = users[j] => i = j
  BY <1>1, ListTypes DEF IInv, Types, TypeOK
<1>3. \/ conf.hash = user[s].hash /\ UNCHANGED <<user, file, pc, annulled, unsaved>>
      \/ /\ user' = [user EXCEPT ![s] = u] /\ ~conf.crypto
         /\ annulled' = annulled \cup {user[s].nick} /\ SaveOf(users)
  <2>1. CASE conf.hash = user[s].hash
    BY <2>1 DEF PassLineRight
  <2>2. CASE conf.hash # user[s].hash
    <3>1. ~conf.crypto
      BY <1>1, <1>2, <2>2 DEF IInv, OneHash
    <3>2. MakePasswd(p, conf.hash) = NULL
      BY <3>1 DEF MakePasswd
    <3>3. /\ user' = [user EXCEPT ![s].hash = conf.hash, ![s].pass = NULL]
          /\ annulled' = annulled \cup {user[s].nick} /\ SaveOf(users)
      BY <2>2, <3>2 DEF PassLineRight
    <3> QED BY <1>2, <3>1, <3>3
  <2> QED BY <2>1, <2>2
<1>4. pc = "idle" /\ crooked' \in BOOLEAN /\ (~crooked' => ~crooked /\ Straight')
  BY <1>1, <1>2, Handled DEF Types
<1>5. sess' \in Session /\ sess'.st = "in" /\ sess'.pw = p /\ sess'.user = s
  BY <1>1, <1>2 DEF Session
\* What the login rests on, whatever becomes of the password.
<1>6. ~crooked => \E t \in told : t.nick = user[s].nick /\ (t.pw = p \/ p = Dash) /\ t.sealed
  <2> SUFFICES ASSUME ~crooked
               PROVE  \E t \in told : t.nick = user[s].nick /\ (t.pw = p \/ p = Dash) /\ t.sealed
    OBVIOUS
  <2>1. Straight
    BY DEF IInv, Stay
  <2>2. PICK i \in DOMAIN users : users[i] = s
    BY <1>1 DEF IInv, Stay
  <2>3. c \in DOMAIN users /\ At(c).name = user[s].name
    BY <1>0, <1>1, <1>2, NamedIsFirst DEF Checked
  <2>4. At(c).nick = At(i).nick
    BY <2>1, <2>2, <2>3 DEF Straight, At
  <2>5. c = i
    BY <2>1, <2>2, <2>3, <2>4, OneOfTheNick
  <2>6. p = Dash \/ user[s].pass[1] = p
    <3>1. CASE p # Dash
      <4>1. /\ MakePasswd(p, user[s].hash) # NULL
            /\ user[s].pass = MakePasswd(p, user[s].hash)
        BY <1>1, <2>2, <2>5, <3>1 DEF PasswdOk
      <4>2. user[s].pass = <<p, user[s].hash>>
        BY <4>1, SealedPair
      <4> QED BY <4>2
    <3> QED BY <3>1
  <2> QED BY <1>1, <1>2, <2>6 DEF IInv, Announced
<1> HIDE DEF s
<1>7. CASE UNCHANGED <<user, file, pc, annulled, unsaved>>
  <2>1. /\ file' \in Files /\ pc' \in {"idle", "saving", "dying", "down"} /\ unsaved' \in BOOLEAN
        /\ reach' \in {"messages", "sessions", "none"}
    BY <1>1, <1>2, <1>7 DEF Types, TypeOK, Files
  <2>2. sess'.user = sess.user /\ sess.st # "none"
    BY <1>1, <1>5 DEF s
  <2>3. Types' /\ Distinct' /\ OneHash' /\ Announced' /\ Stay'
    BY <1>1, <1>2, <1>4, <1>5, <1>7, <2>1, <2>2, ListKept
  <2>4. Filed'
    BY <1>1, <1>4, <1>7, FileKept
  <2>5. LoginsWereTold'
    BY <1>1, <1>4, <1>5, <1>6, <1>7 DEF LoginsWereTold
  <2> QED BY <2>3, <2>4, <2>5 DEF IInv
<1>8. CASE /\ user' = [user EXCEPT ![s] = u] /\ ~conf.crypto
           /\ annulled' = annulled \cup {user[s].nick} /\ SaveOf(users)
  <2>1. u \in User /\ u.name = user[s].name /\ u.nick = user[s].nick /\ u.pass = NULL
    BY <1>2 DEF User, Hash, Conf
  <2> HIDE DEF u
  <2>2. /\ user' \in Seq(User) /\ Len(user') = Len(user) /\ DOMAIN user' = DOMAIN user
        /\ \A w \in DOMAIN user : user'[w] = IF w = s THEN u ELSE user[w]
        /\ \A i \in DOMAIN users : At(i)' = IF users[i] = s THEN u ELSE At(i)
    <3>1. users' = users /\ user' = [user EXCEPT ![s] = u]
      BY <1>1, <1>8
    <3> QED BY <1>2, <2>1, <3>1, ChangedTypes
  <2>3. /\ \A w \in DOMAIN user : user'[w].nick = user[w].nick /\ (user'[w].pass # NULL => user'[w] = user[w])
        /\ \A i \in DOMAIN users : /\ At(i)'.name = At(i).name /\ At(i)'.nick = At(i).nick
                                   /\ users[i] # s => At(i)' = At(i)
    <3>1. \A i \in DOMAIN users : users[i] = s => At(i) = user[s]
      BY DEF At
    <3> QED BY <2>1, <2>2, <3>1
  <2>4. /\ file' \in Files /\ pc' \in {"idle", "saving", "down"} /\ unsaved' \in BOOLEAN
        /\ ~crooked /\ pc' = "idle" => unsaved'
    <3>1. ~crooked => users # << >>
      BY <1>1, <1>2 DEF IInv, Stay
    <3> QED BY <1>2, <1>4, <1>8, <3>1, SaveOfMeans DEF Types, TypeOK, Files
  <2>5. Types'
    <3>1. TypeOK'
      BY <1>1, <1>2, <1>5, <2>2, <2>4 DEF Types, TypeOK, Files
    <3>2. annulled' \in SUBSET Name
      BY <1>2, <1>8 DEF Types, User
    <3> QED BY <1>1, <1>2, <1>4, <1>5, <2>4, <3>1, <3>2 DEF Types
  <2>6. Distinct'
    BY <1>1, <2>3 DEF IInv, Distinct
  <2>7. OneHash' /\ Announced'
    BY <1>1, <1>8, <2>2, <2>3 DEF IInv, OneHash, Announced
  <2>8. Stay'
    <3> SUFFICES ASSUME ~crooked' PROVE
                   /\ Straight'
                   /\ sess'.st # "none" => \E i \in DOMAIN users' : users'[i] = sess'.user
                   /\ \A t \in told' : \E i \in DOMAIN users' :
                        At(i)'.nick = t.nick /\ (t.sealed => Holds(At(i), t)')
                   /\ \A n \in annulled' : \E i \in DOMAIN users' : At(i)'.nick = n
      BY DEF Stay
    <3>1. Stay /\ ~crooked /\ Straight'
      BY <1>4 DEF IInv
    <3>2. PICK i \in DOMAIN users : users[i] = s
      BY <1>1, <3>1 DEF Stay, s
    <3>3. ASSUME NEW t \in told
          PROVE  \E k \in DOMAIN users : At(k)'.nick = t.nick /\ (t.sealed => Holds(At(k), t)')
      <4>1. PICK k \in DOMAIN users : At(k).nick = t.nick /\ (t.sealed => Holds(At(k), t))
        BY <3>1 DEF Stay
      <4>2. CASE users[k] = s
        <5>1. At(k).nick = user[s].nick
          BY <4>2 DEF At
        <5>2. t.nick \in annulled'
          BY <1>8, <4>1, <5>1
        <5> QED BY <2>3, <4>1, <5>2 DEF Holds
      <4>3. CASE users[k] # s
        BY <1>8, <2>3, <4>1, <4>3 DEF Holds
      <4> QED BY <4>2, <4>3
    <3>4. ASSUME NEW n \in annulled' PROVE \E k \in DOMAIN users : At(k)'.nick = n
      <4>1. CASE n \in annulled
        BY <2>3, <3>1, <4>1 DEF Stay
      <4>2. CASE n = user[s].nick
        BY <2>3, <3>2, <4>2 DEF At
      <4> QED BY <1>8, <4>1, <4>2
    <3> QED BY <1>1, <1>5, <3>1, <3>2, <3>3, <3>4
  <2>9. Filed'
    BY <1>4, <2>4 DEF Filed
  <2>10. LoginsWereTold'
    <3>1. user'[s].nick = user[s].nick
      BY <1>2, <2>3
    <3> QED BY <1>1, <1>4, <1>5, <1>6, <3>1 DEF LoginsWereTold
  <2> QED BY <2>5, <2>6, <2>7, <2>8, <2>9, <2>10 DEF IInv
<1> QED BY <1>3, <1>7, <1>8
-----------------------------------------------------------------------------
LEMMA InitHolds == Init => IInv
<1> SUFFICES ASSUME Init PROVE IInv
  OBVIOUS
<1>1. DOMAIN user = {} /\ DOMAIN users = {} /\ Len(user) = 0
  BY DEF Init
<1>2. user \in Seq(User) /\ users \in Seq(DOMAIN user) /\ IsInjective(users)
  BY <1>1 DEF Init, IsInjective
<1>3. NoSession \in Session /\ NoSession.st = "none"
  BY DEF NoSession, Session
<1>4. Types
  <2>1. Len(user) <= MaxUsers /\ conf \in Conf
    BY <1>1, UsersAssumption DEF Init
  <2>2. TypeOK
    BY <1>2, <1>3, <2>1 DEF TypeOK, Init
  <2>3. /\ told \in SUBSET Told /\ crooked \in BOOLEAN /\ sess \in Session
        /\ annulled \in SUBSET Name /\ unsaved \in BOOLEAN
    BY <1>3 DEF Init
  <2> QED BY <2>2, <2>3 DEF Types
<1>5. Distinct /\ OneHash /\ Announced /\ Filed
  BY <1>1 DEF Distinct, OneHash, Announced, Filed
<1>6. Stay /\ LoginsWereTold
  BY <1>1, <1>3 DEF Stay, Straight, LoginsWereTold, Init
<1> QED BY <1>4, <1>5, <1>6 DEF IInv

LEMMA StepKeeps == IInv /\ [Next]_vars => IInv'
<1> SUFFICES ASSUME IInv, [Next]_vars PROVE IInv'
  OBVIOUS
<1>1. CASE UNCHANGED vars
  BY <1>1 DEF vars, IInv, Types, TypeOK, Distinct, OneHash, Announced, Stay, Straight, Filed,
              LoginsWereTold, At, EntryOf, Holds, Noted
<1>2. CASE Write \/ Goodbye \/ MatchAttrOfNobody \/ SaveAll \/ Rehash \/ RehashForgets
            \/ Crash \/ Restart
  BY <1>2, WriteKeeps, GoodbyeKeeps, MatchAttrKeeps, SaveAllKeeps, RehashKeeps, RehashForgetsKeeps,
     CrashKeeps, RestartKeeps
<1>3. ASSUME NEW n \in Name, Hello(n) \/ NameLine(n) PROVE IInv'
  BY <1>3, HelloKeeps, NameLineKeeps
<1>4. ASSUME NEW n \in Name, NEW m \in Name, AddUser(n, m) \/ ChHandle(n, m) PROVE IInv'
  BY <1>4, AddUserKeeps, ChHandleKeeps
<1>5. ASSUME NEW p \in Password,
             PassLineRight(p) \/ PassLineWrong(p) \/ PassLineFault(p) \/ \E n \in Name : Pass(n, p)
      PROVE  IInv'
  BY <1>5, PassLineRightKeeps, PassLineKeeps, PassKeeps
<1>6. CASE PassLineFreed \/ HangUp
  <2>1. /\ Handles /\ UNCHANGED <<user, users, told, file, conf, reach, annulled, unsaved>>
        /\ sess' \in {sess, NoSession}
        /\ pc' = pc \/ pc' \in {"idle", "down"}
    BY <1>6 DEF PassLineFreed, HangUp
  <2>2. pc = "idle"
    BY <2>1 DEF Handles
  <2> QED BY <2>1, <2>2, SessionKeeps
<1> QED BY <1>1, <1>2, <1>3, <1>4, <1>5, <1>6 DEF Next

LEMMA IInvHolds == Spec => []IInv
<1> QED BY InitHolds, StepKeeps, PTL DEF Spec
-----------------------------------------------------------------------------
\* Over any messages, saves, rehashes and crashes net->users has users of this run, each once,
\* and a session that has got a name has one of them (user_list_add, dcc->user).
THEOREM UserTypes == Spec => []TypeOK
<1>1. IInv => TypeOK
  BY DEF IInv, Types
<1> QED BY <1>1, IInvHolds, PTL

\* Nobody gets in (parse_dcc_line) but with the password that irc_proto.c has announced to the
\* user of that name, or with "-" or no text (egg_passwdok), and then as one to whom a password
\* was announced, whatever the list has become since the name was taken.
THEOREM NobodyGetsInUntold == Spec => []LoginsWereTold
<1>1. IInv => LoginsWereTold
  BY DEF IInv
<1> QED BY <1>1, IInvHolds, PTL

\* The nicks that were told of a password are not more than the list has users.
LEMMA ToldAreCounted ==
    ASSUME IInv, ~crooked
    PROVE  CountUsers >= Cardinality({s.nick : s \in told})
<1> DEFINE T == {s.nick : s \in told}
           N == {At(i).nick : i \in DOMAIN users}
           f == [i \in DOMAIN users |-> At(i).nick]
<1>1. DOMAIN users = 1..Len(users) /\ Len(users) \in Nat
  BY ListTypes DEF IInv
<1>2. T \in SUBSET N
  BY DEF IInv, Stay
<1>3. f \in Surjection(DOMAIN users, N)
  BY DEF Surjection
<1>4. IsFiniteSet(DOMAIN users) /\ Cardinality(DOMAIN users) = Len(users)
  <2>1. 1 \in Int /\ Len(users) \in Int
    BY <1>1
  <2>2. /\ IsFiniteSet(1..Len(users))
        /\ Cardinality(1..Len(users)) = IF 1 > Len(users) THEN 0 ELSE Len(users) - 1 + 1
    BY <2>1, FS_Interval
  <2>3. (IF 1 > Len(users) THEN 0 ELSE Len(users) - 1 + 1) = Len(users)
    BY <1>1
  <2> QED BY <1>1, <2>2, <2>3
<1> HIDE DEF N, T, f
<1>5. IsFiniteSet(N) /\ Cardinality(N) <= Len(users)
  BY <1>3, <1>4, FS_Surjection
<1>6. IsFiniteSet(T) /\ Cardinality(T) <= Cardinality(N)
  BY <1>2, <1>5, FS_Subset
<1>7. Cardinality(N) \in Nat /\ Cardinality(T) \in Nat
  BY <1>5, <1>6, FS_CardinalityType
<1> QED BY <1>1, <1>5, <1>6, <1>7 DEF CountUsers, T

\* A password that was announced as set (new_user_pass) is the user's until a login after a
\* rehash annuls it (parse_dcc_line), scripts are told of the user (egg_validuser,
\* egg_countusers), and once users_save has ended, if it could open the file, a list made of the
\* user file has the user as he is, whatever other messages came between.
THEOREM AnnouncedIsSaved == Spec => []ToldIsSaved
<1>1. IInv => ToldIsSaved
  <2> SUFFICES ASSUME IInv, pc = "idle", ~crooked, NEW t \in told, t.sealed
               PROVE  \E i \in DOMAIN users :
                        LET u == user[users[i]]
                        IN  /\ u.nick = t.nick
                            /\ ValidUser(u.name) /\ CountUsers >= Cardinality({s.nick : s \in told})
                            /\ t.nick \in annulled \/ (u.pass # NULL /\ u.pass[1] = t.pw)
                            /\ \/ unsaved
                               \/ \E k \in DOMAIN Unpacked(file) : Unpacked(file)[k] = u
    BY DEF ToldIsSaved
  <2>1. PICK i \in DOMAIN users : At(i).nick = t.nick /\ Holds(At(i), t)
    BY DEF IInv, Stay
  <2>2. Types /\ DOMAIN users = 1..Len(users) /\ At(i) \in User
    BY ListTypes DEF IInv
  <2>3. ValidUser(At(i).name)
    BY <2>2, NamedIsFirst DEF ValidUser
  <2>4. CountUsers >= Cardinality({s.nick : s \in told})
    BY ToldAreCounted
  <2>5. ASSUME ~unsaved PROVE \E k \in DOMAIN Unpacked(file) : Unpacked(file)[k] = At(i)
    <3>1. Noted(At(i))
      BY <2>1 DEF Holds, Noted
    <3>2. At(i).flags /\ file \notin {NULL, Emptied, Earlier} /\ \E k \in DOMAIN file : file[k] = EntryOf(At(i))
      BY <2>5, <3>1 DEF IInv, Filed
    <3>3. PICK k \in DOMAIN file : file[k] = EntryOf(At(i))
      BY <3>2
    <3>4. Unpacked(file) = [j \in DOMAIN file |-> UserOf(file[j])]
      BY <3>2 DEF Unpacked
    <3>5. k \in DOMAIN Unpacked(file) /\ Unpacked(file)[k] = UserOf(EntryOf(At(i)))
      BY <3>3, <3>4
    <3>6. UserOf(EntryOf(At(i))) = At(i)
      BY <2>2, <3>2 DEF UserOf, EntryOf, User
    <3> QED BY <3>5, <3>6
  <2>6. /\ At(i).nick = t.nick
        /\ ValidUser(At(i).name) /\ CountUsers >= Cardinality({s.nick : s \in told})
        /\ t.nick \in annulled \/ (At(i).pass # NULL /\ At(i).pass[1] = t.pw)
        /\ unsaved \/ \E k \in DOMAIN Unpacked(file) : Unpacked(file)[k] = At(i)
    BY <2>1, <2>3, <2>4, <2>5 DEF Holds
  <2> QED BY <2>6 DEF At
<1> QED BY <1>1, IInvHolds, PTL
-----------------------------------------------------------------------------
\* A sequence that is lengthened begins as it was.
LEMMA LongerBegins ==
    ASSUME NEW S, NEW s \in Seq(S), NEW e \in S
    PROVE  IsPrefix(s, s) /\ IsPrefix(s, Append(s, e))
<1> DEFINE t == Append(s, e)
<1>1. Len(s) \in Nat /\ t \in Seq(S) /\ Len(t) = Len(s) + 1 /\ \A i \in 1..Len(s) : t[i] = s[i]
  BY AppendProperties
<1> HIDE DEF t
<1>2. SubSeq(s, 1, Len(s)) = s
  BY SubSeqFull
<1>3. SubSeq(t, 1, Len(s)) = s
  <2>1. \A i \in 1..Len(s) : t[i] \in S
    BY <1>1
  <2>2. /\ SubSeq(t, 1, Len(s)) \in Seq(S) /\ Len(SubSeq(t, 1, Len(s))) = Len(s)
        /\ \A i \in 1..Len(s) : SubSeq(t, 1, Len(s))[i] = t[i]
    BY <1>1, <2>1, SubSeqProperties
  <2> QED BY <1>1, <2>2, SeqEqual
<1> QED BY <1>1, <1>2, <1>3 DEF IsPrefix, t

\* What the messages that do not change a name leave of a straight list.
LEMMA NobodyLeaves ==
    ASSUME IInv, Next, ~RehashForgets, Straight, pc # "down", pc' # "down"
    PROVE  IsPrefix(users, users')
<1>1. /\ Types /\ users \in Seq(1..Len(user)) /\ Len(user) \in Nat
  BY ListTypes DEF IInv
<1>2. users \in Seq(1..(Len(user) + 1)) /\ Len(user) + 1 \in 1..(Len(user) + 1)
  <2>1. 1..Len(user) \subseteq 1..(Len(user) + 1) /\ Len(user) + 1 \in 1..(Len(user) + 1)
    BY <1>1
  <2> QED BY <1>1, <2>1, SeqMonotonic
<1>3. IsPrefix(users, users) /\ IsPrefix(users, Append(users, Len(user) + 1))
  BY <1>2, LongerBegins
<1>4. users' = users \/ users' = Append(users, Len(user) + 1)
  <2>1. ASSUME NEW n \in Name, Hello(n) PROVE users' = Append(users, Len(user) + 1)
    <3>1. CASE users = << >>
      BY <2>1, <3>1 DEF Hello
    <3>2. CASE users # << >>
      <4>1. At(Stop(n)).nick # n /\ users' = Append(SubSeq(users, 1, Stop(n)), Len(user) + 1)
        BY <2>1, <3>2 DEF Hello, At
      <4>2. Stop(n) = Len(users)
        BY <1>1, <3>2, <4>1, StopMeans
      <4> QED BY <1>1, <4>1, <4>2, SubSeqFull
    <3> QED BY <3>1, <3>2
  <2>2. ASSUME NEW n \in Name, NEW m \in Name, AddUser(n, m) \/ ChHandle(n, m)
        PROVE  users' = users \/ users' = Append(users, Len(user) + 1)
    BY <2>2 DEF AddUser, ChHandle
  <2>3. ASSUME NEW p \in Password,
               PassLineRight(p) \/ PassLineWrong(p) \/ PassLineFault(p) \/ \E n \in Name : Pass(n, p)
        PROVE  users' = users
    BY <2>3 DEF PassLineRight, PassLineWrong, PassLineFault, Pass
  <2>4. ASSUME NEW n \in Name, NameLine(n) PROVE users' = users
    BY <2>4 DEF NameLine
  <2>5. CASE Write \/ Goodbye \/ MatchAttrOfNobody \/ PassLineFreed \/ HangUp \/ SaveAll \/ Rehash
    BY <2>5 DEF Write, Goodbye, MatchAttrOfNobody, PassLineFreed, HangUp, SaveAll, Rehash
  <2>6. ~Crash /\ ~Restart
    BY DEF Crash, Restart
  <2> QED BY <2>1, <2>2, <2>3, <2>4, <2>5, <2>6 DEF Next
<1> QED BY <1>3, <1>4

\* While every user's name is the nick, hello, adduser and all else but a rehash that does not
\* recognise the network leave all users in the list, also those that the search of
\* introduce_user does not reach, and no nick is two users'.
THEOREM NobodyLeavesTheList == Spec => NobodyIsForgotten
<1> DEFINE Kept == pc # "down" /\ pc' # "down" /\ Straight /\ ~RehashForgets =>
                     /\ IsPrefix(users, users')
                     /\ \A i, j \in DOMAIN users : user[users[i]].nick = user[users[j]].nick => i = j
<1>1. IInv /\ [Next]_vars => [Kept]_vars
  <2> SUFFICES ASSUME IInv, Next PROVE Kept
    OBVIOUS
  <2> SUFFICES ASSUME pc # "down", pc' # "down", Straight, ~RehashForgets
               PROVE  /\ IsPrefix(users, users')
                      /\ \A i, j \in DOMAIN users : user[users[i]].nick = user[users[j]].nick => i = j
    OBVIOUS
  <2>1. IsPrefix(users, users')
    BY NobodyLeaves
  <2>2. \A i, j \in DOMAIN users : user[users[i]].nick = user[users[j]].nick => i = j
    BY OneOfTheNick DEF At
  <2> QED BY <2>1, <2>2
<1> QED BY <1>1, IInvHolds, PTL DEF Spec, NobodyIsForgotten
=============================================================================
