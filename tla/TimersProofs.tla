---------------------------- MODULE TimersProofs ----------------------------
(***************************************************************************)
(* What t_timer.c keeps of the timers of orderly scripts, for any number   *)
(* of timers, any delays, any rehashes and any interleaving of the clock,  *)
(* the peers and the loop; and, in the second half, what the scripts' languages have     *)
(* across any number of rehashes.                                          *)
(***************************************************************************)
EXTENDS Timers, Scripts, TLAPS

Lists == INSTANCE CursorListProofs

USE TimersAssumption

Elements(s) == {s[i] : i \in 1..Len(s)}

\* The timers of s hang together by ->next, from first to last.
IsPath(m, s) ==
    \A i \in 1..Len(s) : m[s[i]].next = IF i < Len(s) THEN s[i + 1] ELSE Null

\* Following ->next from the first of a path meets the path and nothing else.
LEMMA ChainIsPath ==
    ASSUME NEW m \in [Addr -> Timer], NEW s \in Seq(Addr), s # << >>, IsPath(m, s)
    PROVE  Chain(m, s[1]) = Elements(s)
<1>1. Len(s) \in Nat /\ Len(s) >= 1 /\ \A i \in 1..Len(s) : s[i] \in Addr
  OBVIOUS
<1>2. s[1] \in Addr /\ s[1] # Null
  BY <1>1
<1>3. ASSUME NEW a \in Chain(m, s[1]) PROVE a \in Elements(s)
  <2>1. Elements(s) \in SUBSET Addr /\ s[1] \in Elements(s)
    BY <1>1 DEF Elements
  <2>2. Closed(m, Elements(s))
    BY <1>1 DEF Closed, Elements, IsPath
  <2> QED BY <1>2, <2>1, <2>2, <1>3 DEF Chain
<1>4. ASSUME NEW k \in 1..Len(s) PROVE s[k] \in Chain(m, s[1])
  <2>1. SUFFICES ASSUME NEW S \in SUBSET Addr, s[1] \in S, Closed(m, S)
                 PROVE  s[k] \in S
    BY <1>1, <1>2 DEF Chain
  <2> DEFINE T == {i \in 1..Len(s) : s[i] \notin S}
  <2>2. SUFFICES ASSUME T # {} PROVE FALSE
    OBVIOUS
  <2>3. T \in SUBSET Nat
    BY <1>1
  <2>4. PICK i \in T : \A j \in T : i <= j
    BY <2>2, <2>3, Lists!LeastNat
  <2>5. i \in 1..Len(s) /\ s[i] \notin S /\ i # 1
    BY <2>1, <2>4
  <2>6. i - 1 \in 1..Len(s) /\ i - 1 < Len(s) /\ (i - 1) + 1 = i /\ ~(i <= i - 1)
    BY <1>1, <2>5
  <2>7. s[i - 1] \in S
    BY <2>4, <2>6
  <2>8. m[s[i - 1]].next = s[i]
    BY <2>6 DEF IsPath
  <2>9. s[i] # Null
    BY <1>1, <2>5
  <2> QED BY <2>1, <2>5, <2>7, <2>8, <2>9 DEF Closed
<1> QED BY <1>3, <1>4 DEF Elements

\* So the timer that t_timer_add looks for is the last of the path.
LEMMA LastOfPath ==
    ASSUME NEW m \in [Addr -> Timer], NEW s \in Seq(Addr), s # << >>, IsPath(m, s)
    PROVE  /\ Ends(m, s[1])
           /\ Last(m, s[1]) = s[Len(s)]
<1>1. Len(s) \in Nat /\ Len(s) \in 1..Len(s) /\ \A i \in 1..Len(s) : s[i] \in Addr
  OBVIOUS
<1>2. Chain(m, s[1]) = Elements(s)
  BY ChainIsPath
<1>3. s[Len(s)] \in Elements(s) /\ m[s[Len(s)]].next = Null
  BY <1>1 DEF Elements, IsPath
<1>4. ASSUME NEW a \in Elements(s), m[a].next = Null PROVE a = s[Len(s)]
  <2>1. PICK i \in 1..Len(s) : a = s[i]
    BY DEF Elements
  <2>2. i < Len(s) => m[a].next \in Addr
    BY <1>1, <2>1 DEF IsPath
  <2> QED BY <1>1, <1>4, <2>1, <2>2
<1> QED BY <1>2, <1>3, <1>4 DEF Ends, Last
-----------------------------------------------------------------------------
\* The first timer of the list: while t_timers_check runs, its local ret.
FirstTimer == IF pc \in {"check", "handler"} THEN ret ELSE timers

\* The list is the path s, in the order the timers are to run, and holds every
\* timer of the record in use once.
Represents(s) ==
    /\ FirstTimer = IF s = << >> THEN Null ELSE s[1]
    /\ IsPath(mem, s)
    /\ \A i, j \in 1..Len(s) : i < j => s[i] # s[j] /\ mem[s[i]].trig <= mem[s[j]].trig
    /\ Pending = Elements(s)

\* The local variables of t_timers_check: a timer is passed over only if it is
\* not due, and then no timer behind it is; net->timers is the head or freed.
CheckState ==
    /\ pc = "check" => tmp \in Pending \cup {Null}
    /\ pc = "check" => tmp = ret \/ (ret # Null /\ mem[ret].trig > stamp)
    /\ pc = "handler" => tmp = ret /\ tmp \in Pending
    /\ ran = IF pc = "handler" THEN {tmp} ELSE {}
    /\ pc \in {"check", "handler"} => timers # Null /\ (timers = ret \/ timers \notin Pending)

IInv ==
    /\ TypeOK
    /\ orderly => CheckState /\ \E s \in Seq(Addr) : Represents(s)

-----------------------------------------------------------------------------
LEMMA InitInv == Init => IInv
<1> SUFFICES ASSUME Init PROVE IInv
  OBVIOUS
<1>1. TypeOK
  <2>1. mem \in [Addr -> Timer]
    BY DEF Init, NewTimer, Timer, Pointer
  <2>2. now \in 0..MaxTime /\ stamp \in 0..now
    BY DEF Init
  <2> QED BY <2>1, <2>2 DEF Init, TypeOK, Pointer
<1>2. << >> \in Seq(Addr) /\ Represents(<< >>)
  BY DEF Init, Represents, FirstTimer, IsPath, Elements, Pending
<1>3. CheckState
  BY DEF Init, CheckState
<1> QED BY <1>1, <1>2, <1>3 DEF IInv

\* A script adds a timer: t_timer_add hangs it behind the last one.
LEMMA AddInv ==
    ASSUME IInv, NEW a \in Addr, NEW d \in Delay, pc \in {"irc", "handler", "dcc"}, Add(a, d)
    PROVE  IInv'
<1> DEFINE m == [mem EXCEPT ![a] = NewTimer(now + d)]
<1>0. now \in Nat /\ d \in Nat /\ now + d \in Nat
  BY DEF IInv, TypeOK
<1>1. m \in [Addr -> Timer] /\ m[a] = NewTimer(now + d) /\ \A b \in Addr \ {a} : m[b] = mem[b]
  BY <1>0 DEF IInv, TypeOK, NewTimer, Timer, Pointer
<1>2. TypeOK'
  <2>1. mem' \in [Addr -> Timer]
    <3>1. CASE timers = Null
      BY <1>1, <3>1 DEF Add, Linked
    <3>2. CASE timers # Null
      <4> DEFINE l == Last(m, timers)
      <4>1. l \in Addr /\ mem' = [m EXCEPT ![l].next = a, ![a].prev = l]
        BY <3>2 DEF Add, Linked, Ends, Last, Chain
      <4> HIDE DEF m, l
      <4> QED BY <1>1, <4>1 DEF Timer, Pointer
    <3> QED BY <3>1, <3>2
  <2>2. /\ live' \subseteq Addr /\ ran' \subseteq Addr /\ timers' \in Pointer
        /\ orderly' \in BOOLEAN
    BY DEF IInv, TypeOK, Add, Pointer
  <2>3. UNCHANGED <<idle, now, stamp, ret, tmp, left, newest, heard, pc>> /\ left' \subseteq live'
    BY DEF Add, record, IInv, TypeOK
  <2> QED BY <2>1, <2>2, <2>3 DEF IInv, TypeOK
<1>3. SUFFICES ASSUME orderly' PROVE CheckState' /\ (\E s \in Seq(Addr) : Represents(s))'
  BY <1>2 DEF IInv
<1>4. orderly /\ CheckState /\ a \notin Pending /\ Pending' = Pending \cup {a}
  BY <1>3 DEF Add, IInv, TypeOK, Pending, record
<1>5. PICK s \in Seq(Addr) : Represents(s)
  BY <1>4 DEF IInv
<1>6. Len(s) \in Nat /\ \A i \in 1..Len(s) : s[i] \in Addr /\ s[i] \in Pending /\ s[i] # a
  BY <1>4, <1>5 DEF Represents, Elements
<1>7. CASE timers = Null
  <2>1. pc \notin {"check", "handler"} /\ s = << >> /\ Pending = {}
    BY <1>4, <1>5, <1>6, <1>7 DEF CheckState, Represents, FirstTimer, Elements
  <2>2. <<a>> \in Seq(Addr) /\ Len(<<a>>) = 1 /\ <<a>>[1] = a
    OBVIOUS
  <2>3. mem' = m /\ timers' = a /\ pc' = pc /\ ran' = ran /\ tmp' = tmp /\ ret' = ret
    BY <1>7 DEF Add, Linked
  <2>4. Represents(<<a>>)'
    BY <1>1, <1>4, <2>1, <2>2, <2>3 DEF Represents, FirstTimer, IsPath, Elements, NewTimer
  <2>5. CheckState'
    BY <1>4, <2>1, <2>3 DEF CheckState
  <2> QED BY <2>2, <2>4, <2>5
<1>8. CASE timers # Null
  <2>1. timers \in Pending /\ FirstTimer = timers /\ mem[Last(mem, timers)].trig <= now + d
    BY <1>3, <1>4, <1>8 DEF Add, FirstTimer, CheckState
  <2>2. s # << >> /\ s[1] = timers /\ Len(s) >= 1
    BY <1>5, <1>6, <1>8, <2>1 DEF Represents
  <2>3. IsPath(mem, s) /\ IsPath(m, s)
    BY <1>1, <1>5, <1>6 DEF Represents, IsPath
  <2>4. Last(mem, timers) = s[Len(s)] /\ Last(m, timers) = s[Len(s)]
    BY <1>1, <2>2, <2>3, LastOfPath DEF IInv, TypeOK
  <2> DEFINE l == s[Len(s)]
  <2> DEFINE t == Append(s, a)
  <2>5. l \in Addr /\ l \in Pending /\ l # a /\ mem[l].trig <= now + d
    BY <1>6, <2>1, <2>2, <2>4
  <2>6. /\ mem' = [m EXCEPT ![l].next = a, ![a].prev = l]
        /\ timers' = timers /\ pc' = pc /\ ran' = ran /\ tmp' = tmp /\ ret' = ret /\ stamp' = stamp
    BY <1>8, <2>4 DEF Add, Linked
  <2>7. /\ mem'[l].next = a /\ mem'[a].next = Null /\ mem'[a].trig = now + d
        /\ \A b \in Addr \ {a} : mem'[b].trig = mem[b].trig
        /\ \A b \in Addr \ {a, l} : mem'[b].next = mem[b].next
    BY <1>1, <2>5, <2>6 DEF Timer, NewTimer
  <2>8. /\ t \in Seq(Addr) /\ Len(t) = Len(s) + 1 /\ t[Len(t)] = a
        /\ \A i \in 1..Len(s) : t[i] = s[i]
    BY <1>6
  <2>9. /\ \A i, j \in 1..Len(s) : i < j => s[i] # s[j] /\ mem[s[i]].trig <= mem[s[j]].trig
        /\ \A b \in Addr : mem[b].trig \in Nat
    BY <1>5 DEF Represents, IInv, TypeOK, Timer
  <2> HIDE DEF t, l
  <2>10. IsPath(mem', t)
    <3> SUFFICES ASSUME NEW i \in 1..Len(t)
                 PROVE  mem'[t[i]].next = IF i < Len(t) THEN t[i + 1] ELSE Null
      BY DEF IsPath
    <3>1. CASE i = Len(t)
      BY <2>7, <2>8, <3>1
    <3>2. CASE i = Len(s)
      BY <1>6, <2>2, <2>7, <2>8, <3>2 DEF l
    <3>3. CASE i < Len(s)
      <4>1. i \in 1..Len(s) /\ i + 1 \in 1..Len(s) /\ Len(s) \in 1..Len(s) /\ i < Len(t)
        BY <1>6, <2>2, <2>8, <3>3
      <4>2. s[i] # l /\ s[i] # a /\ s[i] \in Addr
        BY <1>6, <2>9, <3>3, <4>1 DEF l
      <4>3. mem[s[i]].next = s[i + 1]
        BY <2>3, <3>3, <4>1 DEF IsPath
      <4> QED BY <2>7, <2>8, <4>1, <4>2, <4>3
    <3> QED BY <1>6, <2>8, <3>1, <3>2, <3>3
  <2>11. ASSUME NEW i \in 1..Len(t), NEW j \in 1..Len(t), i < j
         PROVE  t[i] # t[j] /\ mem'[t[i]].trig <= mem'[t[j]].trig
    <3>1. i \in 1..Len(s) /\ t[i] = s[i] /\ s[i] \in Addr /\ s[i] # a /\ mem'[s[i]].trig = mem[s[i]].trig
      BY <1>6, <2>7, <2>8, <2>11
    <3>2. CASE j \in 1..Len(s)
      <4>1. t[j] = s[j] /\ s[j] \in Addr /\ s[j] # a /\ mem'[s[j]].trig = mem[s[j]].trig
        BY <1>6, <2>7, <2>8, <3>2
      <4> QED BY <2>9, <2>11, <3>1, <3>2, <4>1
    <3>3. CASE j = Len(t)
      <4>1. mem[s[i]].trig <= mem[l].trig
        BY <1>6, <2>2, <2>9, <3>1 DEF l
      <4>2. mem[s[i]].trig \in Nat /\ mem[l].trig \in Nat
        BY <2>5, <2>9, <3>1
      <4> QED BY <1>0, <2>5, <2>7, <2>8, <3>1, <3>3, <4>1, <4>2
    <3> QED BY <1>6, <2>8, <3>2, <3>3
  <2>12. Elements(t) = Elements(s) \cup {a}
    BY <1>6, <2>8 DEF Elements
  <2>13. Pending' = Elements(t)
    BY <1>4, <1>5, <2>12 DEF Represents
  <2>14. t[1] = timers /\ t # << >> /\ FirstTimer' = timers
    BY <1>6, <2>1, <2>2, <2>6, <2>8 DEF FirstTimer
  <2>15. Represents(t)'
    BY <2>10, <2>11, <2>13, <2>14 DEF Represents
  <2>16. CheckState'
    BY <1>4, <2>1, <2>6, <1>6 DEF CheckState
  <2> QED BY <2>8, <2>15, <2>16
<1> QED BY <1>7, <1>8

\* Steps that leave the list, the head and the check alone.
LEMMA QuietInv ==
    ASSUME IInv, UNCHANGED <<mem, live, left, ran, timers, ret, tmp, stamp, orderly>>,
           pc' = pc \/ ({pc, pc'} \cap {"check", "handler"} = {}), TypeOK'
    PROVE  IInv'
<1>0. Pending' = Pending
  BY DEF Pending
<1>1. SUFFICES ASSUME orderly PROVE CheckState' /\ (\E s \in Seq(Addr) : Represents(s))'
  BY DEF IInv
<1>2. CheckState'
  BY <1>0, <1>1 DEF IInv, CheckState
<1>3. PICK s \in Seq(Addr) : Represents(s)
  BY <1>1 DEF IInv
<1>4. FirstTimer' = FirstTimer
  BY DEF FirstTimer
<1>5. Represents(s)'
  BY <1>0, <1>3, <1>4 DEF Represents, IsPath
<1> QED BY <1>2, <1>5

LEMMA AstrayInv ==
    ASSUME IInv, NEW a \in Addr, NEW d \in Delay, AddGoesAstray(a, d)
    PROVE  IInv'
<1>1. /\ UNCHANGED <<mem, live, ran, timers, idle, now, stamp, ret, tmp, left, newest, heard>>
      /\ pc' = "stuck" /\ ~orderly'
  BY DEF AddGoesAstray, record
<1>2. orderly' \in BOOLEAN
  BY DEF AddGoesAstray
<1>3. tmp \in Pointer
  BY DEF IInv, TypeOK, Pointer
<1>4. TypeOK'
  BY <1>1, <1>2, <1>3 DEF IInv, TypeOK
<1> QED BY <1>1, <1>4 DEF IInv

\* A timer of a replaced record: its block is in no list that is checked.
LEMMA ReplacedInv ==
    ASSUME IInv, NEW a \in Addr, NEW d \in Delay, pc \in {"irc", "handler", "dcc"},
           AddToReplaced(a, d)
    PROVE  IInv'
<1>0. now \in Nat /\ d \in Nat /\ now + d \in Nat
  BY DEF IInv, TypeOK
<1>1. TypeOK'
  <2>1. mem' \in [Addr -> Timer]
    BY <1>0 DEF AddToReplaced, IInv, TypeOK, NewTimer, Timer, Pointer
  <2>2. tmp \in Pointer /\ (pc = "handler" => tmp \in Addr)
    BY DEF IInv, TypeOK, Pointer
  <2> QED BY <2>1, <2>2 DEF AddToReplaced, IInv, TypeOK
<1>2. SUFFICES ASSUME orderly PROVE CheckState' /\ (\E s \in Seq(Addr) : Represents(s))'
  BY <1>1 DEF IInv, AddToReplaced
<1>3. /\ Pending' = Pending /\ a \notin Pending /\ pc' = pc /\ FirstTimer' = FirstTimer
      /\ \A b \in Addr \ {a} : mem'[b] = mem[b]
      /\ UNCHANGED <<ran, timers, stamp, ret, tmp>>
  BY <1>2 DEF AddToReplaced, Pending, FirstTimer, IInv, TypeOK
<1>4. PICK s \in Seq(Addr) : Represents(s)
  BY <1>2 DEF IInv
<1>5. \A i \in 1..Len(s) : s[i] \in Addr \ {a}
  BY <1>3, <1>4 DEF Represents, Elements
<1>6. Represents(s)'
  BY <1>3, <1>4, <1>5 DEF Represents, IsPath
<1>7. CheckState'
  BY <1>2, <1>3 DEF IInv, CheckState
<1> QED BY <1>6, <1>7

\* A rehash leaves every timer behind, and the new list starts empty.
LEMMA RehashTimersInv ==
    ASSUME IInv, RehashTimers
    PROVE  IInv'
<1>1. TypeOK'
  BY DEF IInv, TypeOK, RehashTimers, Pointer
<1>2. Pending' = {} /\ FirstTimer' = Null
  BY DEF RehashTimers, Pending, FirstTimer
<1>3. << >> \in Seq(Addr) /\ Represents(<< >>)'
  BY <1>2 DEF Represents, IsPath, Elements
<1>4. orderly => CheckState'
  BY DEF IInv, CheckState, RehashTimers
<1> QED BY <1>1, <1>3, <1>4 DEF IInv, RehashTimers

LEMMA PassInv ==
    ASSUME IInv, Tick \/ Traffic \/ EndOfMotd \/ NoCheck \/ LoopEnd
    PROVE  IInv'
<1>1. TypeOK'
  <2>1. CASE Tick
    BY <2>1 DEF Tick, IInv, TypeOK, record
  <2>2. CASE Traffic \/ EndOfMotd \/ NoCheck \/ LoopEnd
    BY <2>2 DEF Traffic, EndOfMotd, NoCheck, LoopEnd, IInv, TypeOK, record
  <2> QED BY <2>1, <2>2
<1>2. /\ UNCHANGED <<mem, live, left, ran, timers, ret, tmp, stamp, orderly>>
      /\ pc' = pc \/ ({pc, pc'} \cap {"check", "handler"} = {})
  BY DEF Tick, Traffic, EndOfMotd, NoCheck, LoopEnd, record
<1> QED BY <1>1, <1>2, QuietInv

LEMMA CheckBeginInv ==
    ASSUME IInv, CheckBegin
    PROVE  IInv'
<1>1. TypeOK'
  BY DEF IInv, TypeOK, CheckBegin, record
<1>2. SUFFICES ASSUME orderly PROVE CheckState' /\ (\E s \in Seq(Addr) : Represents(s))'
  BY <1>1 DEF IInv, CheckBegin
<1>3. PICK s \in Seq(Addr) : Represents(s)
  BY <1>2 DEF IInv
<1>4. FirstTimer' = FirstTimer /\ mem' = mem /\ Pending' = Pending /\ FirstTimer = timers
  BY DEF FirstTimer, CheckBegin, Pending, record
<1>5. Represents(s)'
  BY <1>3, <1>4 DEF Represents, IsPath
<1>6. timers \in Pending
  BY <1>3, <1>4 DEF Represents, Elements, CheckBegin
<1>7. CheckState'
  BY <1>2, <1>6 DEF IInv, CheckState, CheckBegin, Pending, record
<1> QED BY <1>5, <1>7

\* The command that starts is that of the first timer: the others are not due
\* as long as the first is there.
LEMMA FirstIsDue ==
    ASSUME IInv, orderly, pc = "check", Due
    PROVE  tmp = ret /\ tmp \in Pending /\ \A a \in Pending : mem[tmp].trig <= mem[a].trig
<1>1. PICK s \in Seq(Addr) : Represents(s)
  BY DEF IInv
<1>2. tmp \in Pending /\ (tmp = ret \/ mem[ret].trig > stamp) /\ mem[tmp].trig <= stamp
  BY DEF IInv, CheckState, Due
<1>3. s # << >> /\ ret = s[1] /\ Len(s) \in Nat /\ 1 \in 1..Len(s)
  BY <1>1, <1>2 DEF Represents, FirstTimer, Elements
<1>4. \A a \in Addr : mem[a].trig \in Nat
  BY DEF IInv, TypeOK, Timer
<1>5. stamp \in Nat /\ Pending \subseteq Addr
  BY DEF IInv, TypeOK, Pending
<1>6. ASSUME NEW a \in Pending PROVE mem[ret].trig <= mem[a].trig
  <2>1. PICK j \in 1..Len(s) : a = s[j]
    BY <1>1 DEF Represents, Elements
  <2>2. 1 < j => mem[s[1]].trig <= mem[s[j]].trig
    BY <1>1, <1>3 DEF Represents
  <2>3. j = 1 => mem[s[1]].trig <= mem[s[j]].trig
    BY <1>4, <1>5, <2>1
  <2> QED BY <1>3, <2>1, <2>2, <2>3
<1>7. ret \in Pending
  BY <1>1, <1>3 DEF Represents, Elements
<1>8. mem[ret].trig <= mem[tmp].trig
  BY <1>2, <1>6
<1>9. tmp = ret
  BY <1>2, <1>4, <1>5, <1>7, <1>8
<1> QED BY <1>2, <1>6, <1>9

LEMMA RunHandlerInv ==
    ASSUME IInv, RunHandler
    PROVE  IInv'
<1>0. TypeOK'
  BY DEF IInv, TypeOK, RunHandler, Due, Pointer, record
<1>1. SUFFICES ASSUME orderly PROVE CheckState' /\ (\E s \in Seq(Addr) : Represents(s))'
  BY <1>0 DEF IInv, RunHandler
<1>2. tmp = ret /\ tmp \in Pending
  BY <1>1, FirstIsDue DEF RunHandler
<1>3. PICK s \in Seq(Addr) : Represents(s)
  BY <1>1 DEF IInv
<1>4. FirstTimer' = FirstTimer /\ mem' = mem /\ Pending' = Pending
  BY DEF FirstTimer, RunHandler, Pending, record
<1>5. Represents(s)'
  BY <1>3, <1>4 DEF Represents, IsPath
<1>6. CheckState'
  BY <1>1, <1>2 DEF IInv, CheckState, RunHandler, Pending, record
<1> QED BY <1>0, <1>5, <1>6

LEMMA NotDueInv ==
    ASSUME IInv, NotDue
    PROVE  IInv'
<1>1. TypeOK'
  <2>1. tmp \in Addr /\ mem[tmp] \in Timer
    BY DEF IInv, TypeOK, NotDue, Pointer
  <2>2. mem[tmp].next \in Pointer
    BY <2>1 DEF Timer
  <2> QED BY <2>1, <2>2 DEF IInv, TypeOK, NotDue, Pointer, record
<1>2. SUFFICES ASSUME orderly PROVE CheckState' /\ (\E s \in Seq(Addr) : Represents(s))'
  BY <1>1 DEF IInv, NotDue
<1>3. PICK s \in Seq(Addr) : Represents(s)
  BY <1>2 DEF IInv
<1>4. FirstTimer' = FirstTimer /\ mem' = mem /\ Pending' = Pending /\ FirstTimer = ret /\ pc = "check" /\ pc' = "check"
  BY DEF FirstTimer, NotDue, Pending, record
<1>5. Represents(s)'
  BY <1>3, <1>4 DEF Represents, IsPath
<1>6. tmp \in Pending /\ ret # Null /\ mem[ret].trig > stamp
  <2>1. tmp \in Pending /\ (tmp = ret \/ (ret # Null /\ mem[ret].trig > stamp))
    BY <1>2 DEF IInv, CheckState, NotDue
  <2>2. tmp \in Addr /\ mem[tmp].trig \in Nat /\ stamp \in Nat /\ ~(mem[tmp].trig <= stamp)
    BY <2>1 DEF NotDue, Due, IInv, TypeOK, Timer, Pending
  <2> QED BY <2>1, <2>2
<1>7. mem[tmp].next \in Pending \cup {Null}
  <2>1. PICK i \in 1..Len(s) : tmp = s[i]
    BY <1>3, <1>6 DEF Represents, Elements
  <2>2. i < Len(s) => i + 1 \in 1..Len(s)
    OBVIOUS
  <2> QED BY <1>3, <2>1, <2>2 DEF Represents, IsPath, Elements
<1>8. CheckState'
  BY <1>2, <1>4, <1>6, <1>7 DEF IInv, CheckState, NotDue
<1> QED BY <1>5, <1>8

\* The first timer is freed: what is left of the path starts at its next.
LEMMA RemoveFirstInv ==
    ASSUME IInv, RemoveFirst
    PROVE  IInv'
<1>1. TypeOK'
  <2>1. tmp \in Addr => mem[tmp].next \in Pointer
    BY DEF IInv, TypeOK, Timer
  <2>2. tmp \in Addr
    BY DEF IInv, TypeOK, RemoveFirst
  <2> QED BY <2>1, <2>2 DEF IInv, TypeOK, RemoveFirst, Pointer
<1>2. SUFFICES ASSUME orderly PROVE CheckState' /\ (\E s \in Seq(Addr) : Represents(s))'
  BY <1>1 DEF IInv, RemoveFirst
<1>3. PICK s \in Seq(Addr) : Represents(s)
  BY <1>2 DEF IInv
<1>4. tmp = ret /\ tmp \in Pending /\ pc = "handler" /\ ran = {tmp} /\ timers # Null
  BY <1>2 DEF IInv, CheckState, RemoveFirst
<1>5. Len(s) \in Nat /\ Len(s) >= 1 /\ s[1] = tmp /\ s # << >>
  BY <1>3, <1>4 DEF Represents, FirstTimer, Elements
<1> DEFINE t == Tail(s)
<1>6. /\ t \in Seq(Addr) /\ Len(t) = Len(s) - 1
      /\ \A i \in 1..Len(t) : t[i] = s[i + 1] /\ i + 1 \in 1..Len(s)
      /\ t = << >> <=> Len(s) = 1
  <2>1. t \in Seq(Addr) /\ Len(t) = Len(s) - 1
    BY <1>5
  <2>2. ASSUME NEW i \in 1..Len(t) PROVE t[i] = s[i + 1] /\ i + 1 \in 1..Len(s)
    BY <1>5, <2>1
  <2>3. t = << >> <=> Len(t) = 0
    BY <2>1
  <2> HIDE DEF t
  <2> QED BY <1>5, <2>1, <2>2, <2>3
<1> HIDE DEF t
<1>7. /\ mem' = mem /\ Pending' = Pending \ {tmp} /\ ret' = mem[tmp].next /\ tmp' = ret' /\ FirstTimer' = ret'
      /\ pc' = "check" /\ ran' = {} /\ timers' = timers /\ stamp' = stamp
  BY <1>4 DEF RemoveFirst, FirstTimer, Pending
<1>8. ret' = IF t = << >> THEN Null ELSE t[1]
  BY <1>3, <1>5, <1>6, <1>7 DEF Represents, IsPath
<1>9. IsPath(mem, t)
  BY SMTT(30), <1>3, <1>5, <1>6 DEF Represents, IsPath
<1>10. ASSUME NEW i \in 1..Len(t), NEW j \in 1..Len(t), i < j
       PROVE  t[i] # t[j] /\ mem[t[i]].trig <= mem[t[j]].trig
  <2>1. i + 1 \in 1..Len(s) /\ j + 1 \in 1..Len(s) /\ i + 1 < j + 1
    BY <1>6, <1>10
  <2>2. s[i + 1] # s[j + 1] /\ mem[s[i + 1]].trig <= mem[s[j + 1]].trig
    BY <1>3, <2>1 DEF Represents
  <2> QED BY <1>6, <2>2
<1>11. Elements(t) = Pending \ {tmp}
  <2>1. ASSUME NEW i \in 1..Len(t) PROVE t[i] \in Pending /\ t[i] # tmp
    BY <1>3, <1>5, <1>6 DEF Represents, Elements
  <2>2. ASSUME NEW a \in Pending, a # tmp PROVE a \in Elements(t)
    <3>1. PICK k \in 1..Len(s) : a = s[k]
      BY <1>3 DEF Represents, Elements
    <3>2. k # 1 /\ k - 1 \in 1..Len(t) /\ (k - 1) + 1 = k
      BY <1>5, <1>6, <2>2, <3>1
    <3> QED BY <1>6, <3>1, <3>2 DEF Elements
  <2> QED BY <2>1, <2>2 DEF Elements
<1>12. Represents(t)'
  BY <1>7, <1>8, <1>9, <1>10, <1>11 DEF Represents
<1>13. ret' \in Pending' \cup {Null}
  <2>1. t # << >> => 1 \in 1..Len(t)
    BY <1>5, <1>6
  <2> QED BY <1>7, <1>8, <1>11, <2>1 DEF Elements
<1>14. timers \notin Pending'
  <2>1. timers = ret \/ timers \notin Pending
    BY <1>2, <1>4 DEF IInv, CheckState
  <2> QED BY <1>4, <1>7, <2>1
<1>15. CheckState'
  BY <1>4, <1>7, <1>13, <1>14 DEF CheckState
<1> QED BY <1>6, <1>12, <1>15

\* Of a timer that is not the first: while scripts are orderly it does not
\* happen, and otherwise only the types are left to keep.
LEMMA RemoveOtherInv ==
    ASSUME IInv, RemoveOther
    PROVE  IInv'
<1>1. ~orderly /\ ~orderly'
  BY DEF IInv, CheckState, RemoveOther
<1>2. tmp \in Addr /\ mem[tmp] \in Timer
  BY DEF IInv, TypeOK, RemoveOther
<1>3. mem' \in [Addr -> Timer]
  <2>1. mem[tmp].next \in Pointer /\ mem[tmp].prev \in Pointer
    BY <1>2 DEF Timer
  <2>2. ASSUME NEW b \in Addr
        PROVE  [mem[b] EXCEPT !.prev = IF b = mem[tmp].next THEN mem[tmp].prev ELSE @,
                              !.next = IF b = mem[tmp].prev THEN mem[tmp].next ELSE @] \in Timer
    <3>1. mem[b] \in Timer
      BY DEF IInv, TypeOK
    <3> QED BY <2>1, <3>1 DEF Timer
  <2> QED BY <2>2 DEF RemoveOther, Unlinked
<1>4. TypeOK'
  <2>1. mem[tmp].next \in Pointer
    BY <1>2 DEF Timer
  <2> QED BY <1>2, <1>3, <2>1 DEF IInv, TypeOK, RemoveOther, Pointer, record
<1> QED BY <1>1, <1>4 DEF IInv

LEMMA CheckEndInv ==
    ASSUME IInv, CheckEnd
    PROVE  IInv'
<1>1. TypeOK'
  BY DEF IInv, TypeOK, CheckEnd, record
<1>2. SUFFICES ASSUME orderly PROVE CheckState' /\ (\E s \in Seq(Addr) : Represents(s))'
  BY <1>1 DEF IInv, CheckEnd
<1>3. PICK s \in Seq(Addr) : Represents(s)
  BY <1>2 DEF IInv
<1>4. FirstTimer' = FirstTimer /\ mem' = mem /\ Pending' = Pending
  BY DEF FirstTimer, CheckEnd, Pending, record
<1>5. Represents(s)'
  BY <1>3, <1>4 DEF Represents, IsPath
<1>6. CheckState'
  BY <1>2 DEF IInv, CheckState, CheckEnd, Pending, record
<1> QED BY <1>5, <1>6

LEMMA NextInv == IInv /\ [Next]_vars => IInv'
<1> SUFFICES ASSUME IInv, [Next]_vars PROVE IInv'
  OBVIOUS
<1>1. CASE Loop
  BY <1>1, CheckBeginInv, PassInv, RunHandlerInv, NotDueInv, RemoveFirstInv, RemoveOtherInv,
     CheckEndInv DEF Loop, TimersCheck
<1>2. CASE Script
  BY <1>2, AddInv, AstrayInv, ReplacedInv DEF Script, Utimer
<1>3. CASE Traffic \/ EndOfMotd \/ Tick
  BY <1>3, PassInv
<1>4. CASE UNCHANGED vars
  <2>1. TypeOK'
    BY <1>4 DEF IInv, TypeOK, vars, record
  <2> QED BY <1>4, <2>1, QuietInv DEF vars, record
<1>5. CASE RehashTimers
  BY <1>5, RehashTimersInv
<1> QED BY <1>1, <1>2, <1>3, <1>4, <1>5 DEF Next

-----------------------------------------------------------------------------
\* The invariant of t_timers_check and the list it keeps.
THEOREM TimersInvariant == Spec => []IInv
BY InitInv, NextInv, PTL DEF Spec

\* Type correctness of the timer model.
THEOREM TimersTypes == Spec => []TypeOK
<1>1. IInv => TypeOK
  BY DEF IInv
<1> QED BY <1>1, TimersInvariant, PTL

\* As long as scripts are orderly t_timer_add, t_timer_remove and
\* t_timers_check lose no timer and keep no freed one, and what is lost is
\* what rehashes have left behind.
THEOREM OrderlyTimersAreKept == Spec => []NoTimerLost
<1>1. IInv => NoTimerLost
  <2> SUFFICES ASSUME IInv, orderly PROVE Pending = Chain(mem, FirstTimer)
    BY DEF NoTimerLost, FirstTimer, Pending, IInv, TypeOK
  <2>1. PICK s \in Seq(Addr) : Represents(s)
    BY DEF IInv
  <2>2. CASE s = << >>
    BY <2>1, <2>2 DEF Represents, Elements, Chain
  <2>3. CASE s # << >>
    <3>1. Chain(mem, s[1]) = Elements(s)
      BY <2>1, <2>3, ChainIsPath DEF IInv, TypeOK, Represents
    <3> QED BY <2>1, <2>3, <3>1 DEF Represents
  <2> QED BY <2>2, <2>3
<1> QED BY <1>1, TimersInvariant, PTL

\* As long as scripts are orderly each command runs once, when its second has
\* come, and in the order of expiry.
THEOREM OrderlyTimersRunOnceInOrder == Spec => RunsOnceInOrder
<1>1. IInv /\ [Next]_vars =>
        [orderly /\ pc = "check" /\ pc' = "handler" =>
            /\ mem[tmp].trig <= now
            /\ tmp \notin ran
            /\ tmp \in Pending
            /\ \A a \in Pending : mem[tmp].trig <= mem[a].trig]_vars
  <2> SUFFICES ASSUME IInv, [Next]_vars, orderly, pc = "check", pc' = "handler"
               PROVE  /\ mem[tmp].trig <= now
                      /\ tmp \notin ran
                      /\ tmp \in Pending
                      /\ \A a \in Pending : mem[tmp].trig <= mem[a].trig
    OBVIOUS
  <2>1. RunHandler
    BY DEF Next, Loop, TimersCheck, Script, Utimer, Add, AddGoesAstray, Traffic, EndOfMotd, Tick,
           CheckBegin, NoCheck, NotDue, RemoveFirst, RemoveOther, CheckEnd, LoopEnd, vars,
           AddToReplaced, RehashTimers
  <2>2. Due
    BY <2>1 DEF RunHandler
  <2>3. tmp \in Pending /\ \A a \in Pending : mem[tmp].trig <= mem[a].trig
    BY <2>2, FirstIsDue
  <2>4. ran = {}
    BY DEF IInv, CheckState
  <2>5. mem[tmp].trig \in Nat /\ stamp \in Nat /\ now \in Nat /\ stamp <= now /\ mem[tmp].trig <= stamp
    BY <2>2, <2>3 DEF IInv, TypeOK, Timer, Due, Pending
  <2> QED BY <2>3, <2>4, <2>5
<1> QED BY <1>1, TimersInvariant, PTL DEF Spec, RunsOnceInOrder
-----------------------------------------------------------------------------
\* The network whose script the core module has after it has registered them all.
LEMMA LastPyIsScripted ==
    ASSUME NEW c \in Conf, c.py # {}
    PROVE  LastPy(c) \in c.py /\ LastPy(c) \in Range(c.nets) /\ LastPy(c) \in Label
<1> DEFINE At == {i \in DOMAIN c.nets : c.nets[i] \in c.py}
           Above == {n \in Nat : \A i \in At : i <= n}
<1>1. /\ c.nets \in Seq(Label) /\ DOMAIN c.nets = 1..Len(c.nets) /\ Len(c.nets) \in Nat
      /\ Range(c.nets) = {c.nets[i] : i \in DOMAIN c.nets} /\ c.py \subseteq Range(c.nets)
  BY ScriptsAssumption DEF Confs, Range
<1>2. At # {} /\ At \subseteq 1..Len(c.nets)
  BY <1>1
<1>3. Above \in SUBSET Nat /\ Len(c.nets) \in Above
  BY <1>1, <1>2
<1>4. PICK n \in Above : \A m \in Above : n <= m
  <2> HIDE DEF Above
  <2> QED BY <1>3, Lists!LeastNat
<1>5. n \in At
  <2> SUFFICES ASSUME n \notin At PROVE FALSE
    OBVIOUS
  <2>1. \A i \in At : i \in Nat /\ i >= 1 /\ i < n
    BY SMTT(60), <1>1, <1>2, <1>4
  <2>2. n - 1 \in Nat /\ \A i \in At : i <= n - 1
    BY <1>2, <1>4, <2>1
  <2> QED BY <1>4, <2>2
<1>6. \E x \in At : \A y \in At : x >= y
  BY <1>2, <1>4, <1>5
<1>7. Max(At) \in At
  <2> HIDE DEF At
  <2> QED BY <1>6 DEF Max
<1>8. PICK m \in At : LastPy(c) = c.nets[m]
  BY <1>7 DEF LastPy
<1>9. c.nets[m] \in c.py /\ c.nets[m] \in Label
  BY <1>1
<1> QED BY <1>1, <1>8, <1>9

\* The networks of a configuration, and those with scripts.
LEMMA ConfigurationSets ==
    ASSUME NEW c \in Conf
    PROVE  /\ c.nets \in Seq(Label) /\ Range(c.nets) \subseteq Label
           /\ c.tcl \cup c.js \cup c.py \subseteq Range(c.nets)
  BY ScriptsAssumption DEF Confs, Range

\* What the languages have on the networks of the configuration in use.
LanguagesServe ==
    /\ \A l \in Nets :
         /\ acts[l] = Rec(l) \/ (gen > 0 /\ l \notin conf.tcl)
         /\ ctx[l] \in {Rec(l), None}
    /\ process = "down" => gen = 0
    /\ process # "down" =>
         /\ obj = PyObject(conf, gen)
         /\ conf.py # {} => py = [rec |-> <<LastPy(conf), gen>>, loaded |-> (gen = 0)]
         /\ \A l \in Nets :
              /\ l \in conf.tcl => "tcl" \in trigs[l]
              /\ l \in conf.js => "js" \in trigs[l] /\ ctx[l] # None
              /\ gen = 0 => /\ conf.php => "php" \in trigs[l]
                            /\ l \in conf.py => ("py" \in trigs[l] <=> l = LastPy(conf))

\* A network record in use is neither a missing context nor an unassigned object.
LEMMA RecIsNoNull ==
    ASSUME ScriptsOK, NEW l \in Nets
    PROVE  Rec(l) \in Record /\ Rec(l) # None /\ Rec(l) # Junk
  BY ConfigurationSets, ScriptsAssumption DEF ScriptsOK, Nets, Rec, Record

ScriptsInv == ScriptsOK /\ LanguagesServe /\ CallsReachTheirNetwork

\* The bot starts with records of generation 0, and none has a context or an object yet.
LEMMA UnstartedScriptsInv == Unstarted => ScriptsInv
<1> SUFFICES ASSUME Unstarted PROVE ScriptsInv
  OBVIOUS
<1>1. ScriptsOK
  BY ConfigurationSets, ScriptsAssumption DEF Unstarted, ScriptsOK, Rec, Record, Nets
<1>2. LanguagesServe
  BY DEF Unstarted, LanguagesServe
<1>3. CallsReachTheirNetwork
  BY DEF Unstarted, CallsReachTheirNetwork
<1> QED BY <1>1, <1>2, <1>3 DEF ScriptsInv

\* config_engine_init.
LEMMA StartKeepsScriptsInv == ASSUME ScriptsInv, Start PROVE ScriptsInv'
<1>1. /\ process' = "up" /\ UNCHANGED <<conf, gen, acts, sess, told>> /\ Nets' = Nets
      /\ ctx' = [l \in Nets |-> IF l \in conf.js THEN Rec(l) ELSE None]
      /\ obj' = PyObject(conf, gen) /\ py' = Registered(conf, gen, TRUE)
      /\ wired' = {Rec(l) : l \in Nets}
      /\ conf \in Conf /\ gen \in 0..MaxRehash
  BY DEF Start, Nets, ScriptsInv, ScriptsOK
<1>2. /\ \A l \in Nets : trigs'[l] \in SUBSET Lang
      /\ trigs' \in [Nets -> SUBSET Lang]
  BY DEF Start
<1>3. \A l \in Nets : /\ l \in conf.tcl => "tcl" \in trigs'[l]
                      /\ l \in conf.js => "js" \in trigs'[l]
                      /\ conf.php => "php" \in trigs'[l]
                      /\ l \in conf.py => ("py" \in trigs'[l] <=> l = LastPy(conf))
  BY DEF Start, TclLoads, JsLoads, PhpLoads, PyLoads, Lang, Nets
<1>4. ScriptsOK'
  <2>1. \A l \in Nets : Rec(l) \in Record
    BY RecIsNoNull DEF ScriptsInv
  <2>2. obj' \in [Nets -> Record \cup {Junk}]
    BY <1>1, <2>1 DEF PyObject, Nets, Rec
  <2>3. py' = None \/ py' \in [rec : Record, loaded : BOOLEAN]
    BY <1>1, LastPyIsScripted DEF ScriptsInv, ScriptsOK, Registered, Record
  <2> QED BY ZenonT(60), <1>1, <1>2, <2>1, <2>2, <2>3 DEF ScriptsInv, ScriptsOK
<1>5. LanguagesServe'
  <2>1. gen = 0
    BY DEF ScriptsInv, LanguagesServe, Start
  <2>2. conf.py # {} => py' = [rec |-> <<LastPy(conf), gen>>, loaded |-> (gen = 0)]
    BY <1>1, <2>1 DEF Registered
  <2>3. \A l \in Nets : ctx'[l] \in {Rec(l), None} /\ (l \in conf.js => ctx'[l] # None)
    BY <1>1, RecIsNoNull DEF ScriptsInv
  <2>4. \A l \in Nets : acts'[l] = Rec(l) \/ (gen > 0 /\ l \notin conf.tcl)
    BY <1>1 DEF ScriptsInv, LanguagesServe
  <2> QED BY <1>1, <1>3, <2>2, <2>3, <2>4 DEF LanguagesServe, Rec
<1>6. CallsReachTheirNetwork'
  BY <1>1 DEF ScriptsInv, CallsReachTheirNetwork, Rec
<1> QED BY <1>4, <1>5, <1>6 DEF ScriptsInv

\* What the partyline does, and what the process dies of, changes no more than sessions,
\* contexts and triggers, and those only in one direction.
LEMMA LesserStepKeepsScriptsInv ==
    ASSUME ScriptsInv, process = "up", UNCHANGED <<conf, gen, acts, obj, py, wired>>,
           process' \in {"up", "ended", "gone"},
           ctx' = ctx \/ \E l \in Nets : ctx' = [ctx EXCEPT ![l] = IF @ = None THEN Rec(l) ELSE @],
           trigs' = trigs \/ \E l : trigs' = [trigs EXCEPT ![l] = @ \cup {"js"}],
           sess' \subseteq Record,
           CallsReachTheirNetwork'
    PROVE  ScriptsInv'
<1>1. /\ Nets' = Nets /\ ScriptsOK /\ LanguagesServe /\ \A l : Rec(l)' = Rec(l)
  BY DEF ScriptsInv, Nets, Rec
<1>2. \A l \in Nets : ctx'[l] = ctx[l] \/ (ctx[l] = None /\ ctx'[l] = Rec(l) /\ Rec(l) # None)
  BY <1>1, RecIsNoNull DEF ScriptsOK
<1>3. \A l \in Nets : trigs'[l] = trigs[l] \/ trigs'[l] = trigs[l] \cup {"js"}
  BY <1>1 DEF ScriptsOK
<1>4. ScriptsOK'
  <2>1. ctx' \in [Nets -> Record \cup {None}]
    BY <1>1, RecIsNoNull DEF ScriptsOK
  <2>2. trigs' \in [Nets -> SUBSET Lang]
    BY <1>1 DEF ScriptsOK, Lang
  <2> QED BY <1>1, <2>1, <2>2 DEF ScriptsOK
<1>5. LanguagesServe'
  <2>1. \A l \in Nets : /\ l \in conf.tcl => "tcl" \in trigs'[l]
                        /\ l \in conf.js => "js" \in trigs'[l] /\ ctx'[l] # None
                        /\ gen = 0 => /\ conf.php => "php" \in trigs'[l]
                                      /\ l \in conf.py => ("py" \in trigs'[l] <=> l = LastPy(conf))
    BY <1>1, <1>2, <1>3 DEF LanguagesServe
  <2>2. obj' = PyObject(conf, gen)
    BY <1>1 DEF LanguagesServe
  <2>3. conf.py # {} => py' = [rec |-> <<LastPy(conf), gen>>, loaded |-> (gen = 0)]
    BY <1>1 DEF LanguagesServe
  <2>4. \A l \in Nets : /\ acts'[l] = Rec(l) \/ (gen > 0 /\ l \notin conf.tcl)
                        /\ ctx'[l] \in {Rec(l), None}
    BY <1>1, <1>2 DEF LanguagesServe
  <2> QED BY <1>1, <2>1, <2>2, <2>3, <2>4 DEF LanguagesServe
<1> QED BY <1>4, <1>5 DEF ScriptsInv

\* What is said of a call stays true while its record stays in use.
LEMMA SameCall ==
    ASSUME CallsReachTheirNetwork, UNCHANGED <<told, conf, gen>> \/ told' = None
    PROVE  CallsReachTheirNetwork'
BY DEF CallsReachTheirNetwork, Nets, Rec

LEMMA PartylineKeepsScriptsInv ==
    ASSUME ScriptsInv, Partyline \/ (\E l \in Nets : PyEventAstray(l)) \/ Return
    PROVE  ScriptsInv'
<1>1. ScriptsOK /\ CallsReachTheirNetwork
  BY DEF ScriptsInv
<1>2. ASSUME NEW l \in Nets, Open(l) PROVE ScriptsInv'
  <2>1. /\ process = "up" /\ UNCHANGED <<process, conf, gen, acts, ctx, obj, py, trigs, wired, told>>
        /\ sess' = sess \cup {Rec(l)}
    BY <1>2 DEF Open
  <2>2. sess' \subseteq Record
    BY <1>1, <2>1, RecIsNoNull DEF ScriptsOK
  <2> QED BY <1>1, <2>1, <2>2, SameCall, LesserStepKeepsScriptsInv
<1>3. ASSUME NEW s \in sess, Close(s) PROVE ScriptsInv'
  <2>1. /\ process = "up" /\ UNCHANGED <<process, conf, gen, acts, ctx, obj, py, trigs, wired, told>>
        /\ sess' \subseteq Record
    BY <1>1, <1>3 DEF Close, ScriptsOK
  <2> QED BY <1>1, <2>1, SameCall, LesserStepKeepsScriptsInv
<1>4. ASSUME NEW s \in sess, PartylineJs(s) PROVE ScriptsInv'
  <2>1. /\ process = "up" /\ UNCHANGED <<process, conf, gen, acts, obj, py, trigs, wired, sess, told>>
        /\ ctx' = [ctx EXCEPT ![s[1]] = IF @ = None THEN s ELSE @] /\ s = Rec(s[1])
        /\ sess' \subseteq Record
    BY <1>1, <1>4 DEF PartylineJs, ScriptsOK, Record, Rec
  <2>2. ctx' = ctx \/ \E l \in Nets : ctx' = [ctx EXCEPT ![l] = IF @ = None THEN Rec(l) ELSE @]
    <3>1. CASE s[1] \in Nets
      BY <2>1, <3>1
    <3>2. CASE s[1] \notin Nets
      BY <1>1, <2>1, <3>2 DEF ScriptsOK
    <3> QED BY <3>1, <3>2
  <2> QED BY <1>1, <2>1, <2>2, SameCall, LesserStepKeepsScriptsInv
<1>5. ASSUME NEW s \in sess, PartylineLoad(s) PROVE ScriptsInv'
  <2>1. /\ process = "up" /\ UNCHANGED <<conf, gen, acts, ctx, obj, py, wired, sess, told>>
        /\ process' \in {"up", "gone"} /\ sess' \subseteq Record
        /\ trigs' = trigs \/ \E l : trigs' = [trigs EXCEPT ![l] = @ \cup {"js"}]
    BY <1>1, <1>5 DEF PartylineLoad, ScriptsOK
  <2> QED BY <1>1, <2>1, SameCall, LesserStepKeepsScriptsInv
<1>6. ASSUME NEW s \in sess, PartylineStale(s) PROVE ScriptsInv'
  <2>1. /\ process = "up" /\ UNCHANGED <<conf, gen, acts, ctx, obj, py, trigs, wired, sess, told>>
        /\ process' = "gone" /\ sess' \subseteq Record
    BY <1>1, <1>6 DEF PartylineStale, ScriptsOK
  <2> QED BY <1>1, <2>1, SameCall, LesserStepKeepsScriptsInv
<1>7. ASSUME NEW l \in Nets, PyEventAstray(l) PROVE ScriptsInv'
  <2>1. /\ process = "up" /\ UNCHANGED <<conf, gen, acts, ctx, obj, py, trigs, wired, sess, told>>
        /\ process' = "gone" /\ sess' \subseteq Record
    BY <1>1, <1>7 DEF PyEventAstray, ScriptsOK
  <2> QED BY <1>1, <2>1, SameCall, LesserStepKeepsScriptsInv
<1>8. CASE Return
  <2>1. /\ process = "up" /\ UNCHANGED <<process, conf, gen, acts, ctx, obj, py, trigs, wired, sess>>
        /\ told' = None /\ sess' \subseteq Record
    BY <1>1, <1>8 DEF Return, ScriptsOK
  <2> QED BY <1>1, <2>1, SameCall, LesserStepKeepsScriptsInv
<1> QED BY <1>2, <1>3, <1>4, <1>5, <1>6, <1>7, <1>8 DEF Partyline

\* A Python script that is heard is one of the network that is registered.
LEMMA HeardPython ==
    ASSUME ScriptsInv, process # "down", NEW l \in Nets, Hears(l, "py")
    PROVE  py.rec = Rec(l)
<1>1. obj[l] = IF l \in conf.py THEN Rec(l) ELSE Junk
  BY DEF ScriptsInv, LanguagesServe, PyObject, Nets, Rec
<1>2. py # None /\ py.rec = obj[l] /\ py.rec \in Record
  BY DEF ScriptsInv, ScriptsOK, Hears
<1>3. Junk \notin Record
  BY ScriptsAssumption DEF Record
<1> QED BY <1>1, <1>2, <1>3

\* A call changes nothing here but what has been told and, perhaps, the end of the bot.
LEMMA TellingKeepsScriptsInv ==
    ASSUME ScriptsInv, process = "up", NEW g, NEW cmd, NEW n, NEW m, NEW same, NEW on, NEW outcome,
           Told(g, cmd, n, m, same, on, outcome),
           \/ m \notin Nets \/ on = Rec(m)
           \/ g = "tcl" /\ gen > 0 /\ m \notin conf.tcl
    PROVE  ScriptsInv'
<1>1. PICK missing \in SUBSET ReliesOn(outcome.fn) :
      /\ UNCHANGED <<conf, gen, acts, ctx, obj, py, trigs, wired, sess>>
      /\ process' \in After(on, outcome, missing)
      /\ told'.lang = g /\ told'.label = m /\ told'.on = on
  BY DEF Told
<1>2. process' \in {"up", "ended", "gone"}
  BY <1>1 DEF After
<1>3. sess' \subseteq Record
  BY <1>1 DEF ScriptsInv, ScriptsOK
<1>4. CallsReachTheirNetwork'
  BY <1>1 DEF CallsReachTheirNetwork, Nets, Rec
<1> QED BY <1>1, <1>2, <1>3, <1>4, LesserStepKeepsScriptsInv

LEMMA CallKeepsScriptsInv == ASSUME ScriptsInv, Call PROVE ScriptsInv'
<1>1. LanguagesServe
  BY DEF ScriptsInv
<1>2. ASSUME NEW l \in Label, NEW n, CallTcl(l, n) PROVE ScriptsInv'
  <2>1. PICK cmd \in DOMAIN TclCommands(n) :
        process = "up" /\ Told("tcl", cmd, n, l, TRUE, acts[l], TclCommands(n)[cmd])
    BY <1>2 DEF CallTcl
  <2>2. acts[l] = Rec(l) \/ (gen > 0 /\ l \notin conf.tcl)
    BY <1>1, <1>2 DEF CallTcl, LanguagesServe
  <2> QED BY <2>1, <2>2, TellingKeepsScriptsInv
<1>3. ASSUME NEW l \in Label, NEW n, CallJs(l, n) PROVE ScriptsInv'
  <2>1. PICK cmd \in DOMAIN JsCommands(n) :
        process = "up" /\ Told("js", cmd, n, l, TRUE, ctx[l], JsCommands(n)[cmd])
    BY <1>3 DEF CallJs
  <2>2. ctx[l] = Rec(l)
    BY <1>1, <1>3 DEF CallJs, LanguagesServe
  <2> QED BY <2>1, <2>2, TellingKeepsScriptsInv
<1>4. ASSUME NEW m \in Label, NEW n, NEW same, CallPhp(m, n, same) PROVE ScriptsInv'
  <2>1. PICK cmd \in DOMAIN PhpCommands(n) :
        /\ process = "up"
        /\ Told("php", cmd, n, m, same, IF m \in Nets THEN Rec(m) ELSE None,
                PhpOutcome(cmd, PhpCommands(n)[cmd], m \in Nets, same))
    BY <1>4 DEF CallPhp
  <2>2. m \notin Nets \/ (IF m \in Nets THEN Rec(m) ELSE None) = Rec(m)
    OBVIOUS
  <2> QED BY <2>1, <2>2, TellingKeepsScriptsInv
<1>5. ASSUME NEW l \in Label, NEW n, CallPy(l, n) PROVE ScriptsInv'
  <2>1. PICK cmd \in DOMAIN PyCommands(n) :
        /\ process = "up" /\ l \in Nets /\ Hears(l, "py")
        /\ Told("py", cmd, n, l, TRUE, py.rec, PyCommands(n)[cmd])
    BY <1>5 DEF CallPy
  <2>2. py.rec = Rec(l)
    BY <2>1, HeardPython
  <2> QED BY <2>1, <2>2, TellingKeepsScriptsInv
<1> QED BY <1>2, <1>3, <1>4, <1>5 DEF Call

\* egg_rehash: every network of the new configuration gets a record of the next generation.
LEMMA RehashKeepsScriptsInv ==
    ASSUME ScriptsInv, NEW kept \in SUBSET Nets, NEW c \in Conf, Rehash(kept, c)
    PROVE  ScriptsInv'
<1>1. /\ process' = "up" /\ conf' = c /\ gen' = gen + 1 /\ gen' \in 0..MaxRehash /\ gen' > 0
      /\ acts' = ActsAfter(c, kept) /\ ctx' = CtxAfter(c, kept) /\ obj' = PyObject(c, gen')
      /\ py' = Registered(c, gen', FALSE) /\ trigs' = TrigsAfter(c, kept)
      /\ \E new \in SUBSET (Range(c.nets) \ kept) : wired' = wired \cup {<<l, gen'>> : l \in new}
      /\ sess' \subseteq sess /\ told = None /\ told' = None
      /\ Nets' = Range(c.nets) /\ \A l : Rec(l)' = <<l, gen'>>
  <2>1. /\ process' = process /\ process = "up" /\ conf' = c /\ gen' = gen + 1 /\ gen < MaxRehash
        /\ acts' = ActsAfter(c, kept) /\ ctx' = CtxAfter(c, kept) /\ obj' = PyObject(c, gen + 1)
        /\ py' = Registered(c, gen + 1, FALSE) /\ trigs' = TrigsAfter(c, kept)
        /\ \E new \in SUBSET (Range(c.nets) \ kept) : wired' = wired \cup {<<l, gen + 1>> : l \in new}
        /\ sess' \subseteq sess /\ told = None /\ told' = told
    BY DEF Rehash
  <2>2. gen' \in 0..MaxRehash /\ gen' > 0
    BY <2>1, ScriptsAssumption DEF ScriptsInv, ScriptsOK
  <2>3. Nets' = Range(c.nets) /\ \A l : Rec(l)' = <<l, gen'>>
    BY <2>1 DEF Nets, Rec
  <2> QED BY <2>1, <2>2, <2>3
<1>2. Range(c.nets) \subseteq Label /\ c.tcl \cup c.js \cup c.py \subseteq Range(c.nets)
  BY ConfigurationSets
<1>3. \A l \in Range(c.nets) : <<l, gen'>> \in Record /\ <<l, gen'>> # None
  BY <1>1, <1>2, ScriptsAssumption DEF Record
<1>4. \A l \in Range(c.nets) :
        /\ acts'[l] \in Record /\ (l \in c.tcl => acts'[l] = <<l, gen'>>)
        /\ ctx'[l] \in {<<l, gen'>>, None} /\ (l \in c.js => ctx'[l] # None)
        /\ trigs'[l] \in SUBSET Lang
        /\ l \in c.tcl => "tcl" \in trigs'[l]
        /\ l \in c.js => "js" \in trigs'[l]
  <2> SUFFICES ASSUME NEW l \in Range(c.nets)
               PROVE  /\ acts'[l] \in Record /\ (l \in c.tcl => acts'[l] = <<l, gen'>>)
                      /\ ctx'[l] \in {<<l, gen'>>, None} /\ (l \in c.js => ctx'[l] # None)
                      /\ trigs'[l] \in SUBSET Lang
                      /\ l \in c.tcl => "tcl" \in trigs'[l]
                      /\ l \in c.js => "js" \in trigs'[l]
    OBVIOUS
  <2>1. l \in Both(c, kept) => l \in Nets /\ acts[l] \in Record /\ trigs[l] \in SUBSET Lang
    BY DEF Both, ScriptsInv, ScriptsOK
  <2>2. acts'[l] = IF l \in Both(c, kept) \ c.tcl THEN acts[l] ELSE <<l, gen'>>
    BY <1>1 DEF ActsAfter
  <2>3. ctx'[l] = IF l \in Both(c, kept) \cup c.js THEN <<l, gen'>> ELSE None
    BY <1>1 DEF CtxAfter
  <2>4. trigs'[l] = (IF l \in Both(c, kept) THEN trigs[l] ELSE {}) \cup Reloaded(l, c)
    BY <1>1 DEF TrigsAfter
  <2>5. /\ Reloaded(l, c) \subseteq Lang
        /\ l \in c.tcl => "tcl" \in Reloaded(l, c)
        /\ l \in c.js => "js" \in Reloaded(l, c)
    BY DEF Reloaded, Lang, TclLoads, JsLoads
  <2> QED BY <1>3, <2>1, <2>2, <2>3, <2>4, <2>5
<1>5. ScriptsOK'
  <2>1. acts' \in [Nets' -> Record] /\ ctx' \in [Nets' -> Record \cup {None}]
        /\ trigs' \in [Nets' -> SUBSET Lang]
    BY <1>1, <1>3, <1>4 DEF ActsAfter, CtxAfter, TrigsAfter
  <2>2. obj' \in [Nets' -> Record \cup {Junk}]
    BY <1>1, <1>3 DEF PyObject
  <2>3. py' = None \/ py' \in [rec : Record, loaded : BOOLEAN]
    BY <1>1, LastPyIsScripted DEF ScriptsInv, ScriptsOK, Registered, Record
  <2>4. wired' \subseteq Record /\ sess' \subseteq Record
    BY <1>1, <1>3 DEF ScriptsInv, ScriptsOK
  <2> QED BY <1>1, <2>1, <2>2, <2>3, <2>4 DEF ScriptsOK
<1>6. LanguagesServe'
  <2>1. c.py # {} => py' = [rec |-> <<LastPy(c), gen'>>, loaded |-> (gen' = 0)]
    <3>1. (gen' = 0) = FALSE
      BY <1>1
    <3> QED BY <1>1, <3>1 DEF Registered
  <2>2. \A l \in Nets' : /\ (acts[l] = Rec(l))' \/ (gen' > 0 /\ l \notin conf'.tcl)
                         /\ ctx'[l] \in {Rec(l)', None}
    BY <1>1, <1>4
  <2>3. \A l \in Nets' : /\ l \in conf'.tcl => "tcl" \in trigs'[l]
                         /\ l \in conf'.js => "js" \in trigs'[l] /\ ctx'[l] # None
    BY <1>1, <1>4
  <2>4. process' # "down" /\ gen' # 0 /\ obj' = PyObject(conf', gen')
    BY <1>1
  <2> QED BY <1>1, <2>1, <2>2, <2>3, <2>4 DEF LanguagesServe
<1>7. CallsReachTheirNetwork'
  BY <1>1 DEF CallsReachTheirNetwork
<1> QED BY <1>5, <1>6, <1>7 DEF ScriptsInv

LEMMA ScriptsInvHolds == BotLife => []ScriptsInv
<1>1. ASSUME ScriptsInv, [BotStep]_botVars PROVE ScriptsInv'
  <2>1. CASE Start
    BY <1>1, <2>1, StartKeepsScriptsInv
  <2>2. CASE Partyline \/ (\E l \in Nets : PyEventAstray(l)) \/ Return
    BY <1>1, <2>2, PartylineKeepsScriptsInv
  <2>3. ASSUME NEW kept \in SUBSET Nets, NEW c \in Conf, Rehash(kept, c) PROVE ScriptsInv'
    BY <1>1, <2>3, RehashKeepsScriptsInv
  <2>4. ASSUME NEW kept \in SUBSET Nets, NEW c \in Conf, RehashAstray(kept, c) PROVE ScriptsInv'
    <3>1. /\ process = "up" /\ UNCHANGED <<conf, gen, acts, ctx, obj, py, trigs, wired, sess, told>>
          /\ process' = "gone" /\ sess' \subseteq Record /\ CallsReachTheirNetwork
      BY <1>1, <2>4 DEF RehashAstray, ScriptsInv, ScriptsOK
    <3> QED BY <1>1, <3>1, SameCall, LesserStepKeepsScriptsInv
  <2>5. CASE Call
    BY <1>1, <2>5, CallKeepsScriptsInv
  <2>6. CASE UNCHANGED botVars
    BY <1>1, <2>6 DEF botVars, ScriptsInv, ScriptsOK, LanguagesServe, CallsReachTheirNetwork, Nets,
                      Rec, PyObject
  <2> QED BY <1>1, <2>1, <2>2, <2>3, <2>4, <2>5, <2>6 DEF BotStep
<1> QED BY <1>1, UnstartedScriptsInv, PTL DEF BotLife

\* For any configurations and any number of rehashes, networks and sessions, each network
\* of the configuration in use has its interpreter, context, object and triggers, all of
\* records that exist (config_engine_init, egg_rehash).
THEOREM LanguagesHaveTheirRecords == BotLife => []ScriptsOK
<1>1. ScriptsInv => ScriptsOK
  BY DEF ScriptsInv
<1> QED BY <1>1, ScriptsInvHolds, PTL

\* For any configurations and any number of rehashes, a command acts on the network record
\* in use; only the Tcl commands of a network that has lost its Tcl scripts may act on an
\* old one (net_tcl_init_commands, JS_SetContextPrivate, PHP's labels, Python's objects).
THEOREM CommandsActOnRecordsInUse == BotLife => []CallsReachTheirNetwork
<1>1. ScriptsInv => CallsReachTheirNetwork
  BY DEF ScriptsInv
<1> QED BY <1>1, ScriptsInvHolds, PTL

\* For any configurations and any number of rehashes, the scripts of the configuration in
\* use are heard, in the languages and on the networks that the property lists
\* (tcl_load_scripts_from_config, js_load_scripts_from_config, cfg_init_python, egg_rehash).
THEOREM ConfiguredScriptsAreHeard == BotLife => []EveryScriptIsHeard
<1>1. ASSUME ScriptsInv PROVE EveryScriptIsHeard
  <2> SUFFICES ASSUME process # "down", NEW l \in Nets
               PROVE  /\ l \in conf.tcl => Hears(l, "tcl")
                      /\ l \in conf.js  => Hears(l, "js")
                      /\ conf.php /\ gen = 0 => Hears(l, "php")
                      /\ l \in conf.py  => (Hears(l, "py") <=> gen = 0 /\ l = LastPy(conf))
    BY DEF EveryScriptIsHeard
  <2>1. LanguagesServe
    BY <1>1 DEF ScriptsInv
  <2>2. l \in conf.tcl => Hears(l, "tcl")
    BY <2>1 DEF LanguagesServe, Hears
  <2>3. l \in conf.js => Hears(l, "js")
    BY <2>1 DEF LanguagesServe, Hears
  <2>4. conf.php /\ gen = 0 => Hears(l, "php")
    BY <2>1 DEF LanguagesServe, Hears
  <2>5. ASSUME l \in conf.py PROVE Hears(l, "py") <=> gen = 0 /\ l = LastPy(conf)
    <3>0. py = [rec |-> <<LastPy(conf), gen>>, loaded |-> (gen = 0)]
      BY <2>1, <2>5 DEF LanguagesServe
    <3>1. py.rec = <<LastPy(conf), gen>> /\ py.loaded = (gen = 0)
      BY <3>0
    <3>2. obj[l] = <<l, gen>> /\ Rec(l) = <<l, gen>>
      BY <2>1, <2>5 DEF LanguagesServe, PyObject, Nets, Rec
    <3>3. gen = 0 => ("py" \in trigs[l] <=> l = LastPy(conf))
      BY <2>1, <2>5 DEF LanguagesServe
    <3>4. py # None
      <4>1. py \in [rec : Record, loaded : BOOLEAN]
        BY <1>1, <2>5, <3>0, LastPyIsScripted DEF ScriptsInv, ScriptsOK, Record
      <4> QED BY <4>1, ScriptsAssumption
    <3> QED BY <3>1, <3>2, <3>3, <3>4 DEF Hears
  <2> QED BY <2>2, <2>3, <2>4, <2>5
<1> QED BY <1>1, ScriptsInvHolds, PTL
=============================================================================
