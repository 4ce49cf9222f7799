------------------------------- MODULE Timers -------------------------------
(***************************************************************************)
(* The timers of one network: the doubly linked list of t_timer.c, the     *)
(* utimer calls of scripts, the place of t_timers_check in the select()    *)
(* loop (irc_loop in sockets.c), and what a rehash does to them.  The      *)
(* network is the only one of the configuration, and a rehash finds its    *)
(* label again.                                                            *)
(*                                                                         *)
(* One pass of the loop is: "select" (block until a descriptor is ready),  *)
(* "irc" (the callbacks of the sockets, in which scripts set timers),      *)
(* "check" (t_timers_check, at the timer tmp) and "handler" (the command   *)
(* of the timer tmp is running; it may set timers too), then "dcc" (the    *)
(* lines of the partyline: their binds may set timers, .rehash is one).    *)
(* free() leaves the fields of a timer as they are until malloc() hands    *)
(* the block out again.  "stuck" is a process that is gone or in an        *)
(* endless loop.                                                           *)
(***************************************************************************)
EXTENDS Integers

CONSTANTS Addr,    \* the blocks malloc() may return for a timer
          Null,    \* the NULL pointer
          Delay,   \* the numbers of seconds scripts ask for
          MaxTime  \* bound: the last second of the clock

ASSUME TimersAssumption ==
    /\ Null \notin Addr
    /\ Delay \subseteq Nat
    /\ MaxTime \in Nat

VARIABLES mem,      \* the fields time_trig, next and prev of every block
          live,     \* the timers between t_timer_new() and t_timer_free()
          ran,      \* those whose command has run
          timers,   \* net->timers
          idle,     \* net->status is NET_IDLE: the end of the MOTD has come
          now,      \* time(NULL)
          stamp,    \* the argument timestamp of t_timers_check
          ret, tmp, \* its local variables
          left,     \* the timers of the records that rehashes have replaced
          newest,   \* the commands of the Tcl interpreter act on the record in use
          heard,    \* the network's tsocket is polled
          orderly,  \* history: see Add
          pc

record == <<left, newest, heard>>
vars == <<mem, live, ran, timers, idle, now, stamp, ret, tmp, record, orderly, pc>>
-----------------------------------------------------------------------------
Pointer == Addr \cup {Null}
Timer == [trig : Nat, next : Pointer, prev : Pointer]

TypeOK ==
    /\ mem \in [Addr -> Timer]
    /\ live \subseteq Addr
    /\ ran \subseteq Addr
    /\ timers \in Pointer
    /\ idle \in BOOLEAN
    /\ now \in 0..MaxTime /\ stamp \in 0..now
    /\ ret \in Pointer
    /\ tmp \in IF pc = "handler" THEN Addr ELSE Pointer
    /\ left \subseteq live /\ newest \in BOOLEAN /\ heard \in BOOLEAN
    /\ orderly \in BOOLEAN
    /\ pc \in {"select", "irc", "check", "handler", "dcc", "stuck"}

\* t_timer_new(), with the fields egg_utimer sets.
NewTimer(trig) == [trig |-> trig, next |-> Null, prev |-> Null]

Init ==
    /\ mem = [a \in Addr |-> NewTimer(0)]
    /\ live = {} /\ ran = {}
    /\ timers = Null
    /\ idle = FALSE
    /\ now = 0 /\ stamp = 0
    /\ ret = Null /\ tmp = Null
    /\ left = {} /\ newest = TRUE /\ heard = TRUE
    /\ orderly = TRUE
    /\ pc = "select"

-----------------------------------------------------------------------------
\* What following ->next from p in the memory m meets: the least set that
\* holds p and, with a timer, the one its next names.
Closed(m, S) == \A a \in S : m[a].next \in S \cup {Null}

Chain(m, p) ==
    IF p = Null THEN {}
    ELSE {a \in Addr : \A S \in SUBSET Addr : p \in S /\ Closed(m, S) => a \in S}

\* It comes to a timer without a next.
Ends(m, p) == p # Null => \E a \in Chain(m, p) : m[a].next = Null

Last(m, p) == CHOOSE a \in Chain(m, p) : m[a].next = Null

\* The timers that have been set on the record in use and not been freed.
Pending == live \ left

-----------------------------------------------------------------------------
\* t_timer_add(net->timers, a) for a block a that has just been allocated and
\* filled in: a goes behind the last timer, found along ->next.
Linked(m, a) ==
    IF timers = Null THEN m
    ELSE [m EXCEPT ![Last(m, timers)].next = a, ![a].prev = Last(m, timers)]

\* egg_utimer: the new timer's block may be one that was freed a moment ago.
\* A script is orderly as long as it sets each timer to run no earlier than
\* the last of the list, and while net->timers is not a freed timer (whose block
\* may meanwhile be a timer of a replaced record).
Add(a, d) ==
    LET m == [mem EXCEPT ![a] = NewTimer(now + d)]
    IN  /\ a \notin live
        /\ Ends(m, timers)
        /\ mem' = Linked(m, a)
        /\ live' = live \cup {a}
        /\ timers' = IF timers = Null THEN a ELSE timers
        /\ orderly' = /\ orderly
                      /\ timers # Null =>
                            /\ timers \in Pending
                            /\ mem[Last(mem, timers)].trig <= now + d
        /\ UNCHANGED <<ran, idle, now, stamp, ret, tmp, record, pc>>

\* The walk of t_timer_add over a list that runs into itself never ends; one
\* that starts at a freed timer may run into anything.
AddGoesAstray(a, d) ==
    LET m == [mem EXCEPT ![a] = NewTimer(now + d)]
    IN  /\ a \notin live
        /\ timers # Null
        /\ timers \notin Pending \/ ~Ends(m, timers)
        /\ orderly' = FALSE
        /\ pc' = "stuck"
        /\ UNCHANGED <<mem, live, ran, timers, idle, now, stamp, ret, tmp, record>>

\* A rehash that finds no Tcl scripts any more leaves the commands with the record
\* it replaces: the timer joins a list that is never checked again.  Its links are
\* left out; a walk over it goes wrong only where scripts have not been orderly.
AddToReplaced(a, d) ==
    /\ a \notin live
    /\ \/ /\ mem' = [mem EXCEPT ![a] = NewTimer(now + d)]
          /\ live' = live \cup {a}
          /\ left' = left \cup {a}
          /\ pc' = pc
       \/ /\ ~orderly
          /\ pc' = "stuck"
          /\ UNCHANGED <<mem, live, left>>
    /\ UNCHANGED <<ran, timers, idle, now, stamp, ret, tmp, newest, heard, orderly>>

Utimer(a, d) ==
    /\ pc \in {"irc", "handler", "dcc"}
    /\ \/ newest /\ (Add(a, d) \/ AddGoesAstray(a, d))
       \/ ~newest /\ AddToReplaced(a, d)

\* The clock of the machine, which runs whatever the bot does.
Tick ==
    /\ now < MaxTime
    /\ pc # "stuck"
    /\ now' = now + 1
    /\ UNCHANGED <<mem, live, ran, timers, idle, stamp, ret, tmp, record, orderly, pc>>

-----------------------------------------------------------------------------
\* Some peer sends something: select(), which has no timeout, returns.
Traffic ==
    /\ pc = "select"
    /\ pc' = "irc"
    /\ UNCHANGED <<mem, live, ran, timers, idle, now, stamp, ret, tmp, record, orderly>>

\* Mutant of EndOfMotd: net->status is left as it was.
EndOfMotdIgnored == pc = "irc" /\ ~idle /\ heard /\ UNCHANGED vars

\* The 376 reply: troll_user_host_handler.  After a rehash nothing of the server's
\* is read.
EndOfMotd ==
    /\ pc = "irc"
    /\ ~idle
    /\ heard
    /\ idle' = TRUE
    /\ UNCHANGED <<mem, live, ran, timers, now, stamp, ret, tmp, record, orderly, pc>>

CheckBegin ==
    /\ pc = "irc"
    /\ idle /\ timers # Null
    /\ pc' = "check"
    /\ stamp' = now
    /\ ret' = timers /\ tmp' = timers
    /\ UNCHANGED <<mem, live, ran, timers, idle, now, record, orderly>>

NoCheck ==
    /\ pc = "irc"
    /\ ~idle \/ timers = Null
    /\ pc' = "dcc"
    /\ UNCHANGED <<mem, live, ran, timers, idle, now, stamp, ret, tmp, record, orderly>>

\* Mutant of Due: the comparison is the wrong way round.
DueReversed == tmp # Null /\ mem[tmp].trig >= stamp

Due == tmp # Null /\ mem[tmp].trig <= stamp

\* The timer tmp is due: its command starts.
RunHandler ==
    /\ pc = "check"
    /\ Due
    /\ ran' = ran \cup {tmp}
    /\ pc' = "handler"
    /\ UNCHANGED <<mem, live, timers, idle, now, stamp, ret, tmp, record, orderly>>

NotDue ==
    /\ pc = "check"
    /\ tmp # Null /\ ~Due
    /\ tmp' = mem[tmp].next
    /\ UNCHANGED <<mem, live, ran, timers, idle, now, stamp, ret, record, orderly, pc>>

\* t_timer_remove(ret, tmp) of the first timer: it is freed.  t_timers_check
\* then reads its ->next all the same.
RemoveFirst ==
    /\ pc = "handler"
    /\ ret = tmp
    /\ live' = live \ {tmp}
    /\ left' = left \ {tmp}
    /\ ran' = ran \ {tmp}
    /\ ret' = mem[tmp].next
    /\ tmp' = mem[tmp].next
    /\ pc' = "check"
    /\ UNCHANGED <<mem, timers, idle, now, stamp, newest, heard, orderly>>

\* The links around the timer a after its removal.
Unlinked(a) ==
    LET n == mem[a].next
        p == mem[a].prev
    IN  [b \in Addr |-> [mem[b] EXCEPT !.prev = IF b = n THEN p ELSE @,
                                       !.next = IF b = p THEN n ELSE @]]

\* t_timer_remove of a timer further on: it is unlinked, not freed, and it is
\* what the function returns.
RemoveOther ==
    /\ pc = "handler"
    /\ ret # tmp
    /\ mem' = Unlinked(tmp)
    /\ ret' = tmp
    /\ tmp' = mem[tmp].next
    /\ pc' = "check"
    /\ UNCHANGED <<live, ran, timers, idle, now, stamp, record, orderly>>

\* Mutant of CheckEnd: the result is not stored.
CheckEndDropsResult ==
    /\ pc = "check"
    /\ tmp = Null
    /\ pc' = "dcc"
    /\ UNCHANGED <<mem, live, ran, timers, idle, now, stamp, ret, tmp, record, orderly>>

\* net->timers gets the result.
CheckEnd ==
    /\ pc = "check"
    /\ tmp = Null
    /\ timers' = ret
    /\ pc' = "dcc"
    /\ UNCHANGED <<mem, live, ran, idle, now, stamp, ret, tmp, record, orderly>>

\* .rehash: the new record of the network gets neither its timers nor its tsocket,
\* and the commands of the interpreter if it has Tcl scripts.
RehashTimers ==
    /\ pc = "dcc"
    /\ timers' = Null
    /\ left' = live
    /\ newest' \in BOOLEAN
    /\ heard' = FALSE
    /\ UNCHANGED <<mem, live, ran, idle, now, stamp, ret, tmp, orderly, pc>>

\* The pass is over; the next select() blocks.
LoopEnd ==
    /\ pc = "dcc"
    /\ pc' = "select"
    /\ UNCHANGED <<mem, live, ran, timers, idle, now, stamp, ret, tmp, record, orderly>>

-----------------------------------------------------------------------------
TimersCheck == RunHandler \/ NotDue \/ RemoveFirst \/ RemoveOther \/ CheckEnd

Loop == CheckBegin \/ NoCheck \/ TimersCheck \/ LoopEnd

Script == \E a \in Addr, d \in Delay : Utimer(a, d)

Next == Loop \/ Script \/ RehashTimers \/ Traffic \/ EndOfMotd \/ Tick

\* The bot's own steps go on and the commands of timers end; of the peers
\* nothing is assumed in Spec.  In FairSpec they send something now and then,
\* as an IRC server does with its PINGs and, when a rehash has left the server
\* unheard, the partyline may; and the MOTD ends.
Spec == Init /\ [][Next]_vars /\ WF_vars(Loop)

FairSpec == Spec /\ WF_vars(Traffic) /\ SF_vars(EndOfMotd)
-----------------------------------------------------------------------------
\* As long as scripts are orderly no timer is lost but by a rehash: of the record
\* in use, those the bot still has to run are exactly the ones a walk meets, from
\* net->timers between two passes and from ret during one; the others are those
\* that a rehash has left on a record nobody checks.
NoTimerLost ==
    orderly =>
        LET met == Chain(mem, IF pc \in {"check", "handler"} THEN ret ELSE timers)
        IN  live = met \cup left /\ met \cap left = {}

\* As long as scripts are orderly a command runs only when its second has
\* come, once, before those set for later, and never one from before a rehash.
RunsOnceInOrder ==
    [][orderly /\ pc = "check" /\ pc' = "handler" =>
         /\ mem[tmp].trig <= now
         /\ tmp \notin ran
         /\ tmp \in Pending
         /\ \A a \in Pending : mem[tmp].trig <= mem[a].trig]_vars

\* While scripts are orderly, a timer that is due runs and is freed, unless a
\* rehash leaves it behind or has come before the end of the MOTD.
DueTimersRun ==
    \A a \in Addr : (orderly /\ a \in Pending /\ mem[a].trig <= now)
                        ~> (~orderly \/ a \notin Pending \/ ~(heard \/ idle))
=============================================================================
