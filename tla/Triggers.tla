------------------------------- MODULE Triggers ------------------------------
(***************************************************************************)
(* The triggers of one network: the table of lists, egg_bind and           *)
(* egg_unbind (egg_lib.c), trigger_match (irc_trigger.c), which walks one  *)
(* or two of the lists for each line of the server, and the handlers of    *)
(* the script languages, which may call egg_bind and egg_unbind while      *)
(* trigger_match stands on their trigger.                                  *)
(*                                                                         *)
(* A list is a CursorList value.  A trigger that was taken out of its list *)
(* keeps its link (left); one that was freed may be allocated again.  The  *)
(* text of an event is abstracted to the masks that match it.              *)
(***************************************************************************)
EXTENDS CursorList, TLC

CONSTANTS Trigger,   \* addresses
          NULL,
          Mask, Command,
          World,     \* what is given: the events, the built-in triggers, the languages,
                     \* and each mask in lower case
          MaxCalls   \* how many calls of egg_bind and egg_unbind one handler makes

Lists == {"pub", "pubm", "msg", "msgm", "part", "notc", "join", "sign", "ctcp", "kick",
          "dcc", "topc", "raw"}
Language == {"tcl", "js", "php", "py"}
BuiltIn == "C"

\* The lists that trigger_match walks for a line: of PRIVMSG to the bot, PRIVMSG
\* to a channel, and the other commands.
Walks == [private |-> <<"msg", "msgm">>, public |-> <<"pub", "pubm">>, JOIN |-> <<"join">>,
          PART |-> <<"part">>, QUIT |-> << >>, TOPIC |-> <<"topc">>, KICK |-> <<"kick">>,
          NOTICE |-> <<"notc">>, other |-> <<"raw">>]
Kind == DOMAIN Walks

\* What is left of them.
Rests == UNION {{SubSeq(Walks[k], n, Len(Walks[k])) : n \in 1..(Len(Walks[k]) + 1)} : k \in Kind}

\* What a line may have: a prefix, a nick in it, parameters, trailing text.
Whole == {"prefix", "nick", "params", "rest"}
Shapes(k) ==
    CASE k \in {"private", "public", "TOPIC", "KICK", "PART"} -> {Whole, Whole \ {"rest"}}
      [] k = "QUIT" -> {Whole}
      [] k = "JOIN" -> {Whole \ {"params"}, Whole \ {"rest"}}
      [] k = "NOTICE" -> {Whole, Whole \ {"rest"}, Whole \ {"nick"}, {"params", "rest"}}
      [] k = "other" -> {Whole, Whole \ {"nick"}, {"prefix", "params"}}

\* Where add_default_triggers has triggers.
BuiltInLists == {"msg", "topc", "join", "part", "sign", "kick", "dcc", "notc", "raw"}

ASSUME TriggersAssumption ==
    /\ NULL \notin Trigger /\ MaxCalls \in Nat /\ Mask # {} /\ Command # {}
    /\ World \subseteq [kinds : SUBSET Kind, builtin : Seq([list : BuiltInLists, mask : Mask]),
                       langs : SUBSET Language, lower : [Mask -> Mask]]
    \* No list is given two built-in triggers for a mask.
    /\ \A w \in World : \A i, j \in DOMAIN w.builtin :
          /\ w.builtin[i].list = w.builtin[j].list
          /\ w.lower[w.builtin[i].mask] = w.lower[w.builtin[j].mask]
          => i = j

VARIABLES world,
          trigs,  \* net->trigs
          mem,    \* "free", "linked", or "unlinked": replaced by egg_bind, which forgets it
          what,   \* the list, mask, command and handler of a trigger
          left,   \* where next leads from a trigger that is in no list any more
          pc, has, walks, hits, at, calls, again, \* trigger_match and the handler it called
          due,    \* history: the triggers this walk has still to run
          ran,    \* history: those that it has run
          rash,   \* history: a handler removed its own trigger and then the next one, or
                  \* gave the block of its own to another
          hidden  \* history: the lists whose kept pointer has left the front

table == <<trigs, mem, what, left>>
place == <<has, walks, hits, at>>
vars == <<world, table, pc, place, calls, again, due, ran, rash, hidden>>

\* struct trigger: what it is for, and whose handler it has.
TriggerRecord == [list : Lists, mask : Mask, cmd : Command, lang : Language \cup {BuiltIn}]

Blank == [list |-> "pub", mask |-> CHOOSE m \in Mask : TRUE, cmd |-> CHOOSE c \in Command : TRUE,
          lang |-> BuiltIn]

\* The triggers of add_default_triggers, in the blocks of b.
Default(l, b) ==
    LET items == Picked(b, {i \in DOMAIN b : what[b[i]].list = l})
    IN  [items |-> items, head |-> IF items = << >> THEN 0 ELSE 1]

Described(b) ==
    [t \in Trigger |->
        IF t \notin Range(b) THEN Blank
        ELSE LET d == world.builtin[CHOOSE i \in DOMAIN b : b[i] = t]
             IN  [Blank EXCEPT !.list = d.list, !.mask = d.mask]]

Init ==
    /\ world \in World
    /\ \E b \in [DOMAIN world.builtin -> Trigger] :
          /\ IsInjective(b)
          /\ what = Described(b)
          /\ trigs = [l \in Lists |-> Default(l, b)]
          /\ mem = [t \in Trigger |-> IF t \in Range(b) THEN "linked" ELSE "free"]
    /\ left = [t \in Trigger |-> NULL]
    /\ pc = "idle" /\ has = {} /\ walks = << >> /\ hits = {} /\ at = NULL
    /\ calls = 0 /\ again = FALSE
    /\ due = << >> /\ ran = << >> /\ rash = FALSE /\ hidden = {}

\* Every trigger of a list is allocated and knows its list, no block is in two
\* lists, and trigger_match stands on a trigger or at an end (trigger_list_add,
\* trigger_list_del, free_trigger).
TypeOK ==
    /\ world \in World
    /\ \A l \in Lists : IsList(trigs[l], Trigger)
    /\ mem \in [Trigger -> {"free", "linked", "unlinked"}]
    /\ \A t \in Trigger, l \in Lists :
          t \in Members(trigs[l]) <=> mem[t] = "linked" /\ what[t].list = l
    /\ what \in [Trigger -> TriggerRecord]
    /\ left \in [Trigger -> Trigger \cup {NULL}]
    /\ pc \in {"idle", "begin", "visit", "handler", "fault"}
    /\ has \subseteq Whole /\ walks \in Rests
    /\ hits \subseteq Mask /\ at \in Trigger \cup {NULL}
    /\ calls \in 0..MaxCalls /\ again \in BOOLEAN
    /\ due \in Seq(Trigger) /\ ran \in Seq(Trigger) /\ rash \in BOOLEAN /\ hidden \subseteq Lists
-----------------------------------------------------------------------------
InList(t) == mem[t] = "linked"

\* t->next, whatever became of t.
NextOf(t) == IF InList(t) THEN Successor(trigs[what[t].list], t, NULL) ELSE left[t]

Without(s, t) == Picked(s, {i \in DOMAIN s : s[i] # t})

\* The walk forgets what it had to do with t.
Forgets(t) == due' = Without(due, t) /\ ran' = Without(ran, t)

\* The trigger that runs is out of its list, and what its next leads to goes.
Undermines(t) == at # NULL /\ ~InList(at) /\ left[at] = t

Hides(l, i) == hidden' = IF i > 2 THEN hidden \cup {l} ELSE hidden

\* The masks that egg_bind does not tell apart.
Alike(x, y) == world.lower[x] = world.lower[y]

\* The triggers whose mask is one of M, as the list is walked.
WithMask(l, M) ==
    LET seen == Forward(trigs[l]) IN Picked(seen, {i \in DOMAIN seen : what[seen[i]].mask \in M})

\* Where egg_bind looks for the trigger to replace or to keep, and egg_unbind, to
\* which the case of a mask matters, for the one to take out.
AlikeMask(l, m) == WithMask(l, {x \in Mask : Alike(x, m)})
SameMask(l, m) == WithMask(l, {m})

\* pub and msg hold one trigger for a mask.
Unstackable == {"pub", "msg"}

\* Mutant of Replaced: masks are compared as in egg_unbind.
ReplacedSame(l, m) == IF l \in Unstackable THEN SameMask(l, m) ELSE << >>

Replaced(l, m) == IF l \in Unstackable THEN AlikeMask(l, m) ELSE << >>

\* pubm takes no trigger twice.
Refused(l, m, c) == l = "pubm" /\ \E i \in DOMAIN AlikeMask(l, m) : what[AlikeMask(l, m)[i]].cmd = c

Bindable == Lists \ {"kick"}

New(t, l, m, c, g) ==
    /\ mem[t] = "free"
    /\ what' = [what EXCEPT ![t] = [list |-> l, mask |-> m, cmd |-> c, lang |-> g]]
    /\ left' = [left EXCEPT ![t] = NULL]

\* trigger_list_add to the list l, of which old was taken out (or nothing was).
Linked(l, old, t) ==
    trigs' = [trigs EXCEPT ![l] = ListAdd(IF old = NULL THEN @ ELSE ListDel(@, old), t)]

\* egg_bind, where no trigger is replaced.
BindNew(l, m, c, g, t) ==
    /\ l \in Bindable /\ Replaced(l, m) = << >> /\ ~Refused(l, m, c)
    /\ New(t, l, m, c, g)
    /\ mem' = [mem EXCEPT ![t] = "linked"]
    /\ Linked(l, NULL, t)
    /\ Forgets(t)
    /\ rash' = (rash \/ t = at)
    /\ UNCHANGED <<pc, hidden>>

\* The first trigger with the mask leaves the list, and is never freed.
BindReplacing(l, m, c, g, t) ==
    /\ l \in Bindable /\ Replaced(l, m) # << >>
    /\ LET old == Replaced(l, m)[1]
       IN  /\ mem[t] = "free"
           /\ what' = [what EXCEPT ![t] = [list |-> l, mask |-> m, cmd |-> c, lang |-> g]]
           /\ mem' = [mem EXCEPT ![t] = "linked", ![old] = "unlinked"]
           /\ left' = [left EXCEPT ![old] = NextOf(old), ![t] = NULL]
           /\ Linked(l, old, t)
           /\ due' = Without(Without(due, old), t) /\ ran' = Without(Without(ran, old), t)
           /\ rash' = (rash \/ t = at \/ Undermines(old))
           /\ Hides(l, Position(trigs[l], old))
    /\ UNCHANGED pc

Unbindable == Lists \ {"sign", "ctcp", "kick"}

\* egg_unbind compares commands where the masks agree, and a built-in trigger
\* has none.
MeetsNoCommand(l, m, c) ==
    \E i \in DOMAIN SameMask(l, m) :
        /\ what[SameMask(l, m)[i]].lang = BuiltIn
        /\ \A j \in 1..(i - 1) : what[SameMask(l, m)[j]].cmd # c

UnbindFails(l, m, c) ==
    /\ l \in Unbindable /\ MeetsNoCommand(l, m, c)
    /\ pc' = "fault"
    /\ UNCHANGED <<table, due, ran, rash, hidden>>

\* What is left in a freed block matters only where trigger_match stands on it.
Abandons(x) ==
    IF x = at THEN left' = [left EXCEPT ![x] = NextOf(x)] /\ UNCHANGED what
    ELSE left' = [left EXCEPT ![x] = NULL] /\ what' = [what EXCEPT ![x] = Blank]

\* trigger_list_del
Freed(l, x) == trigs' = [trigs EXCEPT ![l] = ListDel(@, x)]

Unbind(l, m, c) ==
    /\ l \in Unbindable /\ ~MeetsNoCommand(l, m, c)
    /\ LET same == SameMask(l, m)
           found == Picked(same, {i \in DOMAIN same : what[same[i]].cmd = c})
       IN  /\ found # << >>
           /\ Freed(l, found[1])
           /\ mem' = [mem EXCEPT ![found[1]] = "free"]
           /\ Abandons(found[1])
           /\ Forgets(found[1])
           /\ rash' = (rash \/ Undermines(found[1]))
           /\ Hides(l, Position(trigs[l], found[1]))
    /\ UNCHANGED pc

\* The lists that events of this world lead to.
Busy == UNION {ToSet(Walks[k]) : k \in world.kinds}

\* A script's call of bind or unbind.
Call == \E l \in Busy, m \in Mask, c \in Command :
    \/ \E g \in world.langs, t \in Trigger : BindNew(l, m, c, g, t) \/ BindReplacing(l, m, c, g, t)
    \/ Unbind(l, m, c) \/ UnbindFails(l, m, c)

\* From a timer, a partyline line or a script that is loaded.
IdleCall == pc = "idle" /\ Call /\ UNCHANGED <<world, place, calls, again>>
-----------------------------------------------------------------------------
\* What the handlers of the languages read of a line without asking whether it is
\* there, by the list of their trigger.  Where a list is missing they do nothing.
TclReadsPublic == [pub |-> {"nick", "params", "rest"}, pubm |-> {"nick", "params", "rest"}]

TclReadsPrivate == [msg |-> {"nick", "rest"}, msgm |-> {"nick", "rest"}]

TclReadsOther == [topc |-> {"nick", "params", "rest"}, raw |-> {"params", "rest"}]

TclReadsMoves == [join |-> {"nick", "rest"}, part |-> {"nick", "params", "rest"}]

TclReads == TclReadsPublic @@ TclReadsPrivate @@ TclReadsOther @@ TclReadsMoves

\* JS_NewStringCopyZ takes NULL for the empty string.
JsReads == [pub |-> {"prefix", "params", "rest"}, pubm |-> {"prefix", "params"},
            msg |-> {"prefix", "rest"}, msgm |-> {"prefix"}, topc |-> {"prefix", "params"},
            join |-> {"prefix"}, part |-> {"prefix", "params"},
            sign |-> {"prefix", "params"}, ctcp |-> {"prefix", "params"}]

PhpReadsPublic == [pub |-> {"nick", "params", "rest"}, pubm |-> {"nick", "params", "rest"}]

PhpReadsOther == [msg |-> {"nick", "rest"}, topc |-> {"nick", "rest"}, msgm |-> {"nick", "rest"}]

PhpReads == PhpReadsPublic @@ PhpReadsOther

PyReads == [pub |-> {"nick", "params", "rest"}, pubm |-> {"nick", "params", "rest"},
            topc |-> {"nick", "params", "rest"}, msg |-> {"nick", "rest"},
            msgm |-> {"nick", "rest"}, notc |-> {"nick", "params", "rest"}]

Reads == [tcl |-> TclReads, js |-> JsReads, php |-> PhpReads, py |-> PyReads]

RunsScript(t) == what[t].lang # BuiltIn /\ what[t].list \in DOMAIN Reads[what[t].lang]
Misses(t) == RunsScript(t) /\ ~(Reads[what[t].lang][what[t].list] \subseteq has)
-----------------------------------------------------------------------------
\* dcc_tbinds
Shown == [l \in {"pub", "pubm", "msg", "msgm", "join", "part", "dcc"} |-> Forward(trigs[l])]

\* egg_binds for an argument that matches the masks h and the names of the lists N: the
\* triggers are counted, and none is returned.
Counted(h, N) == UNION {{t \in ToSet(Forward(trigs[l])) : what[t].mask \in h \/ l \in N} : l \in Lists}
-----------------------------------------------------------------------------
\* A line has been parsed.
Event(k, shape) ==
    /\ pc = "idle" /\ k \in world.kinds
    /\ has' = shape /\ walks' = Walks[k]
    /\ pc' = "begin"
    /\ UNCHANGED <<world, table, hits, at, calls, again, due, ran, rash, hidden>>

\* Without these a trigger of the list is not compared with the line.
Wants(l) == CASE l = "part" -> {"rest", "nick"}
              [] l = "topc" -> {"params", "rest"}
              [] l \in {"join", "pub"} -> {"rest"}
              [] l = "kick" -> {"params"}
              [] OTHER -> {}

\* Without these the comparison reads through NULL.
Trusts(l) == CASE l \in {"msg", "msgm", "pubm", "notc"} -> {"rest"}
               [] l \in {"join", "part"} -> IF "rest" \in has THEN {"prefix"} ELSE {}
               [] OTHER -> {}

\* The triggers that are to run: pub and join run one at most, and join looks at
\* the first trigger only.
Due(l, h) ==
    LET seen == Forward(trigs[l])
        met == IF l = "join" /\ seen # << >> THEN <<seen[1]>> ELSE seen
        all == Picked(met, {i \in DOMAIN met : what[met[i]].mask \in h})
    IN  IF ~(Wants(l) \subseteq has) THEN << >>
        ELSE IF l = "pub" /\ all # << >> THEN <<all[1]>> ELSE all

BeginWalk(h) ==
    /\ pc = "begin" /\ walks # << >>
    /\ hits' = h /\ at' = First(trigs[walks[1]], NULL)
    /\ due' = Due(walks[1], h) /\ ran' = << >> /\ rash' = FALSE
    /\ pc' = "visit"
    /\ UNCHANGED <<world, table, has, walks, calls, again, hidden>>

EventEnd ==
    /\ pc = "begin" /\ walks = << >>
    /\ pc' = "idle" /\ has' = {} /\ hits' = {}
    /\ due' = << >> /\ ran' = << >> /\ rash' = FALSE
    /\ UNCHANGED <<world, table, walks, at, calls, again, hidden>>

Visits == UNCHANGED <<world, table, has, hits, hidden, rash>>

LeaveWalk == pc' = "begin" /\ at' = NULL /\ walks' = Tail(walks)

\* join does not ask whether there is a trigger at all.
WalkEnd ==
    /\ pc = "visit" /\ at = NULL
    /\ IF walks[1] = "join" /\ "rest" \in has
       THEN pc' = "fault" /\ UNCHANGED <<at, walks>>
       ELSE LeaveWalk
    /\ Visits /\ UNCHANGED <<calls, again, due, ran>>

Faults ==
    /\ pc = "visit" /\ at # NULL
    /\ mem[at] = "free" \/ ~(Trusts(walks[1]) \subseteq has)
    /\ pc' = "fault"
    /\ Visits /\ UNCHANGED <<at, walks, calls, again, due, ran>>

Compares ==
    /\ pc = "visit" /\ at # NULL
    /\ mem[at] # "free" /\ Trusts(walks[1]) \subseteq has

Hit == Wants(walks[1]) \subseteq has /\ what[at].mask \in hits

\* Mutant of Stays: one match is enough for any list.
StaysNever(l, matched) == ~matched

\* The walk goes on after a trigger that matched, but for pub.
Stays(l, matched) == l # "join" /\ (l = "pub" => ~matched)

Onward(matched) ==
    IF Stays(walks[1], matched) /\ (walks[1] = "pub" => "rest" \in has)
    THEN at' = NextOf(at) /\ pc' = "visit" /\ UNCHANGED walks
    ELSE LeaveWalk

PassBy ==
    /\ Compares /\ ~Hit
    /\ Onward(FALSE)
    /\ Visits /\ UNCHANGED <<calls, again, due, ran>>

RunHandler ==
    /\ Compares /\ Hit
    /\ pc' = IF Misses(at) THEN "fault" ELSE "handler"
    /\ due' = IF due # << >> /\ Head(due) = at THEN Tail(due) ELSE due
    /\ ran' = Append(ran, at)
    /\ Visits /\ UNCHANGED <<at, walks, calls, again>>

HandlerCall ==
    /\ pc = "handler" /\ RunsScript(at) /\ calls < MaxCalls
    /\ Call
    /\ calls' = calls + 1
    /\ UNCHANGED <<world, place, again>>

\* The JavaScript handler goes on from a topic to what it does for a join: the
\* command runs once more, if its trigger still has one.
FallsThrough == what[at].lang = "js" /\ walks[1] = "topc" /\ ~again

HandlerAgain ==
    /\ pc = "handler" /\ FallsThrough
    /\ pc' = IF mem[at] = "free" THEN "fault" ELSE "handler"
    /\ again' = TRUE /\ calls' = 0
    /\ Visits /\ UNCHANGED <<at, walks, due, ran>>

HandlerEnd ==
    /\ pc = "handler" /\ ~FallsThrough
    /\ Onward(TRUE)
    /\ calls' = 0 /\ again' = FALSE
    /\ Visits /\ UNCHANGED <<due, ran>>

\* trigger_match reads the next of a trigger that was freed: the old link
\* (HandlerEnd), or what the block is used for now.
HandlerLost ==
    /\ pc = "handler" /\ mem[at] = "free"
    /\ pc' = "fault"
    /\ Visits /\ UNCHANGED <<at, walks, calls, again, due, ran>>

Next ==
    \/ IdleCall
    \/ \E k \in Kind : \E shape \in Shapes(k) : Event(k, shape)
    \/ \E h \in SUBSET Mask : BeginWalk(h)
    \/ EventEnd \/ WalkEnd \/ Faults \/ PassBy
    \/ RunHandler \/ HandlerCall \/ HandlerAgain \/ HandlerEnd \/ HandlerLost

Spec == Init /\ [][Next]_vars
-----------------------------------------------------------------------------
\* While no handler undermines it, the walk of trigger_match stands on a trigger of
\* its list or on the one that runs, and runs the triggers that matched when it
\* began, each once and in their order, except those that a handler has unbound or
\* replaced first: all that matched, but in pub the first of them only, and in join
\* only the front of the list (a script's join bind behind new_join never runs).
DueTriggersRun ==
    ~rash =>
        /\ pc = "visit" /\ at # NULL => InList(at) /\ what[at].list = walks[1]
        /\ pc = "begin" => due = << >>
        /\ \A i, j \in DOMAIN ran : ran[i] = ran[j] => i = j
        /\ pc = "visit" => ToSet(due) \subseteq Members(trigs[walks[1]])

\* "pub is unstackable": egg_bind and egg_unbind leave one trigger for a mask in
\* pub and msg, whatever its case, and .tbinds shows it and a script that asks for
\* binds counts it, unless the kept pointer has gone past one.
OneTriggerPerMask ==
    \A l \in Unstackable \ hidden :
        /\ \A t, u \in Members(trigs[l]) : Alike(what[t].mask, what[u].mask) => t = u
        /\ ToSet(Shown[l]) = Members(trigs[l])
        /\ Counted({}, {l}) = Members(trigs[l])
=============================================================================
