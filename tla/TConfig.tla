-------------------------------- MODULE TConfig ------------------------------
(***************************************************************************)
(* The configuration tree of tconfig.c and what config_engine.c makes of   *)
(* it: start-up reads a configuration file and a file of defaults into     *)
(* trees of blocks (file_to_tconfig), merges the second into the first     *)
(* (tconfig_merge), frees it (free_tconfig), takes the settings of each    *)
(* network (config_engine_load) and writes the merged tree to a file       *)
(* (tconfig_to_file).  Last a bot is started with that file.               *)
(*                                                                         *)
(* A file is a sequence of tokens.  A block's key and value are members of *)
(* small sets; how a value is written (Written) is kept.  One step stands  *)
(* for one token, or for one round of the loops over blocks.               *)
(***************************************************************************)
EXTENDS Integers, SequencesExt

CONSTANTS Block,       \* addresses, numbers: malloc gives the least free one
          NULL,
          Key, Value,
          Star,        \* the value "*"
          Quiet,       \* the value ""
          Marked,      \* keys that begin with @
          Plain(_),    \* a key without its @
          Host(_), Port(_), \* of the value of a server: what is before and after its colon, NULL without one
          Slots,       \* of a new array of scripts: 10 in the code
          World        \* pairs of files

Open == [t |-> "open"]
Close == [t |-> "close"]
Bad == [t |-> "bad"]     \* where the scanner prints an error and exits
Pair(k, v) == [t |-> "pair", key |-> k, val |-> v]

Token == {Open, Close, Bad} \cup {Pair(k, v) : k \in Key, v \in Value}

ASSUME TConfigAssumption ==
    /\ Block \subseteq Nat /\ NULL \notin Block /\ NULL \notin Key \cup Value
    /\ {Star, Quiet} \subseteq Value /\ Marked \subseteq Key
    /\ \A k \in Key : Plain(k) \in Key
    /\ Slots \in Nat \ {0}
    /\ World \subseteq [conf : Seq(Token), defaults : Seq(Token), found : BOOLEAN]

VARIABLES world,
          node,    \* the allocated blocks
          pc,
          input,   \* what is left of the file that is read
          tree,    \* the three trees: their first blocks
          at,      \* block of file_to_tconfig, tcfg of free_tconfig, tmp of the writer
          depth,   \* of the writer
          frames,  \* the calls of tconfig_merge
          out,     \* what has been written
          cfg,    \* what config_engine_load has made of the tree
          given    \* history: the two trees before they are merged

work == <<at, depth, frames>>
vars == <<world, node, pc, input, tree, work, out, cfg, given>>

Node == [parent : Block \cup {NULL}, child : Block \cup {NULL}, prev : Block \cup {NULL},
         next : Block \cup {NULL}, key : Key \cup {NULL}, val : Value \cup {NULL}]

NewBlock == [parent |-> NULL, child |-> NULL, prev |-> NULL, next |-> NULL, key |-> NULL, val |-> NULL]

Fresh == CHOOSE b \in Block \ DOMAIN node : \A c \in Block \ DOMAIN node : b <= c

\* n with the blocks of m in place of those of the same address.
With(n, m) == m @@ n

Call(src, dst) == [src |-> src, dst |-> dst, depth |-> 0, wild |-> << >>]
-----------------------------------------------------------------------------
\* The walks over ->prev and ->next, in the heap n.
Leftmost(n, b) == LET back[x \in DOMAIN n] == IF n[x].prev = NULL THEN x ELSE back[n[x].prev] IN back[b]

Onward(n, b) ==
    LET on[x \in DOMAIN n \cup {NULL}] == IF x = NULL THEN << >> ELSE <<x>> \o on[n[x].next] IN on[b]

Siblings(n, b) == Onward(n, Leftmost(n, b))

\* What a tree says: a sequence of entries, each with no list of its own or one.
TreeOf(n, b) ==
    LET say[x \in DOMAIN n \cup {NULL}] ==
            IF x = NULL THEN << >>
            ELSE (IF n[x].key = NULL THEN << >>
                  ELSE <<[key |-> n[x].key, val |-> n[x].val,
                          kids |-> IF n[x].child = NULL THEN << >> ELSE <<say[n[x].child]>>]>>)
                 \o say[n[x].next]
    IN  say[b]

\* The blocks of the tree that begins with b.
Within(n, b) ==
    LET all[x \in DOMAIN n \cup {NULL}] ==
            IF x = NULL THEN {} ELSE {x} \cup all[n[x].child] \cup all[n[x].next]
    IN  all[b]

Init ==
    /\ world \in World
    /\ node = <<>> /\ pc = "open" /\ input = world.conf
    /\ tree = [conf |-> NULL, defaults |-> NULL, again |-> NULL]
    /\ at = NULL /\ depth = 0 /\ frames = << >>
    /\ out = << >> /\ cfg = [nets |-> << >>, php |-> << >>] /\ given = [conf |-> << >>, defaults |-> << >>]
-----------------------------------------------------------------------------
\* file_to_tconfig

Opening == IF tree.conf = NULL THEN "conf" ELSE IF out = << >> THEN "defaults" ELSE "again"
Reading == IF tree.again # NULL THEN "again" ELSE IF tree.defaults # NULL THEN "defaults" ELSE "conf"

OpenFile ==
    /\ pc = "open"
    /\ node' = With(node, Fresh :> NewBlock)
    /\ tree' = [tree EXCEPT ![Opening] = Fresh] /\ at' = Fresh
    /\ pc' = "read"
    /\ UNCHANGED <<world, input, depth, frames, out, cfg, given>>

Takes(t) == pc = "read" /\ input # << >> /\ Head(input).t = t /\ input' = Tail(input)

Scans == UNCHANGED <<world, tree, depth, frames, out, cfg, given>>

ReadOpen ==
    /\ Takes("open")
    /\ IF node[at].child # NULL
       THEN at' = node[at].child /\ UNCHANGED node
       ELSE /\ node' = With(node, at :> [node[at] EXCEPT !.child = Fresh]
                                  @@ Fresh :> [NewBlock EXCEPT !.parent = at])
            /\ at' = Fresh
    /\ Scans /\ UNCHANGED pc

ReadClose ==
    /\ Takes("close")
    /\ LET up == node[Leftmost(node, at)].parent
       IN  IF up = NULL THEN pc' = "exit" /\ UNCHANGED at ELSE at' = up /\ UNCHANGED pc
    /\ Scans /\ UNCHANGED node

ReadBad == Takes("bad") /\ pc' = "exit" /\ Scans /\ UNCHANGED <<node, at>>

Appended(last, k, v) ==
    With(node, last :> [node[last] EXCEPT !.next = Fresh]
         @@ Fresh :> [NewBlock EXCEPT !.key = k, !.val = v, !.prev = last])

\* An entry that is there already is taken up again; the first block of a list is
\* there before its entry.
ReadPair ==
    /\ Takes("pair")
    /\ LET k == Head(input).key
           v == Head(input).val
           list == Siblings(node, at)
           same == SelectSeq(list, LAMBDA b : node[b].key = k /\ node[b].val = v)
           last == list[Len(list)]
       IN  IF same # << >>
           THEN at' = same[1] /\ UNCHANGED node
           ELSE IF node[last].key = NULL
           THEN at' = last /\ node' = [node EXCEPT ![last].key = k, ![last].val = v]
           ELSE at' = Fresh /\ node' = Appended(last, k, v)
    /\ Scans /\ UNCHANGED pc

\* Braces that are still open do not matter.
ReadEnd ==
    /\ pc = "read" /\ input = << >>
    /\ CASE Reading = "conf" ->
              /\ given' = [given EXCEPT !.conf = TreeOf(node, tree.conf)]
              /\ pc' = IF world.found THEN "open" ELSE "load"
              /\ input' = world.defaults
              /\ UNCHANGED frames
         [] Reading = "defaults" ->
              /\ given' = [given EXCEPT !.defaults = TreeOf(node, tree.defaults)]
              /\ frames' = <<Call(tree.defaults, tree.conf)>> /\ pc' = "merge"
              /\ UNCHANGED input
         [] OTHER -> pc' = "done" /\ UNCHANGED <<input, frames, given>>
    /\ at' = NULL
    /\ UNCHANGED <<world, node, tree, depth, out, cfg>>
-----------------------------------------------------------------------------
\* tconfig_merge(src, dst).  The last frame is the call that runs; wild are the
\* blocks of dst that a block with * has still to be merged into.

frame == frames[Len(frames)]
from == node[frame.src]

Replace(g) == frames' = [frames EXCEPT ![Len(frames)] = g]
Return == frames' = Front(frames)

\* The block k lists above b.
Up(b, k) ==
    LET up[i \in 0..k] ==
            IF i = 0 THEN b
            ELSE IF up[i - 1] = NULL THEN NULL ELSE node[Leftmost(node, up[i - 1])].parent
    IN  up[k]

Merging == pc = "merge" /\ frames # << >>

\* dst->prev or src->key is read through NULL.
CannotMerge ==
    /\ frame.src # NULL
    /\ \/ frame.dst = NULL
       \/ /\ from.key = NULL
          /\ from.child = NULL \/ \E b \in ToSet(Siblings(node, frame.dst)) : node[b].key # NULL

MergeFault ==
    /\ Merging /\ CannotMerge
    /\ pc' = "fault"
    /\ UNCHANGED <<world, node, input, tree, work, out, cfg, given>>

Merges == Merging /\ ~CannotMerge /\ UNCHANGED <<world, input, tree, at, depth, out, cfg, given>>

MergeReturn == Merges /\ frame.src = NULL /\ Return /\ UNCHANGED <<node, pc>>

Like(k) == SelectSeq(Siblings(node, frame.dst), LAMBDA b : k # NULL /\ node[b].key = k)

IsWild == from.child # NULL /\ from.val = Star

\* The next of the blocks of that key; an empty list is made for one that has none.
MergeWild ==
    /\ Merges /\ frame.src # NULL /\ IsWild
    /\ LET todo == IF frame.wild # << >> THEN frame.wild ELSE Like(from.key)
           into == node[todo[1]].child
           rest == IF Len(todo) > 1 THEN [frame EXCEPT !.wild = Tail(todo)]
                   ELSE [frame EXCEPT !.src = from.next, !.wild = << >>]
       IN  IF todo = << >> THEN Replace([frame EXCEPT !.src = from.next]) /\ UNCHANGED node
           ELSE /\ node' = IF into # NULL THEN node
                           ELSE With(node, todo[1] :> [node[todo[1]] EXCEPT !.child = Fresh]
                                           @@ Fresh :> [NewBlock EXCEPT !.parent = todo[1]])
                /\ frames' = Append(Front(frames), rest)
                             \o <<Call(from.child, IF into # NULL THEN into ELSE Fresh)>>
    /\ UNCHANGED pc

Down(b) == [frame EXCEPT !.src = from.child, !.dst = b, !.depth = @ + 1]

\* Where an entry goes: the end of dst, or a block that has none yet.
EndOf(b) ==
    LET list == Onward(node, b)
        i == CHOOSE i \in DOMAIN list : /\ i = Len(list) \/ node[list[i]].key = NULL
                                        /\ \A j \in 1..(i - 1) : node[list[j]].key # NULL
    IN  list[i]

\* Two blocks that malloc gives one after the other.
Fresh2 == CHOOSE b \in Block \ (DOMAIN node \cup {Fresh}) :
              \A c \in Block \ (DOMAIN node \cup {Fresh}) : b <= c

MergeBlock ==
    /\ Merges /\ frame.src # NULL /\ from.child # NULL /\ ~IsWild
    /\ LET same == SelectSeq(Like(from.key), LAMBDA b : node[b].val = from.val)
           e == EndOf(frame.dst)
           new == [key |-> from.key, val |-> from.val, parent |-> NULL]
       IN  IF same # << >>
           THEN Replace(Down(node[same[1]].child)) /\ UNCHANGED node
           ELSE IF node[e].key = NULL
           THEN /\ node' = With(node, e :> (new @@ [node[e] EXCEPT !.child = Fresh])
                                      @@ Fresh :> [NewBlock EXCEPT !.parent = e])
                /\ Replace(Down(Fresh))
           ELSE /\ node' = With(node, e :> [node[e] EXCEPT !.next = Fresh]
                                      @@ Fresh :> (new @@ [NewBlock EXCEPT !.prev = e, !.child = Fresh2])
                                      @@ Fresh2 :> [NewBlock EXCEPT !.parent = Fresh])
                /\ Replace(Down(Fresh2))
    /\ UNCHANGED pc

Ignored == from.key \notin Marked /\ Like(from.key) # << >>

\* Mutant of Above: dst is not rewound.
AboveStraight(b, k) == IF k = 0 THEN b ELSE Up(node[b].parent, k - 1)

Above(b, k) == Up(b, k)

\* From a last entry the walk goes up to the first list that goes on, with dst, or
\* returns from the list the call began with.
MergeLeaf ==
    /\ Merges /\ frame.src # NULL /\ from.child = NULL
    /\ LET e == EndOf(frame.dst)
           reuse == node[e].key = NULL
           entry == [key |-> Plain(from.key), val |-> from.val, next |-> NULL]
           dst == IF Ignored THEN frame.dst ELSE IF reuse THEN e ELSE Fresh
           levels == {k \in 0..frame.depth : node[Up(frame.src, k)].next # NULL}
           k == IF levels = {} THEN frame.depth ELSE CHOOSE i \in levels : \A j \in levels : i <= j
       IN  /\ node' = IF Ignored THEN node
                      ELSE IF reuse THEN With(node, e :> (entry @@ node[e]))
                      ELSE With(node, e :> [node[e] EXCEPT !.next = Fresh]
                                      @@ Fresh :> (entry @@ [NewBlock EXCEPT !.prev = e]))
           /\ IF \E j \in 0..(k - 1) : Up(frame.dst, j) = NULL
              THEN pc' = "fault" /\ UNCHANGED frames
              ELSE /\ IF levels = {} THEN Return
                      ELSE Replace([frame EXCEPT !.src = node[Up(@, k)].next, !.depth = @ - k,
                                                 !.dst = IF k = 0 THEN dst ELSE Above(frame.dst, k)])
                   /\ UNCHANGED pc

MergeEnd ==
    /\ pc = "merge" /\ frames = << >>
    /\ pc' = "free" /\ at' = tree.defaults
    /\ UNCHANGED <<world, node, input, tree, depth, frames, out, cfg, given>>
-----------------------------------------------------------------------------
\* free_tconfig

Frees == UNCHANGED <<world, input, depth, frames, out, cfg, given>>

FreeDown ==
    /\ pc = "free" /\ node[at].child # NULL
    /\ at' = node[at].child
    /\ Frees /\ UNCHANGED <<node, pc, tree>>

FreeAcross ==
    /\ \/ pc = "free" /\ node[at].child = NULL
       \/ pc = "free_up"
    /\ node[at].next # NULL
    /\ at' = node[at].next /\ pc' = "free"
    /\ Frees /\ UNCHANGED <<node, tree>>

\* A list is freed from its last block to its first, then the block it belongs to is
\* asked whether it is the last.
FreeList ==
    /\ \/ pc = "free" /\ node[at].child = NULL
       \/ pc = "free_up"
    /\ node[at].next = NULL
    /\ LET list == ToSet(Siblings(node, at))
           up == node[Leftmost(node, at)].parent
       IN  /\ node' = [b \in DOMAIN node \ list |-> node[b]]
           /\ at' = up
           /\ IF up = NULL THEN pc' = "load" /\ tree' = [tree EXCEPT !.defaults = NULL]
              ELSE pc' = "free_up" /\ UNCHANGED tree
    /\ Frees
-----------------------------------------------------------------------------
\* config_engine_load

Entries(b, k) == SelectSeq(Onward(node, b), LAMBDA x : node[x].key = k)
ValuesOf(b, k) == [i \in DOMAIN Entries(b, k) |-> node[Entries(b, k)[i]].val]
KidsOf(b) == Onward(node, node[b].child)

Nameless(list) == \E i \in DOMAIN list : node[list[i]].key = NULL

\* Mutant of TheOne: the last value is used.
TheOneLast(values) == IF values = << >> THEN NULL ELSE values[Len(values)]

TheOne(values) == IF values = << >> THEN NULL ELSE values[1]

\* new_server
Server(v) == [host |-> Host(v), port |-> IF Port(v) = NULL THEN 6667 ELSE Port(v)]

\* The last slot is to stay NULL.  The line that finds no other free makes tsrealloc0 cut the
\* array down (its size is in bytes there, and in slots here), clear the first slot and write
\* behind the end.
Overrun(lines) == Len(lines) >= Slots

\* The names that an array gives then: none, or the line after that one and a torn pointer.
Cut(lines) == IF Len(lines) = Slots THEN << >> ELSE <<lines[Slots + 1], NULL>>

\* The branches of javascript, tclscript, phpscript and pyscript lines.
ScriptsOf(lines) == IF Overrun(lines) THEN Cut(lines) ELSE lines

\* nick stands for every setting of one value.
Network(b) ==
    [label |-> node[b].val, nick |-> TheOne(ValuesOf(node[b].child, "nick")),
     servers |-> [i \in DOMAIN ValuesOf(node[b].child, "server") |->
                     Server(ValuesOf(node[b].child, "server")[i])],
     scripts |-> ScriptsOf(ValuesOf(node[b].child, "tclscript"))]

Networks == Entries(tree.conf, "network")

\* PHP has one array for all networks.
PhpLines == FlattenSeq([i \in DOMAIN Networks |-> ValuesOf(node[Networks[i]].child, "phpscript")])

\* A write behind the end may end the bot, now or later.
Overruns == \/ Overrun(PhpLines)
            \/ \E i \in DOMAIN Networks : Overrun(ValuesOf(node[Networks[i]].child, "tclscript"))

Load ==
    /\ pc = "load"
    /\ LET top == Onward(node, tree.conf)
           nameless == Nameless(top) \/ \E i \in DOMAIN Networks : Nameless(KidsOf(Networks[i]))
       IN  \/ /\ nameless \/ Overruns
              /\ pc' = "fault" /\ UNCHANGED <<at, cfg>>
           \/ /\ ~nameless
              /\ cfg' = [nets |-> [i \in DOMAIN Networks |-> Network(Networks[i])],
                         php |-> ScriptsOf(PhpLines)]
              /\ pc' = "write" /\ at' = tree.conf
    /\ UNCHANGED <<world, node, input, tree, depth, frames, out, given>>
-----------------------------------------------------------------------------
\* tconfig_r_depth_first_write: a step for each call.

\* "" is written as nothing, and the scanner misses the value on that line.
Written(b) == IF node[b].val = Quiet THEN Bad ELSE Pair(node[b].key, node[b].val)

Writing == pc = "write" /\ node[at].key # NULL
Writes == UNCHANGED <<world, node, tree, frames, cfg, given>>

WriteFault ==
    /\ pc = "write" /\ node[at].key = NULL
    /\ pc' = "fault"
    /\ Writes /\ UNCHANGED <<input, at, depth, out>>

WriteBlock ==
    /\ Writing /\ node[at].child # NULL
    /\ out' = out \o <<Written(at), Open>>
    /\ at' = node[at].child /\ depth' = depth + 1
    /\ Writes /\ UNCHANGED <<pc, input>>

WriteLeaf ==
    /\ Writing /\ node[at].child = NULL /\ node[at].next # NULL
    /\ out' = Append(out, Written(at)) /\ at' = node[at].next
    /\ Writes /\ UNCHANGED <<pc, input, depth>>

\* Mutant of Closed: only the list that ends is closed, not those above it that end too.
ClosedOnce(k) == IF k = 0 THEN << >> ELSE <<Close>>

Closed(k) == [i \in 1..k |-> Close]

\* The lists that end here are closed.
WriteLast ==
    /\ Writing /\ node[at].child = NULL /\ node[at].next = NULL
    /\ LET levels == {k \in 0..depth : Up(at, k) # NULL /\ node[Up(at, k)].next # NULL}
           k == IF levels = {} THEN depth ELSE CHOOSE i \in levels : \A j \in levels : i <= j
           all == Append(out, Written(at)) \o Closed(k)
       IN  IF Up(at, k) = NULL
           THEN pc' = "fault" /\ UNCHANGED <<input, at, depth, out>>
           ELSE /\ out' = all /\ depth' = depth - k
                /\ IF levels = {} THEN pc' = "open" /\ input' = all /\ at' = NULL
                   ELSE at' = node[Up(at, k)].next /\ UNCHANGED <<pc, input>>
    /\ Writes

Next ==
    \/ OpenFile \/ ReadOpen \/ ReadClose \/ ReadBad \/ ReadPair \/ ReadEnd
    \/ MergeFault \/ MergeReturn \/ MergeWild \/ MergeBlock \/ MergeLeaf \/ MergeEnd
    \/ FreeDown \/ FreeAcross \/ FreeList \/ Load
    \/ WriteFault \/ WriteBlock \/ WriteLeaf \/ WriteLast

Spec == Init /\ [][Next]_vars
-----------------------------------------------------------------------------
\* What the functions are meant to do.

\* The merge of two trees, an entry of the second after the other.
Merged(into, add) ==
    LET RECURSIVE merge(_, _)
        kids(d) == IF d.kids = << >> THEN << >> ELSE d.kids[1]
        same(dst, e) == {i \in DOMAIN dst : dst[i].key = e.key /\ dst[i].val = e.val}
        put(dst, e) ==
            CASE e.kids = << >> ->
                   IF e.key \notin Marked /\ \E i \in DOMAIN dst : dst[i].key = e.key THEN dst
                   ELSE Append(dst, [e EXCEPT !.key = Plain(e.key)])
              [] e.kids # << >> /\ e.val = Star ->
                   [i \in DOMAIN dst |->
                       IF dst[i].key # e.key THEN dst[i]
                       ELSE [dst[i] EXCEPT !.kids = <<merge(kids(dst[i]), e.kids[1])>>]]
              [] e.kids # << >> /\ e.val # Star /\ same(dst, e) # {} ->
                   LET i == CHOOSE i \in same(dst, e) : \A j \in same(dst, e) : i <= j
                   IN  [dst EXCEPT ![i].kids = <<merge(kids(dst[i]), e.kids[1])>>]
              [] OTHER -> Append(dst, [e EXCEPT !.kids = <<merge(<< >>, e.kids[1])>>])
        merge(dst, src) == FoldLeft(put, dst, src)
    IN  merge(into, add)

\* Blocks of a file that are not empty.
Filled(list) ==
    LET RECURSIVE ok(_)
        ok(l) == l # << >> /\ \A i \in DOMAIN l : l[i].kids # << >> => ok(l[i].kids[1])
    IN  ok(list)

\* Defaults that the merge can take up: a list begins with an entry that is no block, and
\* a block for every value ends no list but that of another such block (or the file).
Orderly(list) ==
    LET RECURSIVE ok(_)
        ok(e) == e.kids # << >> =>
                    LET l == e.kids[1]
                    IN  /\ l[1].kids = << >>
                        /\ e.val # Star => l[Len(l)].kids = << >> \/ l[Len(l)].val # Star
                        /\ \A i \in DOMAIN l : ok(l[i])
    IN  \A i \in DOMAIN list : ok(list[i])

\* No block of the defaults has the key and the value of an entry that is no block.
Compatible(conf, defaults) ==
    LET RECURSIVE all(_)
        all(l) == {<<l[i].key, l[i].val, l[i].kids # << >> >> : i \in DOMAIN l}
                  \cup UNION {all(l[i].kids[1]) : i \in {j \in DOMAIN l : l[j].kids # << >>}}
    IN  \A e \in all(defaults) : e[3] => <<e[1], e[2], FALSE>> \notin all(conf) \cup all(defaults)

Tame == /\ Filled(given.conf)
        /\ world.found => /\ Filled(given.defaults) /\ Orderly(given.defaults)
                          /\ Compatible(given.conf, given.defaults)

\* The blocks that are in use are those of the trees: malloc and free are paired, and
\* each list is linked in both directions.  (A merge of defaults that are not orderly
\* loses the link to the block above a list.)
TypeOK ==
    /\ DOMAIN node \subseteq Block /\ \A b \in DOMAIN node : node[b] \in Node
    /\ pc \in {"open", "read", "merge", "free", "free_up", "load", "write", "done", "exit", "fault"}
    /\ at \in DOMAIN node \cup {NULL} /\ depth \in Nat
    /\ pc \notin {"free", "free_up"} =>
         /\ DOMAIN node = UNION {Within(node, tree[t]) : t \in DOMAIN tree}
         /\ \A b, c \in DOMAIN node : node[b].next = c => node[c].prev = b

\* From a file and defaults the merge can take up comes what their merge is meant to be:
\* nothing of either is lost, and an entry of the file comes before a default
\* (tconfig_merge: "maintaining current order if it already exists").
MergeIsUnion ==
    pc \in {"free", "free_up", "load", "write", "fault"} /\ world.found /\ Tame =>
        /\ pc = "fault" => Overruns
        /\ TreeOf(node, tree.conf) = Merged(given.conf, given.defaults)

\* What is read from the entries of a list: an entry that is there twice is taken up again.
Once(list) ==
    LET RECURSIVE once(_)
        new(acc, e) == IF \E i \in DOMAIN acc : acc[i].key = e.key /\ acc[i].val = e.val THEN acc
                       ELSE Append(acc, IF e.kids = << >> THEN e ELSE [e EXCEPT !.kids = <<once(e.kids[1])>>])
        once(l) == FoldLeft(new, << >>, l)
    IN  once(list)

\* A file that was written is read as the tree it was written from (tconfig_to_file: "write a
\* tconfig block back out"), but for the entries it has twice, and can be read when no value
\* is empty.
WrittenIsRead ==
    /\ pc = "done" => TreeOf(node, tree.again) = Once(TreeOf(node, tree.conf))
    /\ pc = "exit" /\ out # << >> => \E b \in Within(node, tree.conf) : node[b].val = Quiet

\* The first value of the file is used where it gives one ("Use the first value (for stacking
\* configs)"), its servers come first, with their ports, and its scripts are there in their
\* order: as many as there are slots but one.
FirstValueWins ==
    pc = "write" /\ Tame =>
        LET mine == SelectSeq(given.conf, LAMBDA e : e.key = "network")
            of(i, k) == IF mine[i].kids = << >> THEN << >>
                        ELSE LET l == SelectSeq(mine[i].kids[1], LAMBDA e : e.key = k)
                             IN  [j \in DOMAIN l |-> l[j].val]
            net(i) == cfg.nets[i]
        IN  /\ \A i \in DOMAIN mine :
                 /\ net(i).label = mine[i].val
                 /\ of(i, "nick") # << >> => net(i).nick = of(i, "nick")[1]
                 /\ \A j \in DOMAIN of(i, "server") :
                      LET v == of(i, "server")[j]
                      IN  net(i).servers[j] = [host |-> Host(v), port |-> IF Port(v) = NULL THEN 6667 ELSE Port(v)]
                 /\ ~Overruns => IsPrefix(of(i, "tclscript"), net(i).scripts)
            /\ ~Overruns => \A i \in DOMAIN mine : ToSet(of(i, "phpscript")) \subseteq ToSet(cfg.php)
=============================================================================
