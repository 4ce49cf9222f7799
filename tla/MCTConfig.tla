------------------------------ MODULE MCTConfig ------------------------------
(* Small files for TConfig. *)
EXTENDS TConfig

MCKey == {"network", "nick", "server", "@server", "channel", "tclscript", "phpscript"}
MCValue == {"a", "b", "*", ""}
MCPlain(k) == IF k = "@server" THEN "server" ELSE k

\* "b" is "a:7000".
MCHost(v) == IF v = "b" THEN "a" ELSE v
MCPort(v) == IF v = "b" THEN 7000 ELSE NULL

Leaf(k, v) == [key |-> k, val |-> v, kids |-> << >>]
BlockOf(k, v, kids) == [key |-> k, val |-> v, kids |-> <<kids>>]

\* The tokens of a tree.
File(tree_) ==
    LET RECURSIVE file(_)
        file(l) == FlattenSeq([i \in DOMAIN l |->
                      <<Pair(l[i].key, l[i].val)>>
                      \o IF l[i].kids = << >> THEN << >>
                         ELSE <<Open>> \o file(l[i].kids[1]) \o <<Close>>])
    IN  file(tree_)

\* What a network's block may contain.
Leaves == {Leaf("nick", "a"), Leaf("nick", "b"), Leaf("server", "a"), Leaf("server", "b")}
Channels == {BlockOf("channel", "a", <<Leaf("nick", "")>>), Leaf("channel", "a")}
Bodies == {<<l>> : l \in Leaves \cup Channels}
          \cup {<<l, m>> : l, m \in Leaves \cup Channels}
\* Up to one script more than there are slots, in one network or, for PHP, in two.
Lines(k, values) == [i \in DOMAIN values |-> Leaf(k, values[i])]
Scripts == {Lines("tclscript", SubSeq(<<"b", "a", "*", "">>, 1, n)) : n \in 1..4}
           \cup {Lines("phpscript", <<"b", "a">>)}
Confs == {<<BlockOf("network", "a", b)>> : b \in Bodies \cup Scripts}
         \cup {<<BlockOf("network", "a", b), BlockOf("network", "b", Lines("phpscript", <<"a">>))>> :
                   b \in Scripts \cup {Lines("phpscript", <<"b">>)}}
         \cup {<<BlockOf("network", "a", b), c>> :
                   b \in Bodies, c \in {Leaf("network", "b"), BlockOf("network", "b", <<Leaf("nick", "b")>>)}}

Settings == {Leaf("nick", "b"), Leaf("@server", "a"), Leaf("server", "a"),
             BlockOf("channel", "*", <<Leaf("nick", "b")>>), BlockOf("channel", "a", <<Leaf("nick", "b"), Leaf("server", "a")>>),
             BlockOf("channel", "b", <<Leaf("server", "b")>>)}
Defaults == {<<BlockOf("network", v, <<s, t>>)>> : v \in {"*", "b"}, s, t \in Settings}
            \cup {<<BlockOf("network", "*", <<s, t>>), BlockOf("network", "b", <<t>>)>> : s, t \in Settings}
            \cup {<<BlockOf("network", "b", <<s, t>>), BlockOf("network", "*", <<s>>)>> : s, t \in Settings}

Bits == {Open, Close, Bad, Pair("network", "a"), Pair("nick", "b")}
Scraps == UNION {[1..n -> Bits] : n \in 0..4}

MCWorld == {[conf |-> File(c), defaults |-> File(d), found |-> TRUE] : c \in Confs, d \in Defaults}
           \cup {[conf |-> c, defaults |-> << >>, found |-> FALSE] : c \in Scraps}
           \cup {[conf |-> c, defaults |-> d, found |-> TRUE] :
                     c \in {<< >>, File(<<BlockOf("network", "a", <<Leaf("nick", "a")>>)>>)},
                     d \in UNION {[1..n -> Bits] : n \in 0..3}}
=============================================================================
