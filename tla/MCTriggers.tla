------------------------------ MODULE MCTriggers -----------------------------
(***************************************************************************)
(* An instance of Triggers: in each world the lines of one kind and the    *)
(* scripts of one language or two, with the built-in triggers of the lists *)
(* that are walked.                                                        *)
(***************************************************************************)
EXTENDS Triggers

CONSTANTS m1, m2

BuiltIns(l, masks) == [i \in DOMAIN masks |-> [list |-> l, mask |-> masks[i]]]

Given(kinds, builtin, langs) ==
    [kinds |-> kinds, builtin |-> builtin, langs |-> langs, lower |-> [m \in Mask |-> m]]

\* m2 is m1 in capitals.
OneInCapitals(w) == [w EXCEPT !.lower = [m \in Mask |-> m1]]

MCWorld ==
    {Given({"private"}, BuiltIns("msg", <<m1, m2>>), {"tcl"}),
     Given({"private"}, << >>, {"php"}),
     Given({"public"}, << >>, {"py"}),
     OneInCapitals(Given({"public"}, << >>, {"tcl"})),
     Given({"JOIN"}, BuiltIns("join", <<m1>>), {"tcl"}),
     Given({"JOIN", "QUIT"}, << >>, {"js"}),
     Given({"PART"}, BuiltIns("part", <<m1>>), {"tcl", "js"}),
     Given({"KICK"}, BuiltIns("kick", <<m1, m2>>), {"php"}),
     Given({"NOTICE"}, BuiltIns("notc", <<m1>>), {"tcl", "py"}),
     Given({"TOPIC"}, BuiltIns("topc", <<m1>>), {"js"}),
     Given({"other"}, BuiltIns("raw", <<m1>>), {"tcl", "php"})}

\* Addresses are interchangeable.
Blocks == Permutations(Trigger)
=============================================================================
