------------------------------ MODULE MCScripts -----------------------------
(* Two networks; configurations that lose, gain and reorder scripts. *)
EXTENDS Scripts

MCConf ==
    {[nets |-> <<"A", "B">>, tcl |-> {"A"}, js |-> {"A", "B"}, py |-> {"A", "B"}, php |-> TRUE],
     [nets |-> <<"B", "A">>, tcl |-> {"A", "B"}, js |-> {"B"}, py |-> {"B"}, php |-> TRUE],
     [nets |-> <<"B">>, tcl |-> {}, js |-> {"B"}, py |-> {}, php |-> FALSE]}
=============================================================================
