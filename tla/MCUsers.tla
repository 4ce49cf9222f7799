------------------------------- MODULE MCUsers -------------------------------
(* A small network for Users: A and a differ in case only. *)
EXTENDS Users

MCName == {"A", "a", "b"}
MCFold(n) == IF n = "A" THEN "a" ELSE n
MCStartConf == {[flags |-> TRUE, hash |-> "sha512", crypto |-> TRUE]}
MCOwnConf == [flags : {FALSE}, hash : {"sha512", "md5", NULL}, crypto : {FALSE}]

\* Long lists have few passwords; once some name is not the nick the properties say no more, and
\* the lists stay shorter.
Bound ==
    /\ Len(user) + Cardinality(told) <= MaxUsers + 1
    /\ crooked => Len(user) + Cardinality(told) < MaxUsers
=============================================================================
