--------------------------- MODULE MCDccSessions ----------------------------
(* Three sessions, so that one can be lost before the kept pointer and ids    *)
(* can be doubled; a user who may log in, one without the flag p.             *)
EXTENDS DccQueries, TLC

CONSTANTS owner, guest, dash

MCUser == {owner, guest}
MCPartyline == {owner}
MCPassword == [u \in User |-> IF u = guest THEN NoHash ELSE <<guest>>]
MCChunk == {<<guest, NL>>, <<dash>>, <<owner, NL, guest, NL>>}

\* One user who logs in line by line, and whose password is the name, for the run that needs no more.
OneUser == {owner}
OneUserChunk == {<<owner, NL>>}

OneUserPassword == [u \in User |-> <<owner>>]

\* After a rehash, three sessions are followed only where nobody logs in any
\* more, and none of the states that differ in a password nobody can use.
MCBound ==
    record # "first" =>
        /\ hash[guest] = NoHash
        /\ Cardinality(Members(dccs)) <= 2 \/ cfgType = NoType

MCSymmetry == Permutations(Addr)
=============================================================================
