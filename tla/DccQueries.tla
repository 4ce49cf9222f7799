----------------------------- MODULE DccQueries -----------------------------
(***************************************************************************)
(* What scripts and the partyline's own commands ask of the sessions of a  *)
(* network: each walks from net->dccs (egg_lib.c, dcc_who and              *)
(* dcc_partyline_handler in dcc.c).                                        *)
(***************************************************************************)
EXTENDS DccSessions

\* A partyline message goes to every session it meets, logged in or not.
Heard == ToSet(Forward(dccs))

Ready ==
    LET met == Forward(dccs)
    IN  Picked(met, {i \in DOMAIN met : sess[met[i]].status >= NotReady})

\* egg_dccbroadcast
Broadcast == ToSet(Ready)

\* egg_putdcc: the first session with that id.  All accepted sessions share -1.
PutDcc(idx) ==
    LET met == Forward(dccs)
        having == Picked(met, {i \in DOMAIN met : sess[met[i]].idx = idx})
    IN  IF having = << >> THEN Null ELSE Head(having)

\* What egg_hand2idx finds: the first ready session of that user.
SessionOf(u) ==
    LET having == Picked(Ready, {i \in DOMAIN Ready : sess[Ready[i]].user = u})
    IN  IF having = << >> THEN Null ELSE Head(having)

\* egg_hand2idx: 0 means that there is none, and is an id InitiateDccChat may give.
Hand2Idx(u) == IF SessionOf(u) = Null THEN 0 ELSE sess[SessionOf(u)].idx

\* egg_idx2hand does not look at the id it is given.
Idx2Hand(idx) == IF Ready = << >> THEN NoUser ELSE sess[Head(Ready)].user

\* egg_valididx
ValidIdx(idx) == \E s \in Broadcast : sess[s].idx = idx

\* dcc_who
Who == {sess[s].user : s \in Heard} \ {NoUser}
-----------------------------------------------------------------------------
\* Although the scan for the greatest id leaves out the last session (dcc.c:416),
\* however many sessions come and go, an id stands for at most two, one right
\* behind the other: what a script sends with putdcc to the id that hand2idx gave
\* it for a user reaches that user's session or the one in front of it.  The
\* accepted sessions, which all have the id -1, are left out, and a list that a
\* rehash has left with freed sessions.
IdsAreNearlyUnique ==
    ToSet(Forward(dccs)) \subseteq live =>
        \A u \in User :
            LET idx == Hand2Idx(u)
            IN  idx > 0 => \/ PutDcc(idx) = SessionOf(u)
                           \/ Successor(dccs, PutDcc(idx), Null) = SessionOf(u)
=============================================================================
