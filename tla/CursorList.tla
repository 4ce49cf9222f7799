----------------------------- MODULE CursorList -----------------------------
(***************************************************************************)
(* The list value behind trollbot's hand-written doubly linked lists:      *)
(* dcc_list_*, channel_user_*, channel_ban_*, user_list_*, trigger_list_*  *)
(* and ics_server_* are the same two functions over different structs.     *)
(*                                                                         *)
(* Such a list is a chain of nodes and ONE pointer into it, the pointer a  *)
(* network, a channel or a trigger table keeps.  The pointer need not be   *)
(* the first node: the _del functions return the predecessor of the node   *)
(* they unlink.  So the value is a sequence and a position in it, and a    *)
(* loop "while (tmp != NULL) tmp = tmp->next" sees the part from that      *)
(* position on.  Module TrollList shows that the pointer code computes     *)
(* this value.                                                             *)
(***************************************************************************)
EXTENDS Integers, SequencesExt

\* head = 0 stands for the NULL pointer.
EmptyList == [items |-> << >>, head |-> 0]

Members(l) == ToSet(l.items)

\* The nodes a walk along ->next from the kept pointer visits, in order.
Forward(l) == IF l.head = 0 THEN << >> ELSE SubSeq(l.items, l.head, Len(l.items))

Position(l, x) == CHOOSE i \in DOMAIN l.items : l.items[i] = x

\* x can be found by a loop that starts at the kept pointer.
InForward(l, x) ==
    /\ x \in Members(l)
    /\ l.head <= Position(l, x)

\* The node that x->next points to; none is the caller's NULL.
Successor(l, x, none) ==
    LET i == Position(l, x)
    IN  IF i < Len(l.items) THEN l.items[i + 1] ELSE none

First(l, none) == IF l.head = 0 THEN none ELSE l.items[l.head]

\* Append at the last node; the kept pointer moves only when it was NULL.
ListAdd(l, x) ==
    [items |-> Append(l.items, x), head |-> IF l.head = 0 THEN 1 ELSE l.head]

\* Unlink the i-th node and return its ->prev, else its ->next, else NULL, as
\* the new pointer.
RemoveNode(l, i) ==
    [items |-> RemoveAt(l.items, i),
     head  |-> IF i > 1 THEN i - 1
               ELSE IF Len(l.items) > 1 THEN 1 ELSE 0]

\* The deletion of x; a node that the walk does not meet leaves the list as it
\* was.
ListDel(l, x) ==
    IF InForward(l, x) THEN RemoveNode(l, Position(l, x)) ELSE l

\* What a loop finds that looks for several nodes: the elements of s at the
\* positions I, in order.
Picked(s, I) ==
    LET upto[k \in 0..Len(s)] ==
            IF k = 0 THEN << >>
            ELSE IF k \in I THEN Append(upto[k - 1], s[k]) ELSE upto[k - 1]
    IN  upto[Len(s)]

\* A well-formed list over S: no node twice, NULL exactly when it is empty.
IsList(l, S) ==
    /\ l \in [items : Seq(S), head : Nat]
    /\ l.head \in 0..Len(l.items)
    /\ l.head = 0 <=> l.items = << >>
    /\ \A i, j \in DOMAIN l.items : l.items[i] = l.items[j] => i = j
=============================================================================
