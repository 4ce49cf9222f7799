----------------------------- MODULE TrollList ------------------------------
(***************************************************************************)
(* The linked list of channel.c (channel_user_add, channel_user_del) at    *)
(* the level of its pointers, one step per loop iteration.  The copies for *)
(* bans, users, triggers, DCC sessions and ICS servers have the same text. *)
(*                                                                         *)
(* A deletion starts with the caller's search: new_part, egg_deluser,      *)
(* egg_unbind and the select() loop all reach the node along ->next from   *)
(* the pointer they keep, call the _del function, store what it returns    *)
(* and free the node.                                                      *)
(***************************************************************************)
EXTENDS CursorList

CONSTANTS Node,   \* the addresses malloc() may return
          NULL

ASSUME NullAssumption == NULL \notin Node

VARIABLES head,   \* the pointer the owner keeps
          next, prev,
          alive,  \* the addresses between malloc() and free()
          op,     \* the function that is running
          arg,    \* its node argument (add, del)
          tmp,    \* its local walking pointer
          order   \* history: the nodes in the order they are linked

vars == <<head, next, prev, alive, op, arg, tmp, order>>

Link == Node \cup {NULL}

TypeOK ==
    /\ head \in Link
    /\ next \in [Node -> Link]
    /\ prev \in [Node -> Link]
    /\ alive \subseteq Node
    /\ op \in {"idle", "add", "find", "del"}
    /\ arg \in IF op \in {"add", "del"} THEN Node ELSE {NULL}
    /\ tmp \in Link
    /\ order \in Seq(Node)

Init ==
    /\ head = NULL
    /\ next = [n \in Node |-> NULL]
    /\ prev = [n \in Node |-> NULL]
    /\ alive = {}
    /\ op = "idle"
    /\ arg = NULL
    /\ tmp = NULL
    /\ order = << >>

-----------------------------------------------------------------------------

\* new_channel_user() clears both links of the memory malloc() returned, and
\* channel_user_add() returns the new node when there is no list yet ...
AddFirst(n) ==
    /\ op = "idle"
    /\ n \notin alive
    /\ head = NULL
    /\ alive' = alive \cup {n}
    /\ next' = [next EXCEPT ![n] = NULL]
    /\ prev' = [prev EXCEPT ![n] = NULL]
    /\ head' = n
    /\ order' = <<n>>
    /\ UNCHANGED <<op, arg, tmp>>

\* ... and starts to look for the last node otherwise.
AddBegin(n) ==
    /\ op = "idle"
    /\ n \notin alive
    /\ head # NULL
    /\ alive' = alive \cup {n}
    /\ next' = [next EXCEPT ![n] = NULL]
    /\ prev' = [prev EXCEPT ![n] = NULL]
    /\ op' = "add"
    /\ arg' = n
    /\ tmp' = head
    /\ UNCHANGED <<head, order>>

AddWalk ==
    /\ op = "add"
    /\ next[tmp] # NULL
    /\ tmp' = next[tmp]
    /\ UNCHANGED <<head, next, prev, alive, op, arg, order>>

AddLink ==
    /\ op = "add"
    /\ next[tmp] = NULL
    /\ next' = [next EXCEPT ![tmp] = arg]
    /\ prev' = [prev EXCEPT ![arg] = tmp]
    /\ op' = "idle"
    /\ arg' = NULL
    /\ tmp' = NULL
    /\ order' = Append(order, arg)
    /\ UNCHANGED <<head, alive>>

\* The caller's own search for the node to delete.
FindBegin ==
    /\ op = "idle"
    /\ head # NULL
    /\ op' = "find"
    /\ tmp' = head
    /\ UNCHANGED <<head, next, prev, alive, arg, order>>

FindWalk ==
    /\ op = "find"
    /\ tmp # NULL
    /\ tmp' = next[tmp]
    /\ UNCHANGED <<head, next, prev, alive, op, arg, order>>

NotFound ==
    /\ op = "find"
    /\ tmp = NULL
    /\ op' = "idle"
    /\ UNCHANGED <<head, next, prev, alive, arg, tmp, order>>

\* Mutant of DelBegin: the walk of _del starts after the first node.
DelBeginAfterHead ==
    /\ op = "find"
    /\ tmp # NULL
    /\ op' = "del"
    /\ arg' = tmp
    /\ tmp' = next[head]
    /\ UNCHANGED <<head, next, prev, alive, order>>

\* channel_user_del() starts its own walk at the kept pointer.
DelBegin ==
    /\ op = "find"
    /\ tmp # NULL
    /\ op' = "del"
    /\ arg' = tmp
    /\ tmp' = head
    /\ UNCHANGED <<head, next, prev, alive, order>>

DelWalk ==
    /\ op = "del"
    /\ tmp # NULL
    /\ tmp # arg
    /\ tmp' = next[tmp]
    /\ UNCHANGED <<head, next, prev, alive, op, arg, order>>

ReturnedNextFirst(d) ==
    IF next[d] # NULL THEN next[d] ELSE prev[d]

\* The pointer the two "while (tmp == del ...)" loops end on.
Returned(d) ==
    IF prev[d] # NULL THEN prev[d] ELSE next[d]

\* Mutant of Unlink: the successor is not relinked.
UnlinkKeepsPrev ==
    /\ op = "del"
    /\ tmp = arg
    /\ next' = [n \in Node |->
                  IF prev[arg] # NULL /\ n = prev[arg] THEN next[arg] ELSE next[n]]
    /\ head' = Returned(arg)
    /\ alive' = alive \ {arg}
    /\ op' = "idle"
    /\ arg' = NULL
    /\ tmp' = NULL
    /\ order' = RemoveAt(order, CHOOSE i \in DOMAIN order : order[i] = arg)
    /\ UNCHANGED prev

\* Unlink the node, return; the caller stores the pointer and frees the node,
\* whose own links are left as they were.
Unlink ==
    /\ op = "del"
    /\ tmp = arg
    /\ next' = [n \in Node |->
                  IF prev[arg] # NULL /\ n = prev[arg] THEN next[arg] ELSE next[n]]
    /\ prev' = [n \in Node |->
                  IF next[arg] # NULL /\ n = next[arg] THEN prev[arg] ELSE prev[n]]
    /\ head' = Returned(arg)
    /\ alive' = alive \ {arg}
    /\ op' = "idle"
    /\ arg' = NULL
    /\ tmp' = NULL
    /\ order' = RemoveAt(order, CHOOSE i \in DOMAIN order : order[i] = arg)

Step ==
    \/ AddWalk \/ AddLink
    \/ FindWalk \/ NotFound \/ DelBegin
    \/ DelWalk \/ Unlink

Next ==
    \/ \E n \in Node : AddFirst(n) \/ AddBegin(n)
    \/ FindBegin
    \/ Step

Spec == Init /\ [][Next]_vars
-----------------------------------------------------------------------------

Listed == ToSet(order)

\* The links represent the sequence: every node's ->next and ->prev are its
\* neighbours in insertion order, and the kept pointer is one of the nodes.
LinksRepresentOrder ==
    /\ \A i, j \in DOMAIN order : order[i] = order[j] => i = j
    /\ \A i \in DOMAIN order :
         /\ next[order[i]] = IF i < Len(order) THEN order[i + 1] ELSE NULL
         /\ prev[order[i]] = IF i > 1 THEN order[i - 1] ELSE NULL
    /\ head = NULL <=> order = << >>
    /\ head # NULL => head \in Listed

\* No live node and no pointer of a running function refers to freed memory,
\* although unlinking leaves the freed node's own links in place; a node that
\* is neither freed nor being added is in the list (nothing leaks).
NoDanglingLink ==
    /\ Listed = alive \ (IF op = "add" THEN {arg} ELSE {})
    /\ head \in alive \cup {NULL}
    /\ tmp \in alive \cup {NULL}
    /\ \A n \in Listed : next[n] \in alive \cup {NULL} /\ prev[n] \in alive \cup {NULL}

\* The message "deletion that no entry existed for" of the _del functions is
\* never logged: a node the caller found is met again by the walk of _del.
DelFindsItsArgument == op = "del" => tmp # NULL /\ arg \in Listed

\* The pointers implement the abstract list.
AsList ==
    [items |-> order,
     head  |-> IF head = NULL THEN 0 ELSE CHOOSE i \in DOMAIN order : order[i] = head]

Abstract == INSTANCE ListSpec WITH list <- AsList

ImplementsListSpec == Abstract!Spec

=============================================================================
