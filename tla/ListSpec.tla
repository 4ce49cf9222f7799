------------------------------ MODULE ListSpec ------------------------------
(***************************************************************************)
(* What one of trollbot's linked lists promises its owner: adding appends, *)
(* deleting removes the one node that was found and nothing else.  The     *)
(* owner finds the node to delete by walking forward from the pointer it   *)
(* keeps, as every caller of the _del functions does.                      *)
(***************************************************************************)
EXTENDS CursorList

CONSTANT Node

VARIABLE list

Init == list = EmptyList

Add(n) ==
    /\ n \notin Members(list)
    /\ list' = ListAdd(list, n)

Del(n) ==
    /\ InForward(list, n)
    /\ list' = ListDel(list, n)

Next == \E n \in Node : Add(n) \/ Del(n)

Spec == Init /\ [][Next]_list
=============================================================================
