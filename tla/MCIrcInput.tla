------------------------------ MODULE MCIrcInput -----------------------------
(***************************************************************************)
(* An instance of IrcInput: in one set of worlds a single network sends    *)
(* any one short line, or a line with many words; in the others two        *)
(* networks send several lines, and the reads are cut anywhere.            *)
(***************************************************************************)
EXTENDS IrcInput

CONSTANTS n1, n2

MCNetwork == {n1, n2}
MCPing == <<"P">>
MCUserhost == <<"U">>
MCNick == <<"N">>
MCChar == {"P", "U", "N", "a", ":", " ", "!", "@"}
MCLineLength == 4

AnyLines == UNION {[1..k -> {"P", ":", " ", "!", "@"}] : k \in 0..MCLineLength}

ManyWords == <<"a", " ", "a", " ", "a", " ", "a">>
LongLines == {ManyWords, <<"a", " ", ":">> \o ManyWords, <<":", "N", " ", "a", " ", ":", "a", " ">>,
              <<":", "N", "!", "a", "@", " ", "P", " ", ":", "a">>,
              <<":", "N", "!", "a", "@", "!", " ", "P", " ", ":", "a">>,
              <<"U", " ", "N", " ", ":", "N", "@", "a">>}

Only(l) == [lines |-> n1 :> <<l>> @@ n2 :> << >>, end |-> <<LF>>]
Both(l1, l2, e) == [lines |-> n1 :> l1 @@ n2 :> l2, end |-> e]

Short == <<"a", " ", "N">>
Shorter == <<"a", " ">>

MCWorld ==
    {Only(l) : l \in AnyLines \cup LongLines}
    \cup {Both(<<Short, Shorter, Short>>, << >>, e) : e \in {<<CR, LF>>, <<LF>>}}
    \cup {Both(<<Shorter, Short>>, <<Shorter>>, e) : e \in {<<CR, LF>>, <<LF>>}}
=============================================================================
