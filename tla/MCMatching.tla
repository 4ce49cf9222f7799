----------------------------- MODULE MCMatching ------------------------------
EXTENDS Matching
Words(S, k) == UNION {[1..i -> S] : i \in 0..k}
MCChar == {"a", "b", " ", "?", "*", "%", "~", "\\"}
MCSpace == {" "}
MCTexts == Words({"a", "b", " "}, 3) \cup [1..4 -> {"a", "b"}] \cup Words({"a", "*"}, 3)
MCMasks == Words(MCChar \ {" "}, 3) \cup {m \in [1..4 -> {"a", "b", "*", "~"}] : m[1] \in {"*", "a"}}
           \cup {<<"*", "\\", "*", "a">>, <<"a", "*", "\\", "*">>}
=============================================================================
