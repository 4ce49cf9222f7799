------------------------------- MODULE Matching ------------------------------
(***************************************************************************)
(* The two wildcard matchers: troll_matchwilds (troll_lib.c), behind binds *)
(* and user masks, and matchwilds (util.c), behind the ICS module.  They   *)
(* are the same loop, but the second goes back to the last star when       *)
(* characters differ (retries).                                            *)
(*                                                                         *)
(* One iteration of the loop over the mask is one step; the loops inside   *)
(* it that skip characters are collapsed.  Pointers are positions, and     *)
(* position Len + 1 is the '\0'.                                           *)
(***************************************************************************)
EXTENDS Integers, Sequences, FiniteSets

CONSTANTS Char, Space, \* the characters, and those for which isspace() holds
          Texts, Masks \* bounds: the arguments of a call

ASSUME MatchingAssumption ==
    /\ {"?", "*", "%", "~", "\\"} \subseteq Char
    /\ "NUL" \notin Char
    /\ Space \subseteq Char \ {"?", "*", "%", "~", "\\"}
    /\ Texts \subseteq Seq(Char) /\ Masks \subseteq Seq(Char)

VARIABLES retries,             \* the call is one of matchwilds
          hay, mask,           \* haystack and needle as they were passed
          haystack, needle,    \* haystack and needle as they are now
          escaped,
          lasthay, lastneedle, \* 0 is NULL
          result

locals == <<retries, hay, mask, haystack, needle, escaped, lasthay, lastneedle, result>>
args == <<retries, hay, mask>>
last == <<lasthay, lastneedle>>
-----------------------------------------------------------------------------
Wild == {"?", "*", "%", "~"}

\* No position is past the '\0' of its string.  lasthay may be, by one, but is
\* not used then: the text has ended.
LocalsOK ==
    /\ retries \in BOOLEAN /\ hay \in Texts /\ mask \in Masks
    /\ haystack \in 1..(Len(hay) + 1)
    /\ needle \in 1..(Len(mask) + 1)
    /\ escaped \in BOOLEAN
    /\ lasthay \in 0..(Len(hay) + 2) /\ lastneedle \in 0..Len(mask)
    /\ lasthay = Len(hay) + 2 => haystack = Len(hay) + 1
    /\ lasthay = 0 <=> lastneedle = 0
    /\ result \in {"running", "match", "fail"}

Called ==
    /\ retries \in BOOLEAN /\ hay \in Texts /\ mask \in Masks
    /\ haystack = 1 /\ needle = 1
    /\ escaped = FALSE
    /\ lasthay = 0 /\ lastneedle = 0
    /\ result = "running"
-----------------------------------------------------------------------------
\* The mask's character at i, or its '\0'.
At(i) == IF i <= Len(mask) THEN mask[i] ELSE "NUL"

\* An iteration that compares: neither string has ended.
Comparing == result = "running" /\ needle <= Len(mask) /\ haystack <= Len(hay)

\* A backslash makes the next character literal and is passed over.
Compared == IF mask[needle] = "\\" THEN needle + 1 ELSE needle
Literal == escaped \/ mask[needle] = "\\"

\* The first of the positions stops from haystack on, or the '\0'.
SkipTo(stops) ==
    CHOOSE k \in haystack..(Len(hay) + 1) :
        /\ k = Len(hay) + 1 \/ k \in stops
        /\ \A j \in haystack..(k - 1) : j \notin stops

Return(verdict) ==
    /\ result' = verdict
    /\ UNCHANGED <<args, haystack, needle, escaped, last>>

NeedleEnds ==
    /\ result = "running" /\ needle = Len(mask) + 1
    /\ Return(IF haystack = Len(hay) + 1 THEN "match" ELSE "fail")

\* Mutant of HaystackEnds: what is left of the mask is not looked at.
HaystackEndsAnyhow ==
    /\ result = "running" /\ needle <= Len(mask) /\ haystack = Len(hay) + 1
    /\ Return("match")

HaystackEnds ==
    /\ result = "running" /\ needle <= Len(mask) /\ haystack = Len(hay) + 1
    /\ Return(IF mask[needle] = "*" /\ needle = Len(mask) /\ ~escaped THEN "match" ELSE "fail")

AnyCharacter ==
    /\ Comparing /\ ~Literal /\ mask[needle] = "?"
    /\ haystack' = haystack + 1 /\ needle' = needle + 1
    /\ UNCHANGED <<args, escaped, last, result>>

Star ==
    /\ Comparing /\ ~Literal /\ mask[needle] = "*"
    /\ LET k == SkipTo({j \in DOMAIN hay : hay[j] = At(needle + 1)})
       IN  /\ haystack' = k
           /\ IF retries THEN lasthay' = k + 1 /\ lastneedle' = needle ELSE UNCHANGED last
    /\ needle' = needle + 1
    /\ UNCHANGED <<args, escaped, result>>

NonSpaces ==
    /\ Comparing /\ ~Literal /\ mask[needle] = "%"
    /\ haystack' = SkipTo({j \in DOMAIN hay : hay[j] \in Space \cup {At(needle + 1)}})
    /\ needle' = needle + 1
    /\ UNCHANGED <<args, escaped, last, result>>

Spaces ==
    /\ Comparing /\ ~Literal /\ mask[needle] = "~"
    /\ IF hay[haystack] \in Space
       THEN /\ haystack' = SkipTo({j \in DOMAIN hay : hay[j] \notin Space})
            /\ needle' = needle + 1
            /\ UNCHANGED <<args, escaped, last, result>>
       ELSE Return("fail")

\* Any other character of the mask stands for itself.
Plain == Comparing /\ (Literal \/ mask[needle] \notin Wild)

\* Mutant of Differ: there is no return to the last star.
DifferFails == Plain /\ At(Compared) # hay[haystack] /\ Return("fail")

\* Mutant of Differ: the pointers are kept for another return.
DifferKeepsLast ==
    /\ Plain /\ At(Compared) # hay[haystack]
    /\ IF lasthay # 0
       THEN /\ haystack' = lasthay /\ needle' = lastneedle
            /\ escaped' = Literal
            /\ UNCHANGED <<args, last, result>>
       ELSE Return("fail")

Differ ==
    /\ Plain /\ At(Compared) # hay[haystack]
    /\ IF lasthay # 0
       THEN /\ haystack' = lasthay /\ needle' = lastneedle
            /\ lasthay' = 0 /\ lastneedle' = 0
            /\ escaped' = Literal
            /\ UNCHANGED <<args, result>>
       ELSE Return("fail")

Agree ==
    /\ Plain /\ At(Compared) = hay[haystack]
    /\ haystack' = haystack + 1 /\ needle' = Compared + 1
    /\ escaped' = FALSE
    /\ UNCHANGED <<args, last, result>>

Iteration ==
    \/ NeedleEnds \/ HaystackEnds
    \/ AnyCharacter \/ Star \/ NonSpaces \/ Spaces
    \/ Differ \/ Agree

Matcher == Called /\ [][Iteration]_locals /\ WF_locals(Iteration)
-----------------------------------------------------------------------------
\* The comment in front of both functions.  E holds the backslashes that make
\* the next character literal.
IsEscapes(E, m) ==
    \A i \in DOMAIN m : i \in E <=> m[i] = "\\" /\ i - 1 \notin E

\* Symbol i of the mask m stands for the characters a + 1 .. b of t.
StandsFor(m, E, i, t, a, b) ==
    IF i \in E THEN b = a
    ELSE IF i - 1 \in E \/ m[i] \notin Wild THEN b = a + 1 /\ t[b] = m[i]
    ELSE \/ m[i] = "?" /\ b = a + 1
         \/ m[i] = "*" /\ a <= b
         \/ m[i] = "%" /\ a <= b /\ \A k \in (a + 1)..b : t[k] \notin Space
         \/ m[i] = "~" /\ a < b /\ \A k \in (a + 1)..b : t[k] \in Space

\* The first p symbols of m stand, cut by cut, for the first e characters of t.
Covers(m, E, p, t, cut, e) ==
    /\ cut[0] = 0 /\ cut[p] = e
    /\ \A i \in 1..p : StandsFor(m, E, i, t, cut[i - 1], cut[i])

Matches(t, m) ==
    \E E \in SUBSET (1..Len(m)) :
        /\ IsEscapes(E, m)
        /\ \E cut \in [0..Len(m) -> 0..Len(t)] : Covers(m, E, Len(m), t, cut, Len(t))

\* A mask and a text that leave no choice of where a wildcard ends: the
\* character after a star or a percent sign is in the text once at most.
Clear(t, m) ==
    \A i \in DOMAIN m :
        /\ m[i] # "\\"
        /\ m[i] \in {"*", "%"} =>
             \/ m[i] = "*" /\ i = Len(m)
             \/ /\ i < Len(m) /\ m[i + 1] \notin Wild
                /\ \A j, k \in DOMAIN t : t[j] = m[i + 1] /\ t[k] = m[i + 1] => j = k
        /\ m[i] = "~" => i = Len(m) \/ m[i + 1] \notin Wild \cup Space

\* Words between two stars.
WordBetweenStars(m) ==
    /\ Len(m) > 2 /\ m[1] = "*" /\ m[Len(m)] = "*"
    /\ \A i \in 2..(Len(m) - 1) : m[i] \notin Wild \cup {"\\"}

\* A match is one by the rules of the comment: no bind fires for a text its
\* mask does not describe, wherever the matcher returned to.
MatchesAreReal == result = "match" => Matches(hay, mask)

\* Among the texts it should match, the matcher misses none that leaves no
\* choice; the one that retries also finds a word anywhere in a text.
ClearMasksMatch ==
    result = "fail" /\ (Clear(hay, mask) \/ (retries /\ WordBetweenStars(mask))) => ~Matches(hay, mask)

\* Going back to a star does not repeat for ever.
EveryCallReturns == <>(result # "running")
=============================================================================
