----------------------------- MODULE MCChannels -----------------------------
(* Two channels, the bot and two others whose roles are the same.  The        *)
(* configuration has both channels, the first one or none.  Bans do not depend *)
(* on users: they are given their own worlds, with one other user, and so are  *)
(* topics, with none.                                                          *)
EXTENDS ChannelQueries
CONSTANTS home, away, x, y
Given(names, users, masks, topics) ==
    [configured |-> names, users |-> users, masks |-> masks, topics |-> topics]
MCWorld == {Given(<<home>>, Nick, {}, {}), Given(<<home, away>>, Nick, {}, {}),
            Given(<<home>>, {Bot, x}, Mask, {}), Given(<<home>>, {Bot, y}, Mask, {}),
            Given(<<home>>, {Bot}, {}, Topic), Given(<<home, away>>, {Bot}, {}, Topic),
            Given(<< >>, {Bot}, {}, {})}
MCOptions == home :> <<"statuslog", "autoop">> @@ away :> <<"bitch">>
Others == Permutations(Nick \ {Bot})
=============================================================================
