SPECIFICATION Spec
CONSTANTS
    home = home
    away = away
    x = x
    y = y
    Nick = {bot, x, y}
    Bot = bot
    Chan = {home, away}
    World <- MCWorld
    Mask = {m1, m2}
    Topic = {t1, t2}
    Options <- MCOptions
    Key = Key
    None = None
    MaxUsers = 3
    MaxRecords = 2
    MaxLapses = 1
SYMMETRY Others
CHECK_DEADLOCK FALSE
INVARIANTS NobodyIsOverlooked ViewIsExact BansAreReal TopicIsTrue AnswersAreTrue ChannelsAreSaved
