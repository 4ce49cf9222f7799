SPECIFICATION FairSpec
CONSTANTS
    Addr = {t1, t2, t3}
    Null = Null
    Delay = {1, 2}
    MaxTime = 3
CHECK_DEADLOCK FALSE
INVARIANTS NoTimerLost
PROPERTIES RunsOnceInOrder DueTimersRun
