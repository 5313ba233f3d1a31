CONSTANTS
    l1 = l1
    l2 = l2
    null = null
    Listeners <- MC_Listeners
    NULL <- null
    SessionIds = {7}
    MaxCalls = 5
SPECIFICATION ImsSpec
\* The client may stop calling, and a crash ends the process.
CHECK_DEADLOCK FALSE
INVARIANT
    CrashOnlyWithoutListener
