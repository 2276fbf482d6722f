\* The channel holds one command, so that it is often full.  The wait cycle
\* that lock_dashboard exhibits is a deadlock of this model.
CONSTANTS
    Dashboard = {d1}
    Stream = {s1}
    Writer = {w1, w2}
    Loop = loop
    ChannelSize = 1
SPECIFICATION LockSpec
INVARIANTS
    LockTypeOK
    OnlyStall
PROPERTIES
    WritersProgress
CHECK_DEADLOCK FALSE
