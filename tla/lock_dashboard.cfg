\* Even with room in the channel for every command.
CONSTANTS
    Dashboard = {d1}
    Stream = {s1}
    Writer = {w1}
    Loop = loop
    ChannelSize = 4
SPECIFICATION LockSpec
PROPERTY DashboardReturns
CHECK_DEADLOCK FALSE
