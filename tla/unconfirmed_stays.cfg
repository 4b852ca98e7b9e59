CONSTANTS
    i1 = i1
    i2 = i2
    u1 = u1
    u2 = u2
    k1 = k1
    Summary = Summary
    None = None
    Inline = {i1}
    Runs = {u1}
    Checks = {k1}
    MaxAttempts = 2
    Disconnects = FALSE
    MaxFaults = 0
SPECIFICATION Spec
PROPERTY UnconfirmedStays
CHECK_DEADLOCK FALSE
