CONSTANTS
    i1 = i1
    i2 = i2
    u1 = u1
    u2 = u2
    k1 = k1
    Summary = Summary
    None = None
    Inline = {i1, i2}
    Runs = {u1, u2}
    Checks = {k1}
    MaxAttempts = 2
    Disconnects = TRUE
    MaxFaults = 1
    Scenarios = {"overlap", "batch", "crash", "check", "disconnect"}
SPECIFICATION MCSpec
SYMMETRY Alike
INVARIANTS PostedOnce SafeToSend InlineFirstAlone
PROPERTY KeepsContract
CHECK_DEADLOCK FALSE
