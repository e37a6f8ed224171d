\* Two reads, a write and a keepalive request; the second push-back opens.
SPECIFICATION Spec
CONSTANTS
    r1 = r1  r2 = r2  r3 = r3  w1 = w1  b1 = b1
    Requests = {r1, r2, w1, b1}
    Writes = {w1}
    Background = {b1}
    Threshold = 2
    Window = 2
    CoolDown = 1
    MaxCoolDown = 2
    BackoffBase = 1
    BackoffMax = 2
    MinRetryAfter = 1
    MaxRetryAfter = 3
    MaxWait = 1
    PerMinute = 2
    Minute = 3
    Burst = 2
    MaxInFlight = 2
    Hints = {0, 4}
    MaxTime = 3
SYMMETRY Symmetry
INVARIANTS TypeOK SlotsAccounted NoLostWakeup OneProbe
PROPERTIES SlotsGoOutInTime ImplementsGate
CHECK_DEADLOCK FALSE
