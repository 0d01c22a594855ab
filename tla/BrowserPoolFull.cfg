\* Two keys contend for a pool of one.
CONSTANTS
    q1 = q1
    q2 = q2
    direct = direct
    proxy = proxy
    b1 = b1
    b2 = b2
    b3 = b3
    None = None
    Request = {q1, q2}
    Key = {direct, proxy}
    Browser = {b1, b2, b3}
    PoolSize = 1
    IdleLimit = 0
SPECIFICATION Spec
SYMMETRY PoolSymmetry
INVARIANTS PendingIsInFlight SecondTryElsewhere
