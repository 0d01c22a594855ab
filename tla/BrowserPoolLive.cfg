\* Two requests on one key.
CONSTANTS
    q1 = q1
    q2 = q2
    direct = direct
    proxy = proxy
    b1 = b1
    b2 = b2
    b3 = b3
    None = None
    Request = {q1, q2}
    Key = {direct}
    Browser = {b1, b2, b3}
    PoolSize = 1
    IdleLimit = 0
SPECIFICATION LiveSpec
INVARIANTS InFlightTracked NoLeakedBrowser
PROPERTY EveryRequestAnswered
