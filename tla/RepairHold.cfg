\* All endpoints or one, passes of at most two buffers, with and without an area limit.
CONSTANTS
    d1 = d1  d2 = d2  d3 = d3  d4 = d4
    e1 = e1  e2 = e2  e3 = e3
    p1 = p1  p2 = p2  p3 = p3  p4 = p4
    Driver = {d1, d2, d3, d4}
    End = {e1, e2, e3}
    Path = {p1, p2, p3, p4}
    Through <- MCThrough
    To <- MCTo
    Clock = {e3}
    Special = {d4}
    Slacks <- MCSlacks
    Gains = {1, 2}
    Requests = {{e1, e2, e3}, {e1}}
    MinRepairs = 2
    AreaLimits <- MCAreaLimits
SPECIFICATION Spec
CHECK_DEADLOCK FALSE
INVARIANTS HoldRepaired OnePerPassOverLimit
PROPERTIES Terminates
