\* Two calls in one process and one in another, retrying one token.
SPECIFICATION FairSpec
CONSTANTS
    c1 = c1
    c2 = c2
    c3 = c3
    p1 = p1
    p2 = p2
    Tokens = {t1}
    NoToken = NoToken
    Strategies = {"Provided", "Custom", "Uuid", "None"}
    Callers = {c1, c2, c3}
    Processes = {p1, p2}
    Home <- ThreeCallers
    UseRedis = TRUE
    UseMoka = TRUE
    Ttl = 2
    FaultKinds = {"reserve", "insert", "crash"}
    MaxFaults = 2
INVARIANTS
    Inv
    ReservationExclusion
    RefusedWasUsed
PROPERTIES
    RecordedOncePerReservation
    KeepsReservation
    ReservationsLapse
