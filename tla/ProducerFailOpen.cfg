\* One reservation fails, and nothing else.
SPECIFICATION Spec
CONSTANTS
    c1 = c1
    c2 = c2
    c3 = c3
    p1 = p1
    p2 = p2
    Tokens = {t1}
    NoToken = NoToken
    Strategies = {"Provided"}
    Callers = {c1, c2}
    Processes = {p1}
    Home <- TwoCallers
    UseRedis = TRUE
    UseMoka = TRUE
    Ttl = 2
    FaultKinds = {"reserve"}
    MaxFaults = 1
PROPERTIES
    FailOpen
