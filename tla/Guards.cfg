SPECIFICATION MCSpec
CONSTANTS
    Caller = {a, b, c}
    Threshold = 2
    MaxCalls = 2
    Recovery = 1
    MaxFailures = 5
    Key = {k1, k2}
    MaxBreakers = 4
    Upstream = {u1, u2}
    DefaultUpstream = u1
    NoName = NoName
    Window = 2
    MaxTime = 4
    Limit = 1
    MaxAdds = 3
    Client = {c1, c2}
    Minute = 3
    Burst = 2
    MaxCount = 3
    MaxErrors = 1
    Quota = 3
INVARIANTS Typed ClosedIffBelowThreshold HalfOpenAdmits SharedBreaker OutAfterThreeMisses
           BoundedOvershoot BurstPerWindow LocalBurst
PROPERTIES ProbeFailureReopens RecoversWithUpstream HealthConverges
