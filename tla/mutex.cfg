SPECIFICATION FairSpec
CONSTANT N = 3
INVARIANT MutualExclusion
INVARIANT OneToken
INVARIANT NoLostWakeup
PROPERTY BoundedBypass
PROPERTY ImplementsRoundRobin
PROPERTY CallsReturn
