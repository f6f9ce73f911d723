CONSTANTS
    t1 = t1
    t2 = t2
    c1 = c1
    c2 = c2
    c3 = c3
    ann = ann
    bob = bob
    Threads = {t1, t2}
    Conns = {c1, c2, c3}
    LoopOf <- MCLoopOf
    UserOf <- MCUserOf
    MaxLoops = 2
    Nobody = Nobody
SPECIFICATION ThreadsSpec
INVARIANTS
    ThreadsTypeOK
    OneModelPerUser
PROPERTIES
    EveryoneAnswered
    OtherLoopsGoOn
