CONSTANT Threads = {t1, t2, t3, t4, t5}
SPECIFICATION FairSpec
INVARIANT MutualExclusion
PROPERTY SomebodyGetsIn
CHECK_DEADLOCK TRUE
