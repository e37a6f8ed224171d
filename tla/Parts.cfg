\* The parts that run on their own, one per behaviour.  A part may come to rest.
SPECIFICATION Spec
CONSTANTS
    c1 = c1  c2 = c2
    o1 = o1  o2 = o2  o3 = o3
    p1 = p1  p2 = p2
    Nil = Nil  Damaged = Damaged  Later = Later
VIEW View
INVARIANTS TypeOK WritesAreMeant StateIsKept LoginsAreTheirOwn ToldTruly RateBound ClosedMeansFreshCoolDown
INVARIANTS CacheTellsTruth WrittenOnce AnswersTheChildAsked
PROPERTIES StepsKeepTheirWord RetryAfterHonoured
CHECK_DEADLOCK FALSE
