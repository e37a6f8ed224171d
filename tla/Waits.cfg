\* The parts in which somebody waits, one per behaviour.  A part may come to rest.
SPECIFICATION FairSpec
CONSTANTS
    c1 = c1  c2 = c2
    p1 = p1  p2 = p2
    Nil = Nil
PROPERTY EveryWaitEnds
CHECK_DEADLOCK FALSE
