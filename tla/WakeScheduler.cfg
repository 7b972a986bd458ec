SPECIFICATION Spec
CONSTANTS
    Wakes = {w1, w2}
    Dbs = {d1}
    Pages = {1, 2}
    Cap = 1
INVARIANTS TypeOK SaturationIsHonest SecondWakeIsWarm
PROPERTIES TraceMissesNothing

