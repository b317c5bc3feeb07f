CONSTANT Calls = {t1, t2}
SPECIFICATION Spec
INVARIANT LineIsItsOwn
CHECK_DEADLOCK FALSE
