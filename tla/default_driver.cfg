\* Two threads ask for the default and load drivers of their own.
SPECIFICATION Spec
CONSTANTS
    t1 = t1  t2 = t2
    Threads = {t1, t2}
    NoAnswer = NoAnswer
INVARIANTS
    DefaultsAgree
PROPERTIES
    CallsReturn CallsAdvance
