\* Handles of two contexts interleaved on one thread.
SPECIFICATION Spec
CONSTANTS
    c1 = c1  c2 = c2
    m1 = m1  m2 = m2  e1 = e1  s1 = s1  mod = mod  fun = fun
    NoContext = NoContext  Foreign = Foreign  NoCall = NoCall
    Contexts = {c1, c2}
    Resources = {m1, m2, e1, s1, mod, fun}
    Kind <- MCKind
    Sizes <- MCSizes
    Missing = {"wait_event"}
SYMMETRY Symmetry
CONSTRAINT FewLeaked
INVARIANTS
    NoDanglingHandle CalledInOwnContext CopiesFit
PROPERTIES
    LeaksOnlyRefused RefusalsDoNotSwitch KeepsVendorRules
