\* Two C callers ask for HIP's tables and its compiler's, with room for any prefix.
SPECIFICATION Spec
CONSTANTS
    t1 = t1  t2 = t2
    Threads = {t1, t2}
    Kinds = {"common", "raw", "compiler"}
    Layer <- MCLayer
    Library <- MCLibrary
    Entries <- MCEntries
    Home <- MCHome
    Required = {"attribute", "malloc", "create"}
    MaxWords = 5
    NoThread = NoThread
    NoRequest = NoRequest
SYMMETRY Symmetry
INVARIANTS
    AdaptersReachTheirTargets
PROPERTIES
    RequestsAdvance KeepsTheContract
