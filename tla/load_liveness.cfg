\* Two threads, a driver and a compiler backend and one without candidates: every call returns.
SPECIFICATION FairSpec
CONSTANTS
    t1 = t1  t2 = t2  t3 = t3
    hip = hip  hiprtc = hiprtc  other = other
    f1 = f1  f2 = f2
    hip7 = hip7  hip6 = hip6  hiprtc1 = hiprtc1
    NoThread = NoThread  NoCall = NoCall  NoAnswer = NoAnswer
    NoPath = NoPath  Unset = Unset  Default = Default
    Files = {f1}
    Names = {hip7, hip6, hiprtc1}
    Candidates <- MCCandidates
    Threads = {t1, t2}
    Backends = {hip, hiprtc, other}
    Compilers = {hiprtc}
    DefaultSpellings <- LinuxSpellings
    Calls <- MixedCalls
INVARIANTS
    FailureIsExhaustive
PROPERTY EveryCallReturns
