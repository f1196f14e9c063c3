\* Three threads racing for one driver backend on Linux.
SPECIFICATION Spec
CONSTANTS
    t1 = t1  t2 = t2  t3 = t3
    hip = hip  hiprtc = hiprtc  other = other
    f1 = f1  f2 = f2
    hip7 = hip7  hip6 = hip6  hiprtc1 = hiprtc1
    NoThread = NoThread  NoCall = NoCall  NoAnswer = NoAnswer
    NoPath = NoPath  Unset = Unset  Default = Default
    Files = {f1, f2}
    Names = {hip7, hip6, hiprtc1}
    Candidates <- MCCandidates
    Threads = {t1, t2, t3}
    Backends = {hip}
    Compilers = {}
    DefaultSpellings <- LinuxSpellings
    Calls <- DriverCalls
SYMMETRY Symmetry
INVARIANTS
    TypeOK OneLibrary Agreement ExplicitHonoured SameFileAccepted
    NothingTransientKept
PROPERTIES RefinesOneShot CallsAdvance
