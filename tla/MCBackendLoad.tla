--------------------------- MODULE MCBackendLoad ---------------------------
(***************************************************************************)
(* Small instances of BackendLoad: one driver with two candidates, one     *)
(* runtime compiler with one, and one backend of a platform that has none. *)
(***************************************************************************)
EXTENDS BackendLoad, TLC

CONSTANTS t1, t2, t3, hip, hiprtc, other, f1, f2, hip7, hip6, hiprtc1

Symmetry == Permutations({t1, t2, t3})

MCCandidates ==
    [b \in Backends |-> CASE b = hip -> <<hip7, hip6>>
                          [] b = hiprtc -> <<hiprtc1>>
                          [] OTHER -> <<>>]

LinuxSpellings == {"canonical"}
WindowsSpellings == {"module", "bare"}

Ask(b, wants, files) == [backend : {b}, want : wants, file : files]

\* One driver backend: each table by default and from either file.
DriverCalls == Ask(hip, {"api", "core"}, {Default, f1, f2})
               \cup Ask(hip, {"driver"}, {Default})

\* A driver, a compiler and a backend without candidates: loads that nest and
\* loads that do not, by default and from one file.
MixedCalls ==
    Ask(hip, {"driver"}, {Default, f1}) \cup Ask(hip, {"api"}, {Default})
    \cup Ask(hiprtc, {"api"}, {Default, f1})
    \cup Ask(other, {"slot"}, {Default})

\* A default load followed by an explicit one, as a Windows process makes them.
WindowsCalls == Ask(hip, {"slot", "core"}, {Default, f1, f2})
=============================================================================
