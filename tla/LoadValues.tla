----------------------------- MODULE LoadValues -----------------------------
(***************************************************************************)
(* The vocabulary of library loading: the calls an application may make,   *)
(* the paths a library is known by, and the results the process keeps.     *)
(* Both the one-shot contract (OneShotLoad) and the threads that implement *)
(* it (BackendLoad) speak in these values.                                 *)
(***************************************************************************)
EXTENDS Naturals, Sequences

CONSTANTS
    Threads,          \* threads of the application
    Backends,         \* Backend::{Cuda, Hip, Nvrtc, Hiprtc}, or some of them
    Compilers,        \* those backends that are runtime compilers
    Files,            \* regular files an application may name or a search may find
    Names,            \* candidate basenames
    Candidates,       \* Candidates[b]: the basenames tried for b, in order
    DefaultSpellings, \* spellings in which a default open reports the path it loaded
    Calls,            \* the calls the application makes
    NoThread, NoCall, NoAnswer, NoPath, Unset, Default

Spellings == {"canonical", "module", "bare"}

Layers == {"slot", "api", "core"}

\* What a call asks for.  "slot" is ocgpu_loader::load, "api" the unvalidated
\* table of a driver or the state of a compiler, "core" the validated table,
\* "driver" an initialised Driver.
Wants == Layers \cup {"driver"}

Paths == [file : Files, spelling : Spellings]

\* Mutant: the path is handed on as the caller spelt it.
CanonicalAsGiven(f) == [file |-> f, spelling |-> "given"]

\* validate_explicit_path hands on the canonical spelling.
Canonical(f) == [file |-> f, spelling |-> "canonical"]

\* A default open reports the canonical path it gave dlopen (Linux) or
\* GetModuleFileNameW's answer, and failing that the candidate (Windows).
DefaultPaths == [file : Files, spelling : DefaultSpellings]

Requests == [backend : Backends, want : Wants, file : Files \cup {Default}]

KeptErrors == {"None", "UnsupportedPlatform", "BackendUnavailable",
               "BadApi", "MissingCore"}
CallErrors == {"InvalidExplicitPath", "AlreadyInitialized", "InitFailed"}

Results == [path     : Paths \cup {NoPath},
            error    : KeptErrors \cup CallErrors,
            attempts : Seq(Names \cup Paths)]

Loaded(p) == [path |-> p, error |-> "None", attempts |-> <<>>]
Failed(e) == [path |-> NoPath, error |-> e, attempts |-> <<>>]
Unopened(tried) ==
    [path |-> NoPath, error |-> "BackendUnavailable", attempts |-> tried]
Faulty(r, e) == [path |-> r.path, error |-> e, attempts |-> r.attempts]

Ok(r) == r.error = "None"

\* A driver's tables nest inside one another; a compiler has one state only.
ASSUME LoadAssumption ==
    /\ Compilers \subseteq Backends
    /\ Candidates \in [Backends -> Seq(Names)]
    /\ DefaultSpellings \subseteq Spellings
    /\ Calls \subseteq Requests
    /\ \A c \in Calls : c.backend \in Compilers => c.want \in {"slot", "api"}
    /\ NoThread \notin Threads
    /\ NoCall \notin Requests
    /\ NoAnswer \notin [call : Requests, result : Results]
    /\ NoPath \notin Paths
    /\ Unset \notin Results
    /\ Default \notin Files

Explicit(c) == c.file # Default

\* The layer whose value answers c when nothing below it failed.
Top(c) == IF c.want = "driver" THEN "core" ELSE c.want

\* Building or validating a library: its failure is inherited, and the library
\* that did load may be found wanting.
Judge(below, e) == IF Ok(below) THEN {below, Faulty(below, e)} ELSE {below}

=============================================================================
