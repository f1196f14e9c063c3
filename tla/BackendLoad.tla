---------------------------- MODULE BackendLoad ----------------------------
(***************************************************************************)
(* Threads of one process loading GPU backends.                            *)
(*                                                                         *)
(* A backend has up to three process-wide OnceLock cells: the library slot *)
(* of ocgpu-loader, the UNVALIDATED table of ocgpu-cuda or ocgpu-hip (for  *)
(* a runtime compiler, the ApiState of ocgpu-rtc), and VALIDATED.  A       *)
(* default driver load takes them from the top down, each closure running  *)
(* inside the one above it; an explicit load, and any compiler load, takes *)
(* them from the bottom up and holds at most one.                          *)
(***************************************************************************)
EXTENDS LoadValues

VARIABLES
    value,     \* value[l][b]: what the cell of layer l for b holds, or Unset
    holder,    \* holder[l][b]: the thread running that cell's closure
    pc,        \* where each thread is
    call,      \* the call it is in
    attempts,  \* the failures open_candidates has collected so far
    answer     \* what its last call returned

vars == <<value, holder, pc, call, attempts, answer>>

Places == {"idle", "check", "open", "build", "validate", "init"} \cup Layers

Init ==
    /\ value = [l \in Layers |-> [b \in Backends |-> Unset]]
    /\ holder = [l \in Layers |-> [b \in Backends |-> NoThread]]
    /\ pc = [t \in Threads |-> "idle"]
    /\ call = [t \in Threads |-> NoCall]
    /\ attempts = [t \in Threads |-> <<>>]
    /\ answer = [t \in Threads |-> NoAnswer]

-----------------------------------------------------------------------------
(* What the actions share.                                                 *)

Cell(t, l) == value[l][call[t].backend]

Nested(c) == ~Explicit(c) /\ c.backend \notin Compilers

\* The first cell of a default call; explicit calls check their path first.
FirstCell(c) ==
    IF ~Nested(c) THEN "slot" ELSE IF c.want = "driver" THEN "core" ELSE c.want

\* Mutant: load validates load()'s result instead of load_unvalidated()'s.
ClosureReentered(l, c) ==
    CASE l = "slot" -> "open"
      [] l = "api"  -> IF Nested(c) THEN "slot" ELSE "build"
      [] l = "core" -> IF Nested(c) THEN "core" ELSE "validate"

\* Where get_or_init goes when it runs the closure of layer l for call c.
Closure(l, c) ==
    CASE l = "slot" -> "open"
      [] l = "api"  -> IF Nested(c) THEN "slot" ELSE "build"
      [] l = "core" -> IF Nested(c) THEN "api" ELSE "validate"

\* Where a thread goes when layer l answered well: into the closure that asked
\* for it, or up to the next cell, or out.
Onward(l, c) ==
    CASE l = "slot" /\ c.want # "slot" -> IF Nested(c) THEN "build" ELSE "api"
      [] l = "api" /\ c.want \in {"core", "driver"} ->
             IF Nested(c) THEN "validate" ELSE "core"
      [] l = "core" /\ c.want = "driver" -> "init"
      [] OTHER -> "idle"

\* Inside a closure the failure below becomes the closure's own result (`?`).
AsksFrom(t, l) ==
    /\ Nested(call[t])
    /\ \/ l = "slot" /\ call[t].want # "slot"
       \/ l = "api" /\ call[t].want \in {"core", "driver"}

Goto(t, place) == pc' = [pc EXCEPT ![t] = place]

Return(t, r) ==
    /\ answer' = [answer EXCEPT ![t] = [call |-> call[t], result |-> r]]
    /\ call' = [call EXCEPT ![t] = NoCall]
    /\ Goto(t, "idle")
    /\ UNCHANGED <<value, holder, attempts>>

\* The closure of layer l ends: its result is kept for good, waiters wake.
Keep(t, l, r) ==
    /\ value' = [value EXCEPT ![l][call[t].backend] = r]
    /\ holder' = [holder EXCEPT ![l][call[t].backend] = NoThread]
    /\ attempts' = [attempts EXCEPT ![t] = <<>>]
    /\ Goto(t, l)
    /\ UNCHANGED <<call, answer>>

-----------------------------------------------------------------------------
(* A call begins, and an explicit one checks its path.                     *)

Start(t) ==
    /\ pc[t] = "idle"
    /\ \E c \in Calls :
        /\ call' = [call EXCEPT ![t] = c]
        /\ Goto(t, IF Explicit(c) THEN "check" ELSE FirstCell(c))
    /\ answer' = [answer EXCEPT ![t] = NoAnswer]
    /\ UNCHANGED <<value, holder, attempts>>

\* Not absolute, a NUL inside, not accessible or not a regular file: the call
\* returns before it reaches a cell.
RejectPath(t) ==
    /\ pc[t] = "check"
    /\ Return(t, Failed("InvalidExplicitPath"))

AcceptPath(t) ==
    /\ pc[t] = "check"
    /\ Goto(t, "slot")
    /\ UNCHANGED <<value, holder, call, attempts, answer>>

-----------------------------------------------------------------------------
(* OnceLock::get_or_init of one cell.  A thread that finds the cell empty  *)
(* but held waits: no action of this section is enabled for it.            *)

\* Mutant: the cell is read and set, not held, while its closure runs.
EnterUnheld(t, l) ==
    /\ pc[t] = l
    /\ Cell(t, l) = Unset
    /\ holder' = [holder EXCEPT ![l][call[t].backend] = t]
    /\ Goto(t, Closure(l, call[t]))
    /\ UNCHANGED <<value, call, attempts, answer>>

Enter(t, l) ==
    /\ pc[t] = l
    /\ Cell(t, l) = Unset
    /\ holder[l][call[t].backend] = NoThread
    /\ holder' = [holder EXCEPT ![l][call[t].backend] = t]
    /\ Goto(t, Closure(l, call[t]))
    /\ UNCHANGED <<value, call, attempts, answer>>

\* Mutant: a stored error is cleared so that the next call tries again.
FoundErrorRetried(t, l) ==
    /\ pc[t] = l
    /\ Cell(t, l) # Unset
    /\ ~Ok(Cell(t, l))
    /\ IF AsksFrom(t, l)
       THEN /\ Goto(t, Onward(l, call[t]))
            /\ UNCHANGED <<value, holder, call, attempts, answer>>
       ELSE /\ value' = [value EXCEPT ![l][call[t].backend] = Unset]
            /\ answer' = [answer EXCEPT ![t] =
                   [call |-> call[t], result |-> Cell(t, l)]]
            /\ call' = [call EXCEPT ![t] = NoCall]
            /\ Goto(t, "idle")
            /\ UNCHANGED <<holder, attempts>>

\* Mutant: a call that finds the search's stored failure searches again.
FoundErrorReopened(t, l) ==
    /\ pc[t] = l
    /\ Cell(t, l) # Unset
    /\ ~Ok(Cell(t, l))
    /\ IF AsksFrom(t, l)
       THEN /\ Goto(t, Onward(l, call[t]))
            /\ UNCHANGED <<value, holder, call, attempts, answer>>
       ELSE IF l = "slot"
       THEN /\ value' = [value EXCEPT !["slot"][call[t].backend] = Unset]
            /\ UNCHANGED <<holder, pc, call, attempts, answer>>
       ELSE Return(t, Cell(t, l))

\* result_ref and clone_result_ref: a stored error is handed out as it is.
FoundError(t, l) ==
    /\ pc[t] = l
    /\ Cell(t, l) # Unset
    /\ ~Ok(Cell(t, l))
    /\ IF AsksFrom(t, l)
       THEN /\ Goto(t, Onward(l, call[t]))
            /\ UNCHANGED <<value, holder, call, attempts, answer>>
       ELSE Return(t, Cell(t, l))

\* Mutant: the comparison is left out.
AcceptedAlways(c, lib) == TRUE

\* load_from_absolute compares what is loaded with what was asked for.
Accepted(c, lib) == Explicit(c) => lib.path = Canonical(c.file)

\* Mutant: the error names the requested path as the loaded one.
FoundOtherSwapped(t) ==
    /\ pc[t] = "slot"
    /\ Cell(t, "slot") # Unset
    /\ Ok(Cell(t, "slot"))
    /\ ~Accepted(call[t], Cell(t, "slot"))
    /\ Return(t, Faulty(Loaded(Canonical(call[t].file)), "AlreadyInitialized"))

\* Mutant: the mismatch becomes the backend's result.
FoundOtherKept(t) ==
    /\ pc[t] = "slot"
    /\ Cell(t, "slot") # Unset
    /\ Ok(Cell(t, "slot"))
    /\ ~Accepted(call[t], Cell(t, "slot"))
    /\ Keep(t, "slot", Faulty(Cell(t, "slot"), "AlreadyInitialized"))

FoundOther(t) ==
    /\ pc[t] = "slot"
    /\ Cell(t, "slot") # Unset
    /\ Ok(Cell(t, "slot"))
    /\ ~Accepted(call[t], Cell(t, "slot"))
    /\ Return(t, Faulty(Cell(t, "slot"), "AlreadyInitialized"))

Found(t, l) ==
    /\ pc[t] = l
    /\ Cell(t, l) # Unset
    /\ Ok(Cell(t, l))
    /\ l = "slot" => Accepted(call[t], Cell(t, l))
    /\ IF Onward(l, call[t]) = "idle"
       THEN Return(t, Cell(t, l))
       ELSE /\ Goto(t, Onward(l, call[t]))
            /\ UNCHANGED <<value, holder, call, attempts, answer>>

-----------------------------------------------------------------------------
(* The closures.                                                           *)

\* Mutant: the first failure ends the search.
UntriedOnce(t) ==
    attempts[t] = <<>> /\ Candidates[call[t].backend] # <<>>

Untried(t) == Len(attempts[t]) < Len(Candidates[call[t].backend])

\* Mutant: the candidate's basename is kept as the loaded path.
OpenCandidateBare(t) ==
    /\ pc[t] = "open"
    /\ ~Explicit(call[t])
    /\ Untried(t)
    /\ \E p \in DefaultPaths : Keep(t, "slot", Loaded([p EXCEPT !.spelling = "bare"]))

\* open_candidates: the first candidate that opens ends the search.
OpenCandidate(t) ==
    /\ pc[t] = "open"
    /\ ~Explicit(call[t])
    /\ Untried(t)
    /\ \E p \in DefaultPaths : Keep(t, "slot", Loaded(p))

CandidateFails(t) ==
    /\ pc[t] = "open"
    /\ ~Explicit(call[t])
    /\ Untried(t)
    /\ attempts' = [attempts EXCEPT ![t] =
           Append(@, Candidates[call[t].backend][Len(@) + 1])]
    /\ UNCHANGED <<value, holder, pc, call, answer>>

CandidatesExhausted(t) ==
    /\ pc[t] = "open"
    /\ ~Explicit(call[t])
    /\ ~Untried(t)
    /\ Keep(t, "slot", IF attempts[t] = <<>> THEN Failed("UnsupportedPlatform")
                       ELSE Unopened(attempts[t]))

OpenExact(t) ==
    /\ pc[t] = "open"
    /\ Explicit(call[t])
    /\ LET p == Canonical(call[t].file)
       IN  \E r \in {Loaded(p), Unopened(<<p>>)} : Keep(t, "slot", r)

Build(t) ==
    /\ pc[t] = "build"
    /\ \E r \in Judge(Cell(t, "slot"), "BadApi") : Keep(t, "api", r)

Validate(t) ==
    /\ pc[t] = "validate"
    /\ \E r \in Judge(Cell(t, "api"), "MissingCore") : Keep(t, "core", r)

\* Driver::from_raw: the vendor's init(0), run by every Driver load.
InitDriver(t) ==
    /\ pc[t] = "init"
    /\ \E r \in {Cell(t, "core"), Faulty(Cell(t, "core"), "InitFailed")} :
           Return(t, r)

-----------------------------------------------------------------------------

Step(t) ==
    \/ RejectPath(t) \/ AcceptPath(t)
    \/ \E l \in Layers : Enter(t, l) \/ FoundError(t, l) \/ Found(t, l)
    \/ FoundOther(t)
    \/ OpenCandidate(t) \/ CandidateFails(t) \/ CandidatesExhausted(t)
    \/ OpenExact(t) \/ Build(t) \/ Validate(t) \/ InitDriver(t)

Next == \E t \in Threads : Start(t) \/ Step(t)

Spec == Init /\ [][Next]_vars

\* The scheduler runs every thread, a OnceLock wakes its waiters, and the
\* vendor's constructors and entry points return.
Fairness == \A t \in Threads : WF_vars(Step(t))

FairSpec == Spec /\ Fairness

-----------------------------------------------------------------------------
(* Properties.                                                             *)

\* Every variable stays in its domain.
TypeOK ==
    /\ value \in [Layers -> [Backends -> Results \cup {Unset}]]
    /\ holder \in [Layers -> [Backends -> Threads \cup {NoThread}]]
    /\ pc \in [Threads -> Places]
    /\ call \in [Threads -> Calls \cup {NoCall}]
    /\ attempts \in [Threads -> Seq(Names)]
    /\ answer \in [Threads ->
           [call : Requests, result : Results] \cup {NoAnswer}]

\* The validated table was made from the kept unvalidated one and that one from
\* the kept library, in whatever order explicit and default loads arrived; a
\* failure below is the failure above, so no cell speaks of another library.
Follows(lo, hi, b) ==
    value[hi][b] # Unset =>
        /\ value[lo][b] # Unset
        /\ IF Ok(value[lo][b]) THEN value[hi][b].path = value[lo][b].path
           ELSE value[hi][b] = value[lo][b]

OneLibrary ==
    \A b \in Backends : Follows("slot", "api", b) /\ Follows("api", "core", b)

\* Two threads that were ever told of a loaded library of one backend, in a
\* success or in an error, were told of the same one.
Agreement ==
    \A t, u \in Threads :
        /\ answer[t] # NoAnswer /\ answer[t].result.path # NoPath
        /\ answer[u] # NoAnswer /\ answer[u].result.path # NoPath
        /\ answer[t].call.backend = answer[u].call.backend
        => answer[t].result.path = answer[u].result.path

\* An explicit load that succeeds, at any layer, serves the file it was given,
\* never one that another thread got into the slot first.
ExplicitHonoured ==
    \A t \in Threads :
        answer[t] # NoAnswer /\ Explicit(answer[t].call) /\ Ok(answer[t].result)
        => answer[t].result.path = Canonical(answer[t].call.file)

\* What is wrong with one call (its path, its choice of file, its init) is
\* answered and never kept for the calls that follow.
NothingTransientKept ==
    \A l \in Layers, b \in Backends :
        value[l][b] # Unset => value[l][b].error \notin CallErrors

\* A kept BackendUnavailable lists every candidate in order, or the one
\* explicit path: the search gave up on none of them early.
FailureIsExhaustive ==
    \A b \in Backends :
        LET r == value["slot"][b] IN
        r # Unset /\ ~Ok(r) =>
            \/ r.attempts = Candidates[b]
            \/ \E f \in Files : r.attempts = <<Canonical(f)>>

\* In front of a cell that is empty while some thread runs its closure.
Waiting(t) ==
    /\ pc[t] \in Layers
    /\ Cell(t, pc[t]) = Unset
    /\ holder[pc[t]][call[t].backend] # NoThread

\* Nobody waits in a circle, for himself or for a thread that has left: whoever
\* waits at a cell of a backend, some thread inside a closure of that backend
\* is not waiting, and will fill the cell it holds.
WaitersAreServed ==
    \A t \in Threads : Waiting(t) =>
        \E u \in Threads, l \in Layers :
            /\ holder[l][call[t].backend] = u
            /\ pc[u] # "idle" /\ ~Waiting(u)

\* How far a call is from its end: an empty cell has its closure still before it,
\* and for a nested call the closures and cells below as well.
Stage(t) ==
    LET at(unset, set) == IF Cell(t, pc[t]) = Unset THEN unset ELSE set
    IN  CASE pc[t] = "check"    -> 13
          [] pc[t] = "core"     -> at(IF Nested(call[t]) THEN 12 ELSE 4, 2)
          [] pc[t] = "api"      -> at(IF Nested(call[t]) THEN 11 ELSE 7, 5)
          [] pc[t] = "slot"     -> at(10, 8)
          [] pc[t] = "open"     -> 9
          [] pc[t] = "build"    -> 6
          [] pc[t] = "validate" -> 3
          [] pc[t] = "init"     -> 1
          [] pc[t] = "idle"     -> 0

\* The candidates it has not tried yet are steps too, until the search is over.
StepsLeft(t) ==
    Stage(t) + (IF Stage(t) >= 9
                THEN Len(Candidates[call[t].backend]) - Len(attempts[t]) ELSE 0)

\* Nobody waits in vain, and a call takes at most thirteen steps of its own and one
\* for each candidate, which no other thread sets back: a stored failure is not
\* tried again, a cell not filled twice, a search not begun anew.
CallsAdvance ==
    /\ []WaitersAreServed
    /\ [][\A t \in Threads :
              /\ pc[t] # "idle" => StepsLeft(t)' <= StepsLeft(t)
              /\ Step(t) => StepsLeft(t)' < StepsLeft(t)]_vars

\* "A different library already owns the process-lifetime backend slot"
\* (AlreadyInitialized): a request for the very file that is loaded is served.
SameFileAccepted ==
    \A t \in Threads :
        answer[t] # NoAnswer /\ answer[t].result.error = "AlreadyInitialized"
        => answer[t].result.path.file # answer[t].call.file

\* Every call returns, however default and explicit loads of the same backend
\* overlap.
EveryCallReturns == \A t \in Threads : pc[t] # "idle" ~> pc[t] = "idle"

\* The cells and the answers behave as the one-shot contract says: a fact once
\* known never changes and answers follow from the facts.
Contract == INSTANCE OneShotLoad
RefinesOneShot == Contract!Spec

=============================================================================
