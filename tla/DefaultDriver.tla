--------------------------- MODULE DefaultDriver ----------------------------
(***************************************************************************)
(* The convenience backend of the ocgpu crate: default_driver tries CUDA,  *)
(* then HIP, and keeps the first outcome for the process in DEFAULT.       *)
(*                                                                         *)
(* Threads load drivers of their own at the same time.  Whether a backend  *)
(* has a usable table is decided once for the process (OneShotLoad); a     *)
(* driver's initialisation is called for every load and may fail in one    *)
(* and succeed in the next.                                                *)
(***************************************************************************)
EXTENDS Naturals

CONSTANTS
    Threads,
    NoAnswer

VARIABLES
    usable,   \* usable[b]: "yes", "no", or "unknown" before the first load
    default,  \* what DEFAULT holds, or NoAnswer
    inside,   \* the threads inside DEFAULT's initialiser
    at,       \* at[t]: "idle", "default", "load" or "init"
    trying,   \* trying[t]: the backend t loads
    answer    \* answer[t]: t's last answer: what it called and what came back

vars == <<usable, default, inside, at, trying, answer>>

Backends == {"cuda", "hip"}

Driver(b) == [backend |-> b, error |-> "None"]
Failure(b, e) == [backend |-> b, error |-> e]
Outcomes == [backend : Backends, error : {"None", "Unavailable", "InitFailed"}]

ASSUME NoAnswerAssumption == NoAnswer \notin Outcomes

NoneYet == [call |-> "none", outcome |-> NoAnswer]

Init ==
    /\ usable = [b \in Backends |-> "unknown"]
    /\ default = NoAnswer
    /\ inside = {}
    /\ at = [t \in Threads |-> "idle"]
    /\ trying = [t \in Threads |-> "cuda"]
    /\ answer = [t \in Threads |-> NoneYet]

CallDefault(t) ==
    /\ at[t] = "idle"
    /\ at' = [at EXCEPT ![t] = "default"]
    /\ answer' = [answer EXCEPT ![t] = NoneYet]
    /\ UNCHANGED <<usable, default, inside, trying>>

CallLoad(t, b) ==
    /\ at[t] = "idle"
    /\ at' = [at EXCEPT ![t] = "load"]
    /\ trying' = [trying EXCEPT ![t] = b]
    /\ answer' = [answer EXCEPT ![t] = NoneYet]
    /\ UNCHANGED <<usable, default, inside>>

Return(t, call, outcome) ==
    /\ at' = [at EXCEPT ![t] = "idle"]
    /\ answer' = [answer EXCEPT ![t] = [call |-> call, outcome |-> outcome]]

\* Mutant: every thread that finds DEFAULT unset evaluates it.
EnterUnowned(t) ==
    /\ at[t] = "default" /\ default = NoAnswer
    /\ inside' = inside \cup {t}
    /\ at' = [at EXCEPT ![t] = "load"]
    /\ trying' = [trying EXCEPT ![t] = "cuda"]
    /\ UNCHANGED <<usable, default, answer>>

\* DEFAULT is unset and nobody sets it: t runs the initialiser.  While another
\* thread does, t waits.
Enter(t) ==
    /\ at[t] = "default" /\ default = NoAnswer /\ inside = {}
    /\ inside' = inside \cup {t}
    /\ at' = [at EXCEPT ![t] = "load"]
    /\ trying' = [trying EXCEPT ![t] = "cuda"]
    /\ UNCHANGED <<usable, default, answer>>

\* DEFAULT is set: its driver is lent, its error cloned.
Find(t) ==
    /\ at[t] = "default" /\ default # NoAnswer
    /\ Return(t, "default", default)
    /\ UNCHANGED <<usable, default, inside, trying>>

\* Mutant: CUDA is tried until it loads.
SettleRetrying(t, outcome) ==
    IF t \notin inside THEN
        /\ Return(t, "load", outcome)
        /\ UNCHANGED <<default, inside, trying>>
    ELSE IF outcome.error # "None" /\ trying[t] = "cuda" THEN
        /\ at' = [at EXCEPT ![t] = "load"]
        /\ trying' = [trying EXCEPT ![t] = "cuda"]
        /\ UNCHANGED <<default, inside, answer>>
    ELSE
        /\ default' = outcome /\ inside' = inside \ {t}
        /\ Return(t, "default", outcome)
        /\ UNCHANGED trying

\* An outcome of AnyDriver::load: it is t's own answer or, inside DEFAULT's
\* initialiser, DEFAULT's unless CUDA failed and HIP is still to be tried.
Settle(t, outcome) ==
    IF t \notin inside THEN
        /\ Return(t, "load", outcome)
        /\ UNCHANGED <<default, inside, trying>>
    ELSE IF outcome.error # "None" /\ trying[t] = "cuda" THEN
        /\ at' = [at EXCEPT ![t] = "load"]
        /\ trying' = [trying EXCEPT ![t] = "hip"]
        /\ UNCHANGED <<default, inside, answer>>
    ELSE
        /\ default' = outcome /\ inside' = inside \ {t}
        /\ Return(t, "default", outcome)
        /\ UNCHANGED trying

\* Driver::load asks for the validated table; the first to ask decides it.
Load(t) ==
    /\ at[t] = "load"
    /\ LET b == trying[t] IN
           /\ \E u \in IF usable[b] = "unknown" THEN {"yes", "no"} ELSE {usable[b]} :
                  /\ usable' = [usable EXCEPT ![b] = u]
                  /\ IF u = "yes"
                     THEN /\ at' = [at EXCEPT ![t] = "init"]
                          /\ UNCHANGED <<default, inside, trying, answer>>
                     ELSE Settle(t, Failure(b, "Unavailable"))

\* Driver::from_raw calls the driver's init, each time.
Initialise(t) ==
    /\ at[t] = "init"
    /\ \E outcome \in {Driver(trying[t]), Failure(trying[t], "InitFailed")} :
           Settle(t, outcome)
    /\ UNCHANGED usable

Step(t) == Enter(t) \/ Find(t) \/ Load(t) \/ Initialise(t)

Next ==
    \E t \in Threads :
        \/ CallDefault(t)
        \/ \E b \in Backends : CallLoad(t, b)
        \/ Enter(t)
        \/ Find(t)
        \/ Load(t)
        \/ Initialise(t)

\* Inside a call a thread keeps running; the application need not call.
Spec == Init /\ [][Next]_vars /\ \A t \in Threads : WF_vars(Step(t))

-----------------------------------------------------------------------------
(* Properties.                                                             *)

\* However the threads interleave and whatever the drivers' own loads answered
\* meanwhile, everyone who asks for the default is given what DEFAULT holds; it
\* is a driver of a usable backend, HIP's if it is an error, and nobody has
\* answered from it while it is being computed.
DefaultsAgree ==
    /\ \A t \in Threads : answer[t].call = "default" => answer[t].outcome = default
    /\ default # NoAnswer =>
           /\ inside = {}
           /\ IF default.error = "None" THEN usable[default.backend] = "yes"
                                        ELSE default.backend = "hip"

\* Nobody waits for DEFAULT in vain: while a thread finds it unset and may not
\* compute it, another is inside the initialiser and has a backend to load, and
\* none inside waits for itself.
WaitersAreServed ==
    \A t \in Threads :
        at[t] = "default" /\ default = NoAnswer /\ inside # {} =>
            /\ t \notin inside
            /\ \E u \in Threads : inside = {u} /\ at[u] \in {"load", "init"}

\* How many steps of its own a call has left at most: a load and the driver's
\* initialisation, the same for HIP when CUDA fails inside the initialiser.
StepsLeft(t) ==
    LET Hip == IF t \in inside /\ trying[t] = "cuda" THEN 2 ELSE 0 IN
    CASE at[t] = "idle"    -> 0
      [] at[t] = "default" -> 5
      [] at[t] = "load"    -> 2 + Hip
      [] at[t] = "init"    -> 1 + Hip

\* Nobody waits in vain, and a call takes at most five steps of its own, which the
\* other threads never set back: no backend is loaded twice in one call, and DEFAULT
\* is not evaluated again after an error.
CallsAdvance ==
    /\ []WaitersAreServed
    /\ [][\A t \in Threads :
              /\ at[t] # "idle" => StepsLeft(t)' <= StepsLeft(t)
              /\ Step(t) => StepsLeft(t)' < StepsLeft(t)]_vars

\* Every call comes back, the one that waits for another thread's evaluation
\* included.
CallsReturn == \A t \in Threads : at[t] = "default" ~> at[t] = "idle"

=============================================================================
