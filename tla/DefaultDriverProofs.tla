------------------------ MODULE DefaultDriverProofs -------------------------
(***************************************************************************)
(* Everyone who asks for the default driver is given the same, for any     *)
(* number of threads.  The invariant says that at most one thread is       *)
(* inside DEFAULT's initialiser, that it is loading and DEFAULT is unset,  *)
(* and that a thread initialises only a driver whose table is usable.      *)
(***************************************************************************)
EXTENDS DefaultDriver, TLAPS

TypeOK ==
    /\ usable \in [Backends -> {"unknown", "yes", "no"}]
    /\ default \in Outcomes \cup {NoAnswer}
    /\ inside \in SUBSET Threads
    /\ at \in [Threads -> {"idle", "default", "load", "init"}]
    /\ trying \in [Threads -> Backends]
    /\ answer \in [Threads -> [call : {"none", "default", "load"},
                               outcome : Outcomes \cup {NoAnswer}]]

\* DEFAULT is being computed by one thread, which is in a load, and is unset.
OneInside ==
    /\ \A t, u \in inside : t = u
    /\ \A t \in inside : at[t] \in {"load", "init"}
    /\ inside # {} => default = NoAnswer

\* A driver is initialised only after its table was found usable.
InitsUsable == \A t \in Threads : at[t] = "init" => usable[trying[t]] = "yes"

\* What DEFAULT holds: a driver of a usable backend, or HIP's error.
DefaultSound ==
    default # NoAnswer =>
        IF default.error = "None" THEN usable[default.backend] = "yes"
                                  ELSE default.backend = "hip"

\* An answer of default_driver is what DEFAULT holds.
AnswersDefault ==
    \A t \in Threads : answer[t].call = "default" =>
        answer[t].outcome = default /\ default # NoAnswer

IInv == TypeOK /\ OneInside /\ InitsUsable /\ DefaultSound /\ AnswersDefault

\* At first nobody has asked for anything.
LEMMA InitHolds == Init => IInv
BY DEF Init, IInv, TypeOK, OneInside, InitsUsable, DefaultSound, AnswersDefault,
       Outcomes, Backends, NoneYet

\* A call is started by an idle thread, which is not inside the initialiser.
LEMMA CallsKeep ==
    ASSUME IInv, NEW t \in Threads,
           CallDefault(t) \/ \E b \in Backends : CallLoad(t, b)
    PROVE  IInv'
<1> USE DEF IInv, TypeOK, NoneYet
<1>1. TypeOK' BY DEF CallDefault, CallLoad
<1>2. OneInside' BY DEF CallDefault, CallLoad, OneInside
<1>3. InitsUsable' BY DEF CallDefault, CallLoad, InitsUsable
<1>4. DefaultSound' BY DEF CallDefault, CallLoad, DefaultSound
<1>5. AnswersDefault' BY DEF CallDefault, CallLoad, AnswersDefault
<1> QED BY <1>1, <1>2, <1>3, <1>4, <1>5

\* A thread enters the initialiser only when nobody is inside.
LEMMA EnterKeeps == ASSUME IInv, NEW t \in Threads, Enter(t) PROVE IInv'
<1> USE DEF IInv, TypeOK, Enter, Backends
<1>1. TypeOK' OBVIOUS
<1>2. OneInside' BY DEF OneInside
<1>3. InitsUsable' BY DEF InitsUsable
<1>4. DefaultSound' BY DEF DefaultSound
<1>5. AnswersDefault' BY DEF AnswersDefault
<1> QED BY <1>1, <1>2, <1>3, <1>4, <1>5

\* A thread that finds DEFAULT set answers what it holds.
LEMMA FindKeeps == ASSUME IInv, NEW t \in Threads, Find(t) PROVE IInv'
<1> USE DEF IInv, TypeOK, Find, Return
<1>1. TypeOK' OBVIOUS
<1>2. OneInside' BY DEF OneInside
<1>3. InitsUsable' BY DEF InitsUsable
<1>4. DefaultSound' BY DEF DefaultSound
<1>5. AnswersDefault' BY DEF AnswersDefault
<1> QED BY <1>1, <1>2, <1>3, <1>4, <1>5

\* The outcome of a load of t: an error, or a driver whose table is usable.
Sound(t, outcome) ==
    /\ outcome \in Outcomes /\ outcome.backend = trying[t]
    /\ outcome.error = "None" => usable[trying[t]] = "yes"

\* Settling a sound outcome keeps the invariant: it is DEFAULT's only if t is
\* the thread inside, and an error is only if HIP was tried.
LEMMA SettleKeeps ==
    ASSUME IInv, NEW t \in Threads, at[t] \in {"load", "init"}, NEW outcome,
           Sound(t, outcome), Settle(t, outcome),
           usable' \in [Backends -> {"unknown", "yes", "no"}],
           \A b \in Backends : usable[b] = "yes" => usable'[b] = "yes"
    PROVE  IInv'
<1> USE DEF IInv, TypeOK, Sound, Backends
<1>1. CASE t \notin inside
  <2> USE <1>1 DEF Settle, Return
  <2>1. TypeOK' OBVIOUS
  <2>2. OneInside' BY DEF OneInside
  <2>3. InitsUsable' BY DEF InitsUsable
  <2>4. DefaultSound' BY DEF DefaultSound, Outcomes
  <2>5. AnswersDefault' BY DEF AnswersDefault
  <2> QED BY <2>1, <2>2, <2>3, <2>4, <2>5
<1>2. CASE t \in inside /\ outcome.error # "None" /\ trying[t] = "cuda"
  <2> USE <1>2 DEF Settle
  <2>1. TypeOK' OBVIOUS
  <2>2. OneInside' BY DEF OneInside
  <2>3. InitsUsable' BY DEF InitsUsable
  <2>4. DefaultSound' BY DEF DefaultSound, Outcomes
  <2>5. AnswersDefault' BY DEF AnswersDefault
  <2> QED BY <2>1, <2>2, <2>3, <2>4, <2>5
<1>3. CASE t \in inside /\ ~ (outcome.error # "None" /\ trying[t] = "cuda")
  <2>1. /\ default' = outcome /\ inside' = inside \ {t}
        /\ at' = [at EXCEPT ![t] = "idle"]
        /\ answer' = [answer EXCEPT ![t] = [call |-> "default", outcome |-> outcome]]
        /\ UNCHANGED trying
    BY <1>3 DEF Settle, Return
  <2>2. TypeOK' BY <2>1
  <2>3. inside' = {} BY <1>3, <2>1 DEF OneInside
  <2>4. OneInside' BY <2>3 DEF OneInside
  <2>5. InitsUsable' BY <2>1 DEF InitsUsable
  <2>6. DefaultSound' BY <1>3, <2>1 DEF DefaultSound, Outcomes
  <2>7. default = NoAnswer BY <1>3 DEF OneInside
  <2>8. AnswersDefault' BY <2>1, <2>7, NoAnswerAssumption DEF AnswersDefault
  <2> QED BY <2>2, <2>4, <2>5, <2>6, <2>8
<1> QED BY <1>1, <1>2, <1>3

\* A load asks for the table, whose fate is decided once.
LEMMA LoadKeeps == ASSUME IInv, NEW t \in Threads, Load(t) PROVE IInv'
<1>1. PICK u \in {"yes", "no"} :
          /\ usable' = [usable EXCEPT ![trying[t]] = u]
          /\ usable[trying[t]] = "yes" => u = "yes"
          /\ IF u = "yes"
             THEN /\ at' = [at EXCEPT ![t] = "init"]
                  /\ UNCHANGED <<default, inside, trying, answer>>
             ELSE Settle(t, Failure(trying[t], "Unavailable"))
  BY DEF Load, IInv, TypeOK
<1>2. at[t] = "load" BY DEF Load
<1>3. /\ usable' \in [Backends -> {"unknown", "yes", "no"}]
      /\ \A b \in Backends : usable[b] = "yes" => usable'[b] = "yes"
  BY <1>1 DEF IInv, TypeOK
<1>4. CASE u = "yes"
  <2> USE <1>1, <1>2, <1>3, <1>4 DEF IInv, TypeOK
  <2>1. TypeOK' OBVIOUS
  <2>2. OneInside' BY DEF OneInside
  <2>3. InitsUsable' BY DEF InitsUsable
  <2>4. DefaultSound' BY DEF DefaultSound, Outcomes
  <2>5. AnswersDefault' BY DEF AnswersDefault
  <2> QED BY <2>1, <2>2, <2>3, <2>4, <2>5
<1>5. CASE u = "no"
  <2>1. Sound(t, Failure(trying[t], "Unavailable"))
    BY DEF Sound, Failure, Outcomes, IInv, TypeOK
  <2>2. Settle(t, Failure(trying[t], "Unavailable")) BY <1>1, <1>5
  <2> QED BY <1>2, <1>3, <2>1, <2>2, SettleKeeps
<1> QED BY <1>4, <1>5

\* A driver is initialised, and its outcome settled.
LEMMA InitialiseKeeps == ASSUME IInv, NEW t \in Threads, Initialise(t) PROVE IInv'
<1>1. PICK outcome \in {Driver(trying[t]), Failure(trying[t], "InitFailed")} :
          Settle(t, outcome)
  BY DEF Initialise
<1>2. at[t] = "init" /\ usable' = usable BY DEF Initialise
<1>3. Sound(t, outcome)
  BY <1>1, <1>2 DEF Sound, Driver, Failure, Outcomes, IInv, TypeOK, InitsUsable
<1> QED BY <1>1, <1>2, <1>3, SettleKeeps DEF IInv, TypeOK

\* One thread at most computes DEFAULT, and only from a usable table.
THEOREM Invariant == Spec => []IInv
<1>1. IInv /\ [Next]_vars => IInv'
  <2> SUFFICES ASSUME IInv, [Next]_vars PROVE IInv'
    OBVIOUS
  <2>1. ASSUME NEW t \in Threads,
               \/ CallDefault(t) \/ \E b \in Backends : CallLoad(t, b)
               \/ Enter(t) \/ Find(t) \/ Load(t) \/ Initialise(t)
        PROVE  IInv'
    BY <2>1, CallsKeep, EnterKeeps, FindKeeps, LoadKeeps, InitialiseKeeps
  <2>2. CASE UNCHANGED vars
    BY <2>2 DEF vars, IInv, TypeOK, OneInside, InitsUsable, DefaultSound, AnswersDefault
  <2> QED BY <2>1, <2>2 DEF Next
<1> QED BY InitHolds, <1>1, PTL DEF Spec

\* However many threads ask, and whatever they load meanwhile, the default is
\* one driver of a usable backend or one error for all (default_driver).
THEOREM OneDefault == Spec => []DefaultsAgree
<1>1. IInv => DefaultsAgree
  BY DEF IInv, OneInside, DefaultSound, AnswersDefault, DefaultsAgree
<1> QED BY Invariant, <1>1, PTL

-----------------------------------------------------------------------------
(* Every call advances and nobody waits in vain.                           *)

\* The thread that computes the default is loading, so those that wait for it
\* are served, however many they are (default_driver).
THEOREM NobodyWaitsInVain == Spec => []WaitersAreServed
<1>1. IInv => WaitersAreServed
  <2> SUFFICES ASSUME IInv, NEW t \in Threads, at[t] = "default", inside # {}
               PROVE  /\ t \notin inside
                      /\ \E u \in Threads : inside = {u} /\ at[u] \in {"load", "init"}
    BY DEF WaitersAreServed
  <2>1. t \notin inside
    BY DEF IInv, OneInside
  <2>2. PICK u \in Threads : u \in inside
    BY DEF IInv, TypeOK
  <2>3. inside = {u} /\ at[u] \in {"load", "init"}
    BY <2>2 DEF IInv, OneInside
  <2> QED BY <2>1, <2>3
<1> QED BY Invariant, <1>1, PTL

\* What is left to a call is one of six numbers.
LEMMA StepsAreFew == ASSUME IInv, NEW t \in Threads PROVE StepsLeft(t) \in 0 .. 5
<1>1. at[t] \in {"idle", "default", "load", "init"}
  BY DEF IInv, TypeOK
<1>2. CASE at[t] = "idle" BY <1>2 DEF StepsLeft
<1>3. CASE at[t] = "default" BY <1>3 DEF StepsLeft
<1>4. CASE at[t] = "load" BY <1>4 DEF StepsLeft
<1>5. CASE at[t] = "init" BY <1>5 DEF StepsLeft
<1> QED BY <1>1, <1>2, <1>3, <1>4, <1>5

\* It still is after a step.
LEMMA StepsStayFew == ASSUME IInv', NEW t \in Threads PROVE StepsLeft(t)' \in 0 .. 5
<1>1. at'[t] \in {"idle", "default", "load", "init"}
  BY DEF IInv, TypeOK
<1>2. CASE at'[t] = "idle" BY <1>2 DEF StepsLeft
<1>3. CASE at'[t] = "default" BY <1>3 DEF StepsLeft
<1>4. CASE at'[t] = "load" BY <1>4 DEF StepsLeft
<1>5. CASE at'[t] = "init" BY <1>5 DEF StepsLeft
<1> QED BY <1>1, <1>2, <1>3, <1>4, <1>5

\* An outcome ends a call, or CUDA's sends it on to HIP: from the load or from
\* the initialisation, that leaves fewer steps.
LEMMA SettleAdvances ==
    ASSUME IInv, NEW t \in Threads, at[t] \in {"load", "init"}, NEW outcome,
           Settle(t, outcome)
    PROVE  StepsLeft(t)' < StepsLeft(t)
<1>1. StepsLeft(t) >= 1
  <2>1. CASE at[t] = "load" BY <2>1 DEF StepsLeft
  <2>2. CASE at[t] = "init" BY <2>2 DEF StepsLeft
  <2> QED BY <2>1, <2>2
<1>2. CASE at'[t] = "idle"
  <2>1. StepsLeft(t)' = 0 BY <1>2 DEF StepsLeft
  <2> QED BY <1>1, <2>1, StepsAreFew
<1>3. CASE at'[t] # "idle"
  <2>1. t \in inside /\ trying[t] = "cuda" /\ inside' = inside
        /\ at' = [at EXCEPT ![t] = "load"] /\ trying' = [trying EXCEPT ![t] = "hip"]
    BY <1>3 DEF Settle, Return, IInv, TypeOK
  <2>2. at'[t] = "load" /\ trying'[t] = "hip"
    BY <2>1 DEF IInv, TypeOK
  <2>3. StepsLeft(t)' = 2
    BY <2>2 DEF StepsLeft
  <2>4. StepsLeft(t) >= 3
    <3>1. CASE at[t] = "load" BY <2>1, <3>1 DEF StepsLeft
    <3>2. CASE at[t] = "init" BY <2>1, <3>2 DEF StepsLeft
    <3> QED BY <3>1, <3>2
  <2> QED BY <2>3, <2>4, StepsAreFew
<1> QED BY <1>2, <1>3

\* A thread's own step leaves fewer to its call.
LEMMA StepAdvances ==
    ASSUME IInv, NEW t \in Threads, Step(t) PROVE StepsLeft(t)' < StepsLeft(t)
<1>1. CASE Enter(t)
  <2>1. at[t] = "default" /\ at'[t] = "load"
    BY <1>1 DEF Enter, IInv, TypeOK
  <2>2. StepsLeft(t) = 5
    BY <2>1 DEF StepsLeft
  <2>3. StepsLeft(t)' <= 4
    BY <2>1 DEF StepsLeft
  <2>4. StepsLeft(t)' \in 0 .. 5
    BY <1>1, EnterKeeps, <2>1 DEF StepsLeft
  <2> QED BY <2>2, <2>3, <2>4
<1>2. CASE Find(t)
  <2>1. at[t] = "default" /\ at'[t] = "idle"
    BY <1>2 DEF Find, Return, IInv, TypeOK
  <2> QED BY <2>1 DEF StepsLeft
<1>3. CASE Load(t)
  <2>1. at[t] = "load"
    BY <1>3 DEF Load
  <2>2. CASE at' = [at EXCEPT ![t] = "init"] /\ UNCHANGED <<inside, trying>>
    <3>1. at'[t] = "init"
      BY <2>2 DEF IInv, TypeOK
    <3>2. StepsLeft(t)' = StepsLeft(t) - 1
      <4>1. CASE t \in inside /\ trying[t] = "cuda"
        BY <2>1, <2>2, <3>1, <4>1 DEF StepsLeft
      <4>2. CASE ~ (t \in inside /\ trying[t] = "cuda")
        BY <2>1, <2>2, <3>1, <4>2 DEF StepsLeft
      <4> QED BY <4>1, <4>2
    <3> QED BY <3>2, StepsAreFew
  <2>3. CASE Settle(t, Failure(trying[t], "Unavailable"))
    BY <2>1, <2>3, SettleAdvances
  <2> QED BY <1>3, <2>2, <2>3 DEF Load
<1>4. CASE Initialise(t)
  <2>1. at[t] = "init"
    BY <1>4 DEF Initialise
  <2>2. PICK outcome \in {Driver(trying[t]), Failure(trying[t], "InitFailed")} :
            Settle(t, outcome)
    BY <1>4 DEF Initialise
  <2> QED BY <2>1, <2>2, SettleAdvances
<1> QED BY <1>1, <1>2, <1>3, <1>4 DEF Step

\* What the other threads do does not touch a call.
LEMMA CallsAreOwn ==
    ASSUME IInv, NEW u \in Threads, NEW t \in Threads, t # u,
           \/ CallDefault(u) \/ \E b \in Backends : CallLoad(u, b)
           \/ Enter(u) \/ Find(u) \/ Load(u) \/ Initialise(u)
    PROVE  StepsLeft(t)' = StepsLeft(t)
<1> SUFFICES /\ at'[t] = at[t] /\ trying'[t] = trying[t]
             /\ t \in inside' <=> t \in inside
  BY DEF StepsLeft
<1> USE DEF IInv, TypeOK
<1>1. ASSUME NEW outcome, Settle(u, outcome)
      PROVE  /\ at'[t] = at[t] /\ trying'[t] = trying[t]
             /\ t \in inside' <=> t \in inside
  BY <1>1 DEF Settle, Return
<1>2. CASE CallDefault(u) BY <1>2 DEF CallDefault
<1>3. CASE \E b \in Backends : CallLoad(u, b) BY <1>3 DEF CallLoad
<1>4. CASE Enter(u) BY <1>4 DEF Enter
<1>5. CASE Find(u) BY <1>5 DEF Find, Return
<1>6. CASE Load(u) BY <1>1, <1>6 DEF Load
<1>7. CASE Initialise(u) BY <1>1, <1>7 DEF Initialise
<1> QED BY <1>2, <1>3, <1>4, <1>5, <1>6, <1>7

\* Every call of any number of threads takes at most five steps of its own and
\* is never set back: with the fairness of a thread's steps, and nobody waiting
\* in vain, it returns (default_driver, Driver::load).
THEOREM CallsComeToAnEnd == Spec => CallsAdvance
<1>1. ASSUME IInv, [Next]_vars, NEW t \in Threads
      PROVE  /\ at[t] # "idle" => StepsLeft(t)' <= StepsLeft(t)
             /\ Step(t) => StepsLeft(t)' < StepsLeft(t)
  <2>1. StepsLeft(t) \in 0 .. 5
    BY <1>1, StepsAreFew
  <2>2. CASE Step(t)
    <3>1. StepsLeft(t)' < StepsLeft(t)
      BY <1>1, <2>2, StepAdvances
    <3>2. StepsLeft(t)' \in 0 .. 5
      <4>1. IInv'
        BY <1>1, <2>2, EnterKeeps, FindKeeps, LoadKeeps, InitialiseKeeps DEF Step
      <4> QED BY <4>1, StepsStayFew
    <3> QED BY <2>1, <3>1, <3>2
  <2>3. CASE ~ Step(t) /\ at[t] # "idle"
    <3>1. CASE UNCHANGED vars
      <4>1. StepsLeft(t)' = StepsLeft(t)
        BY <3>1 DEF vars, StepsLeft
      <4> QED BY <2>1, <2>3, <4>1
    <3>2. CASE Next
      <4>1. PICK u \in Threads :
                \/ CallDefault(u) \/ \E b \in Backends : CallLoad(u, b)
                \/ Enter(u) \/ Find(u) \/ Load(u) \/ Initialise(u)
        BY <3>2 DEF Next
      <4>2. t # u
        BY <2>3, <4>1 DEF Step, CallDefault, CallLoad
      <4>3. StepsLeft(t)' = StepsLeft(t)
        BY <1>1, <4>1, <4>2, CallsAreOwn
      <4> QED BY <2>1, <2>3, <4>3
    <3> QED BY <1>1, <2>3, <3>1, <3>2
  <2> QED BY <2>2, <2>3
<1>2. IInv /\ [Next]_vars => [\A t \in Threads :
          /\ at[t] # "idle" => StepsLeft(t)' <= StepsLeft(t)
          /\ Step(t) => StepsLeft(t)' < StepsLeft(t)]_vars
  BY <1>1
<1> QED BY Invariant, NobodyWaitsInVain, <1>2, PTL DEF Spec, CallsAdvance

=============================================================================
