------------------------- MODULE HardwareChildProofs ------------------------
(***************************************************************************)
(* The watchdog's result tells what became of the child, for every timeout *)
(* and grace period.  The invariant ties what the watchdog knows to where  *)
(* it is: until it kills, nothing was killed and the child is collected    *)
(* only by the poll that decides; afterwards the child can only be         *)
(* collected by the poll that reports it terminated.  The time passed and  *)
(* the time left make up the deadlines, so no kill comes early.            *)
(***************************************************************************)
EXTENDS HardwareChild, TLAPS

\* The watchdog is waiting for the child, before or after the kill.
Waiting == at \in {"poll", "deadline", "reap"}

\* What holds before the child was spawned, while it is watched and after.
Watched ==
    /\ at \in {"spawn", "poll", "deadline", "reap", "returned"}
    /\ killed \in BOOLEAN
    /\ at = "spawn" => child = "none"
    /\ Waiting => child \in {"running", "zombie"}
    /\ at # "returned" => result = "none" /\ (killed <=> at = "reap")

\* What a result of the watchdog says.
Told ==
    at = "returned" =>
        /\ result \in {"spawn failed", "success", "unsuccessful", "status failed",
                       "not terminated", "terminated", "not reaped", "reap failed"}
        /\ result = "success" => code = "success"
        /\ result = "spawn failed" => child = "none"
        /\ result \in {"success", "unsuccessful", "terminated"} => child = "reaped"
        /\ killed <=> result \in {"terminated", "not reaped", "reap failed"}

IInv == Watched /\ Told

\* Nothing has happened before the child is spawned.
LEMMA InitHolds == Init => IInv
BY DEF Init, IInv, Watched, Told, Waiting

\* Neither the child nor the clock changes what the watchdog knows.
LEMMA ChildKeeps == IInv /\ (Exit \/ Tick) => IInv'
<1> SUFFICES ASSUME IInv, Exit \/ Tick PROVE Watched' /\ Told'
  BY DEF IInv
<1> USE DEF IInv, Watched, Told, Waiting
<1>1. CASE Exit
  <2> USE <1>1 DEF Exit
  <2>1. Watched' OBVIOUS
  <2>2. Told' OBVIOUS
  <2> QED BY <2>1, <2>2
<1>2. CASE Tick
  <2> USE <1>2 DEF Tick
  <2>1. Watched' OBVIOUS
  <2>2. Told' OBVIOUS
  <2> QED BY <2>1, <2>2
<1> QED BY <1>1, <1>2

\* A step of the watchdog keeps what it knows true, and returns only with a
\* result that tells it.
LEMMA WatchdogKeeps == IInv /\ Watchdog => IInv'
<1> SUFFICES ASSUME IInv, Watchdog PROVE IInv'
  OBVIOUS
<1> USE DEF IInv, Watched, Told, Waiting, Return, Collected, StatusError
<1>1. CASE Spawn
  <2> USE <1>1 DEF Spawn
  <2>1. Watched' OBVIOUS
  <2>2. Told' OBVIOUS
  <2> QED BY <2>1, <2>2
<1>2. CASE Poll
  <2> USE <1>2 DEF Poll
  <2>1. Watched' OBVIOUS
  <2>2. Told' OBVIOUS
  <2> QED BY <2>1, <2>2
<1>3. CASE Wait
  <2> USE <1>3 DEF Wait
  <2>1. Watched' OBVIOUS
  <2>2. Told' OBVIOUS
  <2> QED BY <2>1, <2>2
<1>4. CASE Kill
  <2> USE <1>4 DEF Kill
  <2>1. Watched' OBVIOUS
  <2>2. Told' OBVIOUS
  <2> QED BY <2>1, <2>2
<1>5. CASE Reap
  <2> USE <1>5 DEF Reap
  <2>1. Watched' OBVIOUS
  <2>2. Told' OBVIOUS
  <2> QED BY <2>1, <2>2
<1> QED BY <1>1, <1>2, <1>3, <1>4, <1>5 DEF Watchdog

\* What the watchdog knows holds in every state.
THEOREM Invariant == Spec => []IInv
<1>1. IInv /\ [Next]_vars => IInv'
  <2> SUFFICES ASSUME IInv, [Next]_vars PROVE IInv'
    OBVIOUS
  <2>1. CASE Next BY <2>1, ChildKeeps, WatchdogKeeps DEF Next, Watchdog
  <2>2. CASE UNCHANGED vars BY <2>2 DEF vars, IInv, Watched, Told, Waiting
  <2> QED BY <2>1, <2>2
<1> QED BY InitHolds, <1>1, PTL DEF Spec

-----------------------------------------------------------------------------
(* Its clocks.                                                             *)

\* Its two clocks: it sleeps one tick at a time, between two polls, and only
\* while time is left.
Timing ==
    /\ left \in Nat /\ nap \in {0, 1}
    /\ at \in {"spawn", "deadline"} => nap = 0
    /\ at = "spawn" => left = 0
    /\ at \in {"poll", "reap"} /\ nap = 1 => left > 0

\* Its clocks are kept as it is scheduled (Wait and Reap go to sleep before the
\* deadline only).
LEMMA TimingKept == Watched /\ Timing /\ [Next]_vars => Timing'
<1> SUFFICES ASSUME Watched, Timing, [Next]_vars PROVE Timing'
  OBVIOUS
<1> USE TimeAssumption DEF TimeAssumption, Watched, Waiting, Timing
<1>1. CASE Exit BY <1>1 DEF Exit
<1>2. CASE Tick BY <1>2 DEF Tick, Less
<1>3. CASE Spawn
  <2>1. CASE at' = "poll" BY <1>3, <2>1 DEF Spawn, Return
  <2>2. CASE Return("spawn failed") BY <1>3, <2>2 DEF Spawn, Return
  <2> QED BY <1>3, <2>1, <2>2 DEF Spawn
<1>4. CASE Poll BY <1>4 DEF Poll, Return, Collected, StatusError
<1>5. CASE Wait BY <1>5 DEF Wait
<1>6. CASE Kill
  <2>1. CASE at' = "reap" BY <1>6, <2>1 DEF Kill, Return
  <2>2. CASE Return("not terminated") BY <1>6, <2>2 DEF Kill, Return
  <2> QED BY <1>6, <2>1, <2>2 DEF Kill
<1>7. CASE Reap BY <1>7 DEF Reap, Return, Collected, StatusError
<1>8. CASE UNCHANGED vars BY <1>8 DEF vars
<1> QED BY <1>1, <1>2, <1>3, <1>4, <1>5, <1>6, <1>7, <1>8 DEF Next

\* What the clocks and the places are in every state.
LEMMA TimingHolds == Spec => [](Watched /\ Timing)
<1>1. Init => Timing
  BY DEF Init, Timing
<1>2. IInv => Watched
  BY DEF IInv
<1> QED BY Invariant, <1>1, <1>2, TimingKept, PTL DEF Spec

\* What has passed and what is left make up the whole timeout until the kill, and the
\* grace period too after it.
Clocked ==
    /\ elapsed \in Nat
    /\ at \in {"poll", "deadline"} => elapsed + left >= Timeout
    /\ at = "reap" => elapsed >= Timeout /\ elapsed + left >= Timeout + Grace

\* A result that follows a kill, or one that failed, took its time.
InTime ==
    /\ result \in {"not terminated", "terminated", "reap failed"} => elapsed >= Timeout
    /\ result = "not reaped" => elapsed >= Timeout + Grace

\* What a tick adds to the time passed it takes, at most, from the time left.
LEMMA TickSums ==
    ASSUME NEW e \in Nat, NEW l \in Nat, NEW l1 \in Nat, l1 >= l - 1
    PROVE  \A n \in Nat : /\ e >= n => e + 1 >= n
                          /\ e + l >= n => e + 1 + l1 >= n
OBVIOUS

\* Once the whole time has passed it stays passed.
LEMMA WholeTime ==
    ASSUME NEW t \in Nat, NEW g \in Nat, NEW l \in Nat
    PROVE  t + g \in Nat /\ t + g >= t /\ t + g + l >= t + g /\ t + g + l >= t
OBVIOUS

\* No tick is taken off a deadline without having passed.
LEMMA ClockedKept == Watched /\ Timing /\ Clocked /\ [Next]_vars => Clocked'
<1> SUFFICES ASSUME Watched, Timing, Clocked, [Next]_vars PROVE Clocked'
  OBVIOUS
<1>0. left \in Nat /\ elapsed \in Nat /\ Timeout \in Nat /\ Grace \in Nat
  BY TimeAssumption DEF Timing, Clocked
<1>1. ASSUME UNCHANGED <<elapsed, left>>,
             at' = at \/ (at = "poll" /\ at' = "deadline")
                 \/ (at = "deadline" /\ at' = "poll") \/ at' = "returned"
      PROVE  Clocked'
  BY <1>1 DEF Clocked
<1>2. CASE Exit BY <1>1, <1>2 DEF Exit
<1>3. CASE Tick
  <2>0. at' = at
    BY <1>3 DEF Tick
  <2>1. left' \in Nat /\ left' >= left - 1
    BY <1>0, <1>3 DEF Tick, Less
  <2>2. CASE at = "returned"
    BY <1>3, <2>0, <2>2 DEF Tick, Clocked
  <2>3. CASE elapsed = Timeout + Grace
    <3>1. elapsed' = Timeout + Grace
      BY <1>3, <2>3 DEF Tick
    <3> QED BY <1>0, <2>0, <2>1, <3>1, WholeTime DEF Clocked
  <2>4. CASE at # "returned" /\ elapsed # Timeout + Grace
    <3>1. elapsed' = elapsed + 1 /\ elapsed + 1 \in Nat /\ Timeout + Grace \in Nat
      BY <1>0, <1>3, <2>4 DEF Tick
    <3> QED BY <1>0, <2>0, <2>1, <3>1, TickSums DEF Clocked
  <2> QED BY <2>2, <2>3, <2>4
<1>4. CASE Spawn
  <2>1. elapsed' = elapsed /\ (at' = "returned" \/ (at' = "poll" /\ left' = Timeout))
    BY <1>4 DEF Spawn, Return
  <2> QED BY <1>0, <2>1 DEF Clocked
<1>5. CASE Poll BY <1>1, <1>5 DEF Poll, Return
<1>6. CASE Wait BY <1>1, <1>6 DEF Wait
<1>7. CASE Kill
  <2>1. /\ at = "deadline" /\ left = 0 /\ elapsed' = elapsed
        /\ at' = "returned" \/ (at' = "reap" /\ left' = Grace)
    BY <1>7 DEF Kill, Return
  <2> QED BY <1>0, <2>1 DEF Clocked
<1>8. CASE Reap BY <1>1, <1>8 DEF Reap, Return
<1>9. CASE UNCHANGED vars BY <1>1, <1>9 DEF vars
<1> QED BY <1>2, <1>3, <1>4, <1>5, <1>6, <1>7, <1>8, <1>9 DEF Next

\* The watchdog kills at the deadline and gives up at the end of the grace period.
LEMMA InTimeKept == Watched /\ Timing /\ Clocked /\ InTime /\ [Next]_vars => InTime'
<1> SUFFICES ASSUME Watched, Timing, Clocked, InTime, [Next]_vars PROVE InTime'
  OBVIOUS
<1>0. left \in Nat /\ elapsed \in Nat /\ Timeout \in Nat /\ Grace \in Nat
  BY TimeAssumption DEF Timing, Clocked
<1>1. ASSUME elapsed' \in {elapsed, elapsed + 1}, result' = result PROVE InTime'
  <2>1. \A n \in Nat : elapsed >= n => elapsed' >= n
    BY <1>0, <1>1
  <2>2. Timeout + Grace \in Nat
    BY <1>0
  <2> QED BY <1>0, <1>1, <2>1, <2>2 DEF InTime
<1>2. ASSUME result' \in {"spawn failed", "success", "unsuccessful", "status failed"}
      PROVE  InTime'
  BY <1>2 DEF InTime
<1>3. CASE Exit \/ Tick \/ Wait \/ UNCHANGED vars
  BY <1>1, <1>3 DEF Exit, Tick, Wait, vars
<1>4. CASE Spawn
  BY <1>1, <1>2, <1>4 DEF Spawn, Return
<1>5. CASE Poll
  BY <1>1, <1>2, <1>5 DEF Poll, Return
<1>6. CASE Kill
  <2>1. elapsed + left >= Timeout /\ left = 0 /\ elapsed' = elapsed
    BY <1>6 DEF Kill, Clocked
  <2>2. elapsed' >= Timeout
    BY <1>0, <2>1
  <2>3. result' = "not terminated" \/ result' = result
    BY <1>6 DEF Kill, Return
  <2> QED BY <1>1, <2>1, <2>2, <2>3 DEF InTime
<1>7. CASE Reap
  <2>1. elapsed >= Timeout /\ elapsed + left >= Timeout + Grace /\ elapsed' = elapsed
    BY <1>7 DEF Reap, Clocked
  <2>2. \/ result' = result
        \/ result' \in {"terminated", "reap failed"}
        \/ (result' = "not reaped" /\ left = 0)
    BY <1>7 DEF Reap, Return
  <2>3. left = 0 => elapsed' >= Timeout + Grace
    BY <1>0, <2>1
  <2>4. elapsed' >= Timeout
    BY <2>1
  <2> QED BY <1>1, <2>1, <2>2, <2>3, <2>4 DEF InTime
<1> QED BY <1>3, <1>4, <1>5, <1>6, <1>7 DEF Next

\* A success is the child's own, an exited or terminated child is collected, one
\* that was killed had its whole time, and a child left behind is reported as such
\* (run_bounded_hardware_child).
THEOREM ResultTold == Spec => []ResultTellsTheChild
<1>1. Init => Clocked /\ InTime
  BY DEF Init, Clocked, InTime
<1>2. IInv /\ Timing /\ Clocked /\ InTime => ResultTellsTheChild
  <2> SUFFICES ASSUME IInv, Timing, Clocked, InTime PROVE ResultTellsTheChild
    OBVIOUS
  <2>1. result = "not reaped" => elapsed >= Timeout
    <3>1. elapsed \in Nat /\ Timeout \in Nat /\ Grace \in Nat
      BY TimeAssumption DEF Clocked
    <3>2. elapsed >= Timeout + Grace => elapsed >= Timeout
      BY <3>1
    <3> QED BY <3>2 DEF InTime
  <2>2. killed => at = "reap" \/ result \in {"terminated", "not reaped", "reap failed"}
    BY DEF IInv, Watched, Told
  <2>3. killed \/ result = "not terminated" => elapsed >= Timeout
    <3>1. at = "reap" => elapsed >= Timeout
      BY DEF Clocked
    <3>2. result \in {"not terminated", "terminated", "reap failed"} => elapsed >= Timeout
      BY DEF InTime
    <3> QED BY <2>1, <2>2, <3>1, <3>2
  <2>4. result = "not reaped" => elapsed >= Timeout + Grace
    BY DEF InTime
  <2>5. /\ result = "success" => code = "success" /\ ~ killed
        /\ result \in {"success", "unsuccessful", "terminated"} => child = "reaped"
        /\ result \in {"terminated", "not reaped", "reap failed"} <=> killed /\ at = "returned"
        /\ at = "returned" /\ child \in {"running", "zombie"} =>
               result \in {"status failed", "not terminated", "not reaped", "reap failed"}
    BY DEF IInv, Watched, Told, Waiting
  <2> QED BY <2>3, <2>4, <2>5 DEF ResultTellsTheChild
<1> QED BY Invariant, TimingHolds, <1>1, ClockedKept, InTimeKept, <1>2, PTL DEF Spec

-----------------------------------------------------------------------------
(* The watchdog advances: what is left to it only shrinks.                 *)

\* What is left to the watchdog, place by place.
LEMMA Measure ==
    ASSUME Watched, Timing
    PROVE  /\ StepsLeft \in Nat
           /\ at = "spawn" => StepsLeft = 3 * Timeout + 3 * Grace + 5
           /\ at = "poll" =>
                  StepsLeft = 3 * left + (IF nap = 0 THEN 2 ELSE 0) + 3 * Grace + 2
           /\ at = "deadline" => StepsLeft = 3 * left + 1 + 3 * Grace + 2
           /\ at = "reap" => StepsLeft = 3 * left + (IF nap = 0 THEN 2 ELSE 0)
           /\ at = "returned" => StepsLeft = 0
<1> USE TimeAssumption DEF TimeAssumption, Watched, Timing, StepsLeft
<1>1. CASE at = "spawn" BY <1>1
<1>2. CASE at = "poll" BY <1>2
<1>3. CASE at = "deadline" BY <1>3
<1>4. CASE at = "reap" BY <1>4
<1>5. CASE at = "returned" BY <1>5
<1> QED BY <1>1, <1>2, <1>3, <1>4, <1>5

\* The same after a step.
LEMMA MeasureNext ==
    ASSUME Watched', Timing'
    PROVE  /\ StepsLeft' \in Nat
           /\ at' = "poll" =>
                  StepsLeft' = 3 * left' + (IF nap' = 0 THEN 2 ELSE 0) + 3 * Grace + 2
           /\ at' = "deadline" => StepsLeft' = 3 * left' + 1 + 3 * Grace + 2
           /\ at' = "reap" => StepsLeft' = 3 * left' + (IF nap' = 0 THEN 2 ELSE 0)
           /\ at' = "returned" => StepsLeft' = 0
<1> USE TimeAssumption DEF TimeAssumption, Watched, Timing, StepsLeft
<1>1. CASE at' = "spawn" BY <1>1
<1>2. CASE at' = "poll" BY <1>2
<1>3. CASE at' = "deadline" BY <1>3
<1>4. CASE at' = "reap" BY <1>4
<1>5. CASE at' = "returned" BY <1>5
<1> QED BY <1>1, <1>2, <1>3, <1>4, <1>5

\* Every step but the child's exit leaves fewer to come.
LEMMA StepAdvances ==
    ASSUME Watched, Timing, Watched', Timing', at # "returned", Next, ~ Exit
    PROVE  StepsLeft' < StepsLeft
<1> USE TimeAssumption, Measure, MeasureNext DEF TimeAssumption, Timing
<1>1. CASE Tick
  <2>1. at \in {"poll", "deadline", "reap"} BY <1>1 DEF Tick, Watched
  <2> QED BY <1>1, <2>1 DEF Tick, Less
<1>2. CASE at' = "returned"
  <2>1. StepsLeft' = 0 BY <1>2
  <2>2. at \in {"spawn", "poll", "deadline", "reap"} BY DEF Watched
  <2>3. StepsLeft > 0
    <3>1. CASE at = "spawn" BY <3>1
    <3>2. CASE at = "poll" BY <3>2
    <3>3. CASE at = "deadline" BY <3>3
    <3>4. CASE at = "reap" BY <3>4
    <3> QED BY <2>2, <3>1, <3>2, <3>3, <3>4
  <2> QED BY <2>1, <2>3
<1>3. CASE Spawn /\ at' # "returned"
  <2>1. at = "spawn" /\ at' = "poll" /\ left' = Timeout /\ nap' = nap
    BY <1>3 DEF Spawn, Return
  <2> QED BY <2>1
<1>4. CASE Poll /\ at' # "returned"
  <2>1. at = "poll" /\ at' = "deadline" /\ left' = left /\ nap = 0
    BY <1>4 DEF Poll, Return
  <2> QED BY <2>1
<1>5. CASE Wait BY <1>5 DEF Wait
<1>6. CASE Kill /\ at' # "returned"
  <2>1. at = "deadline" /\ at' = "reap" /\ left = 0 /\ left' = Grace /\ nap' = nap
    BY <1>6 DEF Kill, Return
  <2> QED BY <2>1
<1>7. CASE Reap /\ at' # "returned"
  <2>1. at = "reap" /\ at' = "reap" /\ left' = left /\ nap = 0 /\ nap' = 1
    BY <1>7 DEF Reap, Return
  <2> QED BY <2>1
<1> QED BY <1>1, <1>2, <1>3, <1>4, <1>5, <1>6, <1>7 DEF Next

\* The watchdog never waits again for what it waited for, for every timeout and
\* grace period: with the clock running and the watchdog scheduled, nothing the
\* child does keeps it from returning (run_bounded_hardware_child).
THEOREM WatchdogComesToItsEnd == Spec => WatchdogAdvances
<1>1. ASSUME Watched, Timing, Watched', Timing', at # "returned", [Next]_vars,
             vars' # vars
      PROVE  IF Exit THEN StepsLeft' = StepsLeft
                     ELSE StepsLeft' \in Nat /\ StepsLeft' < StepsLeft
  <2>1. CASE Exit BY <1>1, <2>1 DEF Exit, StepsLeft
  <2>2. CASE ~ Exit BY <1>1, <2>2, StepAdvances, MeasureNext
  <2> QED BY <2>1, <2>2
<1>2. (Watched /\ Timing) /\ (Watched /\ Timing)' /\ [Next]_vars =>
          [at # "returned" => IF Exit THEN StepsLeft' = StepsLeft
                              ELSE StepsLeft' \in Nat /\ StepsLeft' < StepsLeft]_vars
  BY <1>1
<1> QED BY TimingHolds, <1>2, PTL DEF Spec, WatchdogAdvances

=============================================================================
