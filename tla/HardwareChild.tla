--------------------------- MODULE HardwareChild ----------------------------
(***************************************************************************)
(* xtask's run_bounded_hardware_child: a hardware test runs in a child     *)
(* process under a watchdog, which polls it, kills it at a deadline and    *)
(* then polls again, for a grace period, until it is reaped.               *)
(*                                                                         *)
(* The child does what it likes: it may exit at any moment, between a poll *)
(* and the kill included, or hang in a driver and outlive the kill.  The   *)
(* operating system may refuse to say how it is or to kill it.             *)
(***************************************************************************)
EXTENDS Naturals

CONSTANTS
    Timeout,  \* HARDWARE_SMOKE_PROCESS_TIMEOUT, in ticks of the clock
    Grace     \* HARDWARE_SMOKE_REAP_GRACE

ASSUME TimeAssumption == Timeout \in Nat \ {0} /\ Grace \in Nat \ {0}

VARIABLES
    child,   \* "none", "running", "zombie" (exited, not collected) or "reaped"
    code,    \* how it ended: "none", "success", "failure" or "killed"
    killed,  \* a kill was delivered
    left,    \* ticks to the deadline the watchdog waits for
    nap,     \* ticks the watchdog still sleeps
    at,      \* where the watchdog is
    result,  \* what it returned
    elapsed  \* history: ticks from the spawn to the return, up to Timeout + Grace

vars == <<child, code, killed, left, nap, at, result, elapsed>>

Init ==
    /\ child = "none" /\ code = "none" /\ killed = FALSE
    /\ left = 0 /\ nap = 0
    /\ at = "spawn" /\ result = "none"
    /\ elapsed = 0

-----------------------------------------------------------------------------
(* The child and the clock.                                                *)

Exit ==
    /\ child = "running"
    /\ child' = "zombie"
    /\ code' \in {"success", "failure"} \cup (IF killed THEN {"killed"} ELSE {})
    /\ UNCHANGED <<killed, left, nap, at, result, elapsed>>

Less(n) == IF n = 0 THEN 0 ELSE n - 1

Tick ==
    /\ left > 0 \/ nap > 0
    /\ left' = Less(left) /\ nap' = Less(nap)
    /\ elapsed' = IF at = "returned" \/ elapsed = Timeout + Grace THEN elapsed
                  ELSE elapsed + 1
    /\ UNCHANGED <<child, code, killed, at, result>>

-----------------------------------------------------------------------------
(* The watchdog.                                                           *)

Return(r) == at' = "returned" /\ result' = r

Spawn ==
    /\ at = "spawn"
    /\ \/ /\ child' = "running" /\ left' = Timeout /\ at' = "poll"
          /\ UNCHANGED result
       \/ Return("spawn failed") /\ UNCHANGED <<child, left>>
    /\ UNCHANGED <<code, killed, nap, elapsed>>

\* try_wait of a child that has exited collects it.
Collected == child = "zombie" /\ child' = "reaped"

StatusError == UNCHANGED child

\* The poll before the deadline: a child that exited decides the result.
Poll ==
    /\ at = "poll" /\ nap = 0
    /\ \/ Collected /\ Return(IF code = "success" THEN "success" ELSE "unsuccessful")
       \/ child = "running" /\ at' = "deadline" /\ UNCHANGED <<child, result>>
       \/ StatusError /\ Return("status failed")
    /\ UNCHANGED <<code, killed, left, nap, elapsed>>

\* Before the deadline the watchdog sleeps and polls again.
Wait ==
    /\ at = "deadline" /\ left > 0
    /\ at' = "poll" /\ nap' = 1
    /\ UNCHANGED <<child, code, killed, left, result, elapsed>>

\* Mutant: the deadline is tested off by one tick.
KillEarly ==
    /\ at = "deadline" /\ left <= 1
    /\ \/ /\ killed' = TRUE /\ left' = Grace /\ at' = "reap"
          /\ UNCHANGED result
       \/ child = "running" /\ Return("not terminated") /\ UNCHANGED <<killed, left>>
    /\ UNCHANGED <<child, code, nap, elapsed>>

\* At the deadline it kills the child, whatever that has done since the poll;
\* killing one that has exited succeeds.
Kill ==
    /\ at = "deadline" /\ left = 0
    /\ \/ /\ killed' = TRUE /\ left' = Grace /\ at' = "reap"
          /\ UNCHANGED result
       \/ child = "running" /\ Return("not terminated") /\ UNCHANGED <<killed, left>>
    /\ UNCHANGED <<child, code, nap, elapsed>>

\* Mutant: the killed child is waited for without a deadline.
ReapUnbounded ==
    /\ at = "reap" /\ nap = 0
    /\ \/ Collected /\ Return("terminated") /\ UNCHANGED nap
       \/ child = "running" /\ nap' = 1 /\ UNCHANGED <<child, at, result>>
       \/ StatusError /\ Return("reap failed") /\ UNCHANGED nap
    /\ UNCHANGED <<code, killed, left, elapsed>>

\* The poll after the kill: reaped, asleep for the grace period, or given up.
Reap ==
    /\ at = "reap" /\ nap = 0
    /\ \/ Collected /\ Return("terminated") /\ UNCHANGED nap
       \/ child = "running" /\ left > 0 /\ nap' = 1 /\ UNCHANGED <<child, at, result>>
       \/ child = "running" /\ left = 0 /\ Return("not reaped") /\ UNCHANGED <<child, nap>>
       \/ StatusError /\ Return("reap failed") /\ UNCHANGED nap
    /\ UNCHANGED <<code, killed, left, elapsed>>

Watchdog == Spawn \/ Poll \/ Wait \/ Kill \/ Reap

Next == Exit \/ Tick \/ Spawn \/ Poll \/ Wait \/ Kill \/ Reap

\* Time passes and the watchdog runs; nothing is assumed of the child.
Spec == Init /\ [][Next]_vars /\ WF_vars(Tick) /\ WF_vars(Watchdog)

-----------------------------------------------------------------------------
(* Properties.                                                             *)

\* The result tells what became of the child: a success is its own, of a child
\* that was not killed; a child reported as exited or as terminated has been
\* collected; one that was killed, or could not be, had its whole time; and one is
\* left behind only with a report that says so, if it outlived its kill after the
\* whole grace period too.
ResultTellsTheChild ==
    /\ result = "success" => code = "success" /\ ~ killed
    /\ result \in {"success", "unsuccessful", "terminated"} => child = "reaped"
    /\ result \in {"terminated", "not reaped", "reap failed"} <=> killed /\ at = "returned"
    /\ at = "returned" /\ child \in {"running", "zombie"} =>
           result \in {"status failed", "not terminated", "not reaped", "reap failed"}
    /\ killed \/ result = "not terminated" => elapsed >= Timeout
    /\ result = "not reaped" => elapsed >= Timeout + Grace

\* How many steps of the clock and of the watchdog may still come before it
\* returns: while it waits, three for a tick of the time left, the nap, the poll
\* and the test of the deadline; and those of the grace period, until it kills.
StepsLeft ==
    LET Awake == IF nap = 0 THEN 2 ELSE 0 IN
    CASE at = "spawn"    -> 3 * Timeout + 3 * Grace + 5
      [] at = "poll"     -> 3 * left + Awake + 3 * Grace + 2
      [] at = "deadline" -> 3 * left + 1 + 3 * Grace + 2
      [] at = "reap"     -> 3 * left + Awake
      [] OTHER           -> 0

\* The watchdog never waits again for what it waited for before: until it
\* returns, every step of the clock and every step of its own leaves fewer of
\* them to come, and the child's exit takes none back.  So it returns within
\* its two deadlines, whatever the child does.
WatchdogAdvances ==
    [][at # "returned" => IF Exit THEN StepsLeft' = StepsLeft
                                  ELSE StepsLeft' \in Nat /\ StepsLeft' < StepsLeft]_vars

\* The watchdog returns, even if the child neither exits nor dies.
WatchdogReturns == <>(at = "returned")

=============================================================================
