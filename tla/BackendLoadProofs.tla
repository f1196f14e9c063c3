------------------------- MODULE BackendLoadProofs -------------------------
(***************************************************************************)
(* The safety of BackendLoad for any number of threads, backends, files    *)
(* and candidates: type correctness, the inductive invariant IInv, the     *)
(* safety properties that follow from it, and the refinement of the        *)
(* one-shot contract.                                                      *)
(***************************************************************************)
EXTENDS BackendLoad, TLAPS

\* A default load that was asked for more than layer l is inside the closure
\* of the layer above when it is at l or below.
InsideApi(t) ==
    pc[t] \in {"slot", "open"} /\ Nested(call[t]) /\ call[t].want # "slot"
InsideCore(t) ==
    /\ pc[t] \in {"api", "slot", "open", "build"}
    /\ Nested(call[t])
    /\ call[t].want \in {"core", "driver"}

\* Each call only visits the places its request needs.
Route(t) ==
    LET c == call[t] IN
    /\ pc[t] = "idle" <=> c = NoCall
    /\ pc[t] # "idle" => answer[t] = NoAnswer
    /\ pc[t] = "check" => Explicit(c)
    /\ pc[t] \in {"api", "build"} => c.want # "slot"
    /\ pc[t] \in {"core", "validate"} => c.want \in {"core", "driver"}
    /\ pc[t] = "init" => c.want = "driver"

\* A closure is run by the thread that holds its cell, which is still empty.
Holds(t) ==
    /\ pc[t] = "open" => holder["slot"][call[t].backend] = t
    /\ pc[t] = "build" \/ InsideApi(t) => holder["api"][call[t].backend] = t
    /\ pc[t] = "validate" \/ InsideCore(t) => holder["core"][call[t].backend] = t

\* And a held cell is held by a thread in that closure.
Held(t, b) ==
    /\ holder["slot"][b] = t => pc[t] = "open"
    /\ holder["api"][b] = t => pc[t] = "build" \/ InsideApi(t)
    /\ holder["core"][b] = t => pc[t] = "validate" \/ InsideCore(t)
    /\ \A l \in Layers : holder[l][b] = t =>
           call[t] # NoCall /\ call[t].backend = b /\ value[l][b] = Unset

\* What a thread has already found below the place it is at.
Behind(t) ==
    LET c == call[t]
        lib == value["slot"][c.backend]
        api == value["api"][c.backend]
    IN
    /\ pc[t] = "build" => lib # Unset
    /\ pc[t] = "validate" => api # Unset
    /\ pc[t] \in {"api", "build", "core", "validate"} /\ ~Nested(c) =>
           lib # Unset /\ Ok(lib) /\ Accepted(c, lib)
    /\ pc[t] \in {"core", "validate"} /\ ~Nested(c) => api # Unset /\ Ok(api)
    /\ pc[t] = "init" => /\ value["core"][c.backend] # Unset
                         /\ Ok(value["core"][c.backend])
                         /\ lib # Unset /\ Ok(lib) /\ Accepted(c, lib)

\* The failures collected so far are the first candidates, in order.
Tried(t) ==
    /\ attempts[t] # <<>> => pc[t] = "open"
    /\ pc[t] = "open" =>
           /\ Len(attempts[t]) <= Len(Candidates[call[t].backend])
           /\ \A i \in 1 .. Len(attempts[t]) :
                  attempts[t][i] = Candidates[call[t].backend][i]

\* Every kept value is one the contract allows over the value below it.
Facts(b) ==
    /\ value["slot"][b] # Unset => value["slot"][b] \in Contract!LibraryOutcomes(b)
    /\ value["api"][b] # Unset =>
           /\ value["slot"][b] # Unset
           /\ value["api"][b] \in Judge(value["slot"][b], "BadApi")
    /\ value["core"][b] # Unset =>
           /\ value["api"][b] # Unset
           /\ value["core"][b] \in Judge(value["api"][b], "MissingCore")

\* Every answer given still follows from the facts.
Answered(t) ==
    answer[t] # NoAnswer => answer[t].result \in Contract!Answers(answer[t].call)

IInv ==
    /\ TypeOK
    /\ \A t \in Threads : Route(t) /\ Holds(t) /\ Behind(t) /\ Tried(t) /\ Answered(t)
    /\ \A t \in Threads, b \in Backends : Held(t, b)
    /\ \A b \in Backends : Facts(b)

-----------------------------------------------------------------------------
(* Results.                                                                *)

\* What the constructors of results build, and which of them are good.
LEMMA ResultKinds ==
    /\ \A p \in Paths : /\ Loaded(p) \in Results
                        /\ Ok(Loaded(p))
                        /\ Loaded(p).path = p
    /\ \A e \in KeptErrors \cup CallErrors : Failed(e) \in Results
    /\ \A s \in Seq(Names \cup Paths) : /\ Unopened(s) \in Results
                                        /\ ~Ok(Unopened(s))
    /\ \A r \in Results, e \in KeptErrors \cup CallErrors :
           /\ Faulty(r, e) \in Results
           /\ Faulty(r, e).path = r.path
           /\ Faulty(r, e).error = e
BY DEF Results, Loaded, Failed, Unopened, Faulty, Ok, KeptErrors, CallErrors

\* A judged value speaks of the same library, and a failure below is passed on.
LEMMA JudgeKinds ==
    ASSUME NEW r \in Results, NEW e \in {"BadApi", "MissingCore"},
           NEW s \in Judge(r, e)
    PROVE  /\ s \in Results
           /\ s.path = r.path
           /\ ~Ok(r) => s = r
           /\ Ok(r) => s.error \in {"None", e}
BY ResultKinds DEF Judge, Ok, KeptErrors, CallErrors

\* The path an explicit load is checked against is a path.
LEMMA CanonicalPath == \A f \in Files : Canonical(f) \in Paths
BY DEF Canonical, Paths, Spellings

\* What a default open reports is a path.
LEMMA DefaultPath == DefaultPaths \subseteq Paths
BY LoadAssumption DEF DefaultPaths, Paths

-----------------------------------------------------------------------------
(* What a step leaves alone.                                               *)

\* A kept value stays.
Grows == \A l \in Layers, b \in Backends :
             value[l][b] # Unset => value'[l][b] = value[l][b]

\* A thread the step is not about.
Bystander(u) ==
    /\ pc'[u] = pc[u]
    /\ call'[u] = call[u]
    /\ attempts'[u] = attempts[u]
    /\ answer'[u] = answer[u]
    /\ \A l \in Layers, b \in Backends :
           /\ holder'[l][b] = u <=> holder[l][b] = u
           /\ holder[l][b] = u => value'[l][b] = value[l][b]

\* The parts of the call a busy thread is in.
LEMMA CallTypes ==
    ASSUME TypeOK, NEW t \in Threads, call[t] # NoCall
    PROVE  /\ call[t] \in Calls
           /\ call[t] \in Requests
           /\ call[t].backend \in Backends
           /\ call[t].want \in Wants
           /\ call[t].file \in Files \cup {Default}
BY LoadAssumption DEF TypeOK, Requests

\* A thread the step is not about keeps its part of the invariant, as long as
\* kept values only grow.
LEMMA BystanderKeeps ==
    ASSUME IInv, Grows, NEW u \in Threads, Bystander(u)
    PROVE  /\ Route(u)' /\ Holds(u)' /\ Behind(u)' /\ Tried(u)'
           /\ \A b \in Backends : Held(u, b)'
<1>1. Route(u) /\ Holds(u) /\ Behind(u) /\ Tried(u)
  BY DEF IInv
<1>2. Route(u)' /\ Tried(u)'
  BY <1>1 DEF Bystander, Route, Tried
<1>3. CASE call[u] = NoCall
  <2>1. pc[u] = "idle"
    BY <1>1, <1>3 DEF Route
  <2>2. Holds(u)' /\ Behind(u)'
    BY <2>1 DEF Bystander, Holds, Behind, InsideApi, InsideCore
  <2>3. \A x \in Backends : Held(u, x)'
    BY DEF IInv, Bystander, Held, InsideApi, InsideCore, Layers
  <2> QED BY <1>2, <2>2, <2>3
<1>4. CASE call[u] # NoCall
  <2> DEFINE b == call[u].backend
  <2>1. b \in Backends
    BY <1>4, CallTypes DEF IInv
  <2>2. Holds(u)'
    BY <1>1, <2>1 DEF Bystander, Holds, InsideApi, InsideCore, Layers
  <2>3. Behind(u)'
    BY <1>1, <2>1 DEF Bystander, Behind, Grows, Layers
  <2>4. \A x \in Backends : Held(u, x)'
    BY DEF IInv, Bystander, Held, InsideApi, InsideCore, Layers
  <2> QED BY <1>2, <2>2, <2>3, <2>4
<1> QED BY <1>3, <1>4

\* Answers only become possible: what followed from fewer facts still follows.
LEMMA AnswersGrow ==
    ASSUME IInv, Grows, NEW c \in Requests
    PROVE  Contract!Answers(c) \subseteq Contract!Answers(c)'
<1> DEFINE b == c.backend
<1>1. /\ b \in Backends /\ Facts(b)
      /\ Contract!Top(c) \in Layers
      /\ Contract!Needs(c) \subseteq Layers
  BY DEF IInv, Requests, Contract!Top, Contract!Needs, Contract!Layers, Layers, Wants
<1>2. \A l \in Layers : value[l][b] # Unset => value'[l][b] = value[l][b]
  BY <1>1 DEF Grows
<1>3. Contract!FailuresFor(c) \subseteq Contract!FailuresFor(c)'
  <2> SUFFICES ASSUME NEW l \in Contract!Needs(c), Contract!Decided(l, b),
                      ~Contract!Ok(value[l][b])
               PROVE  value[l][b] \in Contract!FailuresFor(c)'
    BY DEF Contract!FailuresFor
  <2> QED BY <1>1, <1>2 DEF Contract!FailuresFor, Contract!Decided, Contract!Needs, Contract!Top
<1>4. Contract!Ready(c) =>
        Contract!Ready(c)' /\ value[Contract!Top(c)][b]' = value[Contract!Top(c)][b]
  BY <1>1, <1>2 DEF Contract!Ready, Contract!Decided, Contract!Top
<1>5. CASE value["slot"][b] = Unset
  <2>1. \A l \in Layers : value[l][b] = Unset
    BY <1>1, <1>5 DEF Facts, Layers
  <2>2. ~Contract!Refused(c) /\ ~Contract!Ready(c) /\ Contract!FailuresFor(c) = {}
    BY <1>1, <2>1 DEF Contract!Refused, Contract!FailuresFor, Contract!Ready,
         Contract!Decided, Layers
  <2> QED BY <2>2 DEF Contract!Answers
<1>6. CASE value["slot"][b] # Unset
  <2>1. Contract!Refused(c)' <=> Contract!Refused(c)
    BY <1>2, <1>6 DEF Contract!Refused, Contract!Decided, Layers
  <2>2. value'["slot"][b] = value["slot"][b]
    BY <1>2, <1>6 DEF Layers
  <2> QED BY <1>3, <1>4, <2>1, <2>2 DEF Contract!Answers
<1> QED BY <1>5, <1>6

\* A step of thread t preserves IInv when it does so for t and the cells.
LEMMA StepOf ==
    ASSUME IInv, Grows, TypeOK', NEW t \in Threads,
           \A u \in Threads \ {t} : Bystander(u),
           Route(t)', Holds(t)', Behind(t)', Tried(t)', Answered(t)',
           \A b \in Backends : Held(t, b)',
           \A b \in Backends : Facts(b)'
    PROVE  IInv'
<1>1. \A u \in Threads : Route(u)' /\ Holds(u)' /\ Behind(u)' /\ Tried(u)'
  BY BystanderKeeps
<1>2. \A u \in Threads, b \in Backends : Held(u, b)'
  BY BystanderKeeps
<1>3. ASSUME NEW u \in Threads \ {t} PROVE Answered(u)'
  <2>1. answer'[u] = answer[u] /\ Answered(u)
    BY DEF Bystander, IInv
  <2>2. CASE answer[u] = NoAnswer
    BY <2>1, <2>2 DEF Answered
  <2>3. CASE answer[u] # NoAnswer
    <3>1. PICK c \in Requests : answer[u].call = c
      BY <2>3 DEF IInv, TypeOK
    <3>2. answer[u].result \in Contract!Answers(c)'
      BY <2>1, <2>3, <3>1, AnswersGrow DEF Answered
    <3> QED BY <2>1, <3>1, <3>2 DEF Answered
  <2> QED BY <2>2, <2>3
<1> QED BY <1>1, <1>2, <1>3 DEF IInv

\* The cell a closure fills, the place the closure runs at, and what it may keep.
Closing(t, l, r) ==
    LET b == call[t].backend IN
    \/ /\ l = "slot" /\ pc[t] = "open"
       /\ r \in Contract!LibraryOutcomes(b)
    \/ /\ l = "api" /\ pc[t] = "build"
       /\ r \in Judge(value["slot"][b], "BadApi")
    \/ /\ l = "core" /\ pc[t] = "validate"
       /\ r \in Judge(value["api"][b], "MissingCore")

\* The step is one of the contract's, or changes nothing the contract sees.
Simulates == Contract!Next \/ UNCHANGED <<value, answer>>

\* A call leaves no attempts behind once it has left open_candidates.
LEMMA InCall ==
    ASSUME IInv, NEW t \in Threads, pc[t] # "idle"
    PROVE  /\ TypeOK /\ Route(t) /\ Holds(t) /\ Behind(t)
           /\ \A b \in Backends : Facts(b) /\ Held(t, b)
           /\ call[t] # NoCall /\ call[t] \in Requests
           /\ call[t].backend \in Backends /\ call[t].want \in Wants
           /\ call[t].backend \in Compilers => call[t].want \in {"slot", "api"}
           /\ pc[t] # "open" => attempts[t] = <<>>
<1>1. call[t] # NoCall
  BY DEF IInv, Route
<1>2. TypeOK /\ Route(t) /\ Holds(t) /\ Behind(t) /\ Tried(t)
      /\ \A b \in Backends : Facts(b) /\ Held(t, b)
  BY DEF IInv
<1> QED BY <1>1, <1>2, CallTypes, LoadAssumption DEF Tried

\* A closure that ends well decides one fact of the contract.
LEMMA KeepDecides ==
    ASSUME IInv, NEW t \in Threads, NEW l \in Layers, NEW r \in Results,
           Closing(t, l, r), Keep(t, l, r)
    PROVE  Contract!Next
<1> DEFINE b == call[t].backend
<1>1. pc[t] \in {"open", "build", "validate"} /\ pc[t] # "idle"
  BY DEF Closing
<1>2. Holds(t) /\ b \in Backends /\ Held(t, b) /\ Behind(t) /\ TypeOK
  BY <1>1, InCall
<1>3. value[l][b] = Unset
  BY <1>2 DEF Closing, Holds, Held
<1>4. value' = [value EXCEPT ![l][b] = r] /\ UNCHANGED answer
  BY DEF Keep
<1>5. r \in Contract!Outcomes(l, b)
  BY DEF Closing, Contract!Outcomes, Contract!Judge, Judge, Contract!Ok, Ok,
     Contract!Faulty, Faulty
<1>6. \A k \in Contract!Below(l) : value[k][b] # Unset
  BY <1>2 DEF Closing, Contract!Below, Behind
<1>7. Contract!Decide(l, b)
  BY <1>3, <1>4, <1>5, <1>6 DEF Contract!Decide, Contract!Decided
<1> QED BY <1>2, <1>7 DEF Contract!Next, Contract!Layers, Layers

\* A call that returns what the contract allows is an Answer of the contract.
LEMMA ReturnAnswers ==
    ASSUME NEW t \in Threads, NEW r, Return(t, r), call[t] \in Calls,
           answer[t] = NoAnswer, r \in Contract!Answers(call[t])
    PROVE  Contract!Next
<1>1. Contract!Answer(t)
  BY DEF Return, Contract!Answer
<1> QED BY <1>1 DEF Contract!Next

\* The end of a closure (get_or_init stores and wakes): the first shape of step.
LEMMA KeepPreserves ==
    ASSUME IInv, NEW t \in Threads, NEW l \in Layers, NEW r \in Results,
           Closing(t, l, r), Keep(t, l, r)
    PROVE  IInv' /\ Simulates
<1> DEFINE b == call[t].backend
<1>1. /\ TypeOK /\ Route(t) /\ Holds(t) /\ Behind(t) /\ Tried(t) /\ Answered(t)
      /\ \A x \in Backends : Held(t, x)
  BY DEF IInv
<1>2. call[t] # NoCall
  BY <1>1 DEF Route, Closing
<1>3. b \in Backends /\ call[t] \in Requests
  BY <1>1, <1>2, CallTypes
<1>4. holder[l][b] = t /\ value[l][b] = Unset
  BY <1>1, <1>3 DEF Closing, Holds, Held
<1>5. /\ value' = [value EXCEPT ![l][b] = r]
      /\ holder' = [holder EXCEPT ![l][b] = NoThread]
      /\ attempts' = [attempts EXCEPT ![t] = <<>>]
      /\ pc' = [pc EXCEPT ![t] = l]
      /\ call' = call /\ answer' = answer
  BY DEF Keep, Goto
<1>6. TypeOK'
  BY <1>1, <1>3, <1>5 DEF TypeOK, Places
<1>7. /\ value'[l][b] = r /\ holder'[l][b] = NoThread
      /\ \A k \in Layers, x \in Backends : <<k, x>> # <<l, b>> =>
             value'[k][x] = value[k][x] /\ holder'[k][x] = holder[k][x]
  BY <1>1, <1>3, <1>5 DEF TypeOK
<1>8. Grows
  BY <1>4, <1>7 DEF Grows
<1>9. \A u \in Threads \ {t} : Bystander(u)
  BY <1>1, <1>4, <1>5, <1>7, LoadAssumption DEF Bystander, TypeOK
<1>10. \A x \in Backends : Facts(x)'
  <2> SUFFICES ASSUME NEW x \in Backends PROVE Facts(x)'
    OBVIOUS
  <2>1. Facts(x)
    BY DEF IInv
  <2>2. r # Unset
    BY LoadAssumption
  <2>3. Contract!LibraryOutcomes(x)' = Contract!LibraryOutcomes(x)
    BY DEF Contract!LibraryOutcomes
  <2>4. CASE x # b
    BY <1>7, <2>1, <2>3, <2>4 DEF Facts, Layers
  <2>5. CASE x = b
    BY <1>1, <1>4, <1>7, <2>1, <2>2, <2>3, <2>5 DEF Facts, Layers, Closing, Behind
  <2> QED BY <2>4, <2>5
<1>11. pc'[t] = l /\ call'[t] = call[t] /\ attempts'[t] = <<>> /\ answer'[t] = answer[t]
  BY <1>1, <1>5 DEF TypeOK
<1>12. Route(t)' /\ Tried(t)'
  BY <1>1, <1>11 DEF Route, Tried, Closing
<1>13. Holds(t)'
  BY <1>1, <1>3, <1>7, <1>11 DEF Holds, InsideApi, InsideCore, Closing, Layers
<1>14. \A x \in Backends : Held(t, x)'
  BY <1>1, <1>3, <1>4, <1>7, <1>11, LoadAssumption
     DEF Held, InsideApi, InsideCore, Closing, Layers
<1>15. Behind(t)'
  BY <1>1, <1>3, <1>7, <1>11 DEF Behind, Closing, Layers
<1>16. Answered(t)'
  BY <1>1, <1>8, <1>11, AnswersGrow DEF Answered, TypeOK
<1>17. Simulates
  BY KeepDecides DEF Simulates
<1> QED BY <1>6, <1>8, <1>9, <1>10, <1>12, <1>13, <1>14, <1>15, <1>16, <1>17, StepOf

\* A call returns: the second shape of step.
LEMMA ReturnPreserves ==
    ASSUME IInv, NEW t \in Threads, NEW r \in Results, Return(t, r),
           call[t] # NoCall,
           r \in Contract!Answers(call[t]),
           \A l \in Layers, b \in Backends : holder[l][b] # t
    PROVE  IInv' /\ Simulates
<1>1. TypeOK /\ call[t] \in Requests /\ (\A b \in Backends : Facts(b) /\ Held(t, b))
  BY CallTypes DEF IInv
<1>2. /\ answer' = [answer EXCEPT ![t] = [call |-> call[t], result |-> r]]
      /\ call' = [call EXCEPT ![t] = NoCall]
      /\ pc' = [pc EXCEPT ![t] = "idle"]
      /\ UNCHANGED <<value, holder, attempts>>
  BY DEF Return, Goto
<1>3. TypeOK'
  BY <1>1, <1>2 DEF TypeOK, Places
<1>4. Grows /\ (\A b \in Backends : Facts(b)')
  BY <1>1, <1>2 DEF Grows, Facts, Contract!LibraryOutcomes
<1>5. \A u \in Threads \ {t} : Bystander(u)
  BY <1>1, <1>2 DEF Bystander, TypeOK
<1>6. /\ pc'[t] = "idle" /\ call'[t] = NoCall
      /\ answer'[t] = [call |-> call[t], result |-> r]
  BY <1>1, <1>2 DEF TypeOK
<1>7. Route(t)' /\ Holds(t)' /\ Behind(t)'
  BY <1>6 DEF Route, Holds, Behind, InsideApi, InsideCore
<1>8. \A b \in Backends : Held(t, b)'
  BY <1>2 DEF Held, Layers
<1>9. Answered(t)'
  BY <1>1, <1>4, <1>6, AnswersGrow DEF Answered
<1>10. pc[t] # "open" => Tried(t)'
  BY <1>2, <1>6 DEF IInv, Tried
<1>11. pc[t] # "open"
  BY <1>1, CallTypes DEF IInv, Holds, Layers
<1>12. Simulates
  <2>1. answer[t] = NoAnswer /\ call[t] \in Calls
    BY <1>1 DEF IInv, Route, TypeOK
  <2> QED BY <2>1, ReturnAnswers DEF Simulates
<1> QED BY <1>3, <1>4, <1>5, <1>7, <1>8, <1>9, <1>10, <1>11, <1>12, StepOf

\* A thread moves on and stores nothing: the third shape of step.
LEMMA MovePreserves ==
    ASSUME IInv, NEW t \in Threads, NEW place \in Places, Goto(t, place),
           call[t] # NoCall, attempts[t] = <<>>,
           UNCHANGED <<value, holder, call, attempts, answer>>,
           Route(t)', Holds(t)', Behind(t)',
           \A b \in Backends : Held(t, b)'
    PROVE  IInv' /\ Simulates
<1>1. TypeOK /\ Answered(t) /\ (\A b \in Backends : Facts(b))
  BY DEF IInv
<1>2. TypeOK' /\ pc'[t] = place
  BY <1>1 DEF TypeOK, Goto
<1>3. Grows /\ (\A b \in Backends : Facts(b)')
  BY <1>1 DEF Grows, Facts, Contract!LibraryOutcomes
<1>4. \A u \in Threads \ {t} : Bystander(u)
  BY <1>1 DEF Bystander, TypeOK, Goto
<1>5. Tried(t)'
  <2>1. Len(attempts[t]) = 0 /\ Candidates \in [Backends -> Seq(Names)]
    BY LoadAssumption
  <2>2. call[t].backend \in Backends
    BY <1>1, CallTypes
  <2> QED BY <2>1, <2>2 DEF Tried
<1>6. Answered(t)'
  BY <1>1, <1>3, AnswersGrow DEF Answered, TypeOK
<1>7. Simulates
  BY DEF Simulates
<1> QED BY <1>2, <1>3, <1>4, <1>5, <1>6, <1>7, StepOf

-----------------------------------------------------------------------------
(* One lemma per action.                                                   *)

\* A call begins at its first cell, or at its path check.
LEMMA StartPreserves == ASSUME IInv, NEW t \in Threads, Start(t) PROVE IInv' /\ Simulates
<1>1. PICK c \in Calls :
        /\ call' = [call EXCEPT ![t] = c]
        /\ pc' = [pc EXCEPT ![t] = IF Explicit(c) THEN "check" ELSE FirstCell(c)]
  BY DEF Start, Goto
<1>2. /\ answer' = [answer EXCEPT ![t] = NoAnswer]
      /\ UNCHANGED <<value, holder, attempts>> /\ pc[t] = "idle"
  BY DEF Start
<1>3. TypeOK /\ (\A b \in Backends : Facts(b) /\ Held(t, b)) /\ Tried(t)
  BY DEF IInv
<1>4. c \in Requests /\ c # NoCall /\ c.want \in Wants
      /\ (c.backend \in Compilers => c.want \in {"slot", "api"})
  BY LoadAssumption DEF Requests
<1>5. pc'[t] = (IF Explicit(c) THEN "check" ELSE FirstCell(c))
      /\ call'[t] = c /\ answer'[t] = NoAnswer /\ attempts'[t] = <<>>
  BY <1>1, <1>2, <1>3 DEF TypeOK, Tried
<1>6. TypeOK'
  BY <1>1, <1>2, <1>3, <1>4 DEF TypeOK, Places, FirstCell, Layers, Wants
<1>7. Grows /\ (\A b \in Backends : Facts(b)')
  BY <1>2, <1>3 DEF Grows, Facts, Contract!LibraryOutcomes
<1>8. \A u \in Threads \ {t} : Bystander(u)
  BY <1>1, <1>2, <1>3 DEF Bystander, TypeOK
<1>9. \A l \in Layers, b \in Backends : holder'[l][b] # t
  BY <1>2, <1>3 DEF Held, InsideApi, InsideCore, Layers
<1>10. Route(t)' /\ Answered(t)' /\ Tried(t)'
  BY <1>4, <1>5 DEF Route, Answered, Tried, FirstCell, Nested, Wants, Layers
<1>11. Holds(t)' /\ Behind(t)' /\ (\A b \in Backends : Held(t, b)')
  BY <1>4, <1>5, <1>9
     DEF Holds, Behind, Held, InsideApi, InsideCore, FirstCell, Nested, Wants, Layers
<1>12. Simulates
  BY <1>2 DEF Simulates, Contract!Next, Contract!Ask
<1> QED BY <1>6, <1>7, <1>8, <1>10, <1>11, <1>12, StepOf

\* An explicit path is refused before any cell is touched.
LEMMA RejectPathPreserves ==
    ASSUME IInv, NEW t \in Threads, RejectPath(t) PROVE IInv' /\ Simulates
<1>1. pc[t] = "check" /\ Return(t, Failed("InvalidExplicitPath"))
  BY DEF RejectPath
<1>2. Failed("InvalidExplicitPath") \in Results
  BY ResultKinds DEF CallErrors
<1>3. Explicit(call[t]) /\ call[t] # NoCall
  BY <1>1, InCall DEF Route
<1>4. Failed("InvalidExplicitPath") \in Contract!Answers(call[t])
  BY <1>3 DEF Contract!Answers, Contract!Failed, Failed, Contract!Explicit, Explicit
<1>5. \A l \in Layers, b \in Backends : holder[l][b] # t
  BY <1>1, InCall DEF Held, InsideApi, InsideCore, Layers
<1> QED BY <1>1, <1>2, <1>3, <1>4, <1>5, ReturnPreserves

\* An explicit path is canonical; the loader slot is next.
LEMMA AcceptPathPreserves ==
    ASSUME IInv, NEW t \in Threads, AcceptPath(t) PROVE IInv' /\ Simulates
<1>1. /\ pc[t] = "check" /\ Goto(t, "slot")
      /\ UNCHANGED <<value, holder, call, attempts, answer>>
  BY DEF AcceptPath
<1>2. /\ pc'[t] = "slot" /\ Explicit(call[t]) /\ call[t] # NoCall
      /\ attempts[t] = <<>> /\ answer[t] = NoAnswer
  BY <1>1, InCall DEF Goto, TypeOK, Route
<1>3. \A l \in Layers, b \in Backends : holder[l][b] # t
  BY <1>1, InCall DEF Held, InsideApi, InsideCore, Layers
<1>4. Route(t)' /\ Holds(t)' /\ Behind(t)' /\ (\A b \in Backends : Held(t, b)')
  BY <1>1, <1>2, <1>3
     DEF Route, Holds, Behind, Held, InsideApi, InsideCore, Nested, Layers
<1>5. "slot" \in Places
  BY DEF Places, Layers
<1> QED BY <1>1, <1>2, <1>4, <1>5, MovePreserves

\* A thread takes an empty cell and enters its closure.
LEMMA EnterPreserves ==
    ASSUME IInv, NEW t \in Threads, NEW l \in Layers, Enter(t, l) PROVE IInv' /\ Simulates
<1> DEFINE b == call[t].backend
           place == Closure(l, call[t])
<1>1. pc[t] = l /\ value[l][b] = Unset /\ holder[l][b] = NoThread
  BY DEF Enter, Cell
<1>2. /\ holder' = [holder EXCEPT ![l][b] = t]
      /\ pc' = [pc EXCEPT ![t] = place]
      /\ UNCHANGED <<value, call, attempts, answer>>
  BY DEF Enter, Goto
<1>3. /\ TypeOK /\ Route(t) /\ Holds(t) /\ Behind(t) /\ Answered(t)
      /\ \A x \in Backends : Facts(x) /\ Held(t, x)
      /\ call[t] # NoCall /\ call[t] \in Requests
      /\ b \in Backends /\ call[t].want \in Wants
      /\ b \in Compilers => call[t].want \in {"slot", "api"}
      /\ attempts[t] = <<>>
  BY <1>1, InCall DEF IInv, Layers
<1>4. place \in Places
  BY DEF Closure, Places, Layers
<1>5. TypeOK' /\ pc'[t] = place
  BY <1>2, <1>3, <1>4 DEF TypeOK
<1>6. /\ holder'[l][b] = t
      /\ \A k \in Layers, x \in Backends :
             <<k, x>> # <<l, b>> => holder'[k][x] = holder[k][x]
  BY <1>2, <1>3 DEF TypeOK
<1>7. Grows /\ (\A x \in Backends : Facts(x)')
  BY <1>2, <1>3 DEF Grows, Facts, Contract!LibraryOutcomes
<1>8. \A u \in Threads \ {t} : Bystander(u)
  BY <1>1, <1>2, <1>3, <1>6, LoadAssumption DEF Bystander, TypeOK
<1>9. Route(t)' /\ Behind(t)'
  BY <1>1, <1>2, <1>3, <1>5 DEF Route, Behind, Closure, Nested, Layers
<1>10. Tried(t)'
  <2>1. Candidates[b] \in Seq(Names) /\ Len(attempts[t]) = 0
    BY <1>3, LoadAssumption
  <2> QED BY <1>2, <1>3, <2>1 DEF Tried
<1>11. Holds(t)'
  BY <1>1, <1>2, <1>3, <1>5, <1>6 DEF Holds, InsideApi, InsideCore, Closure, Nested, Layers
<1>12. \A x \in Backends : Held(t, x)'
  BY <1>1, <1>2, <1>3, <1>5, <1>6
     DEF Held, InsideApi, InsideCore, Closure, Route, Nested, Layers
<1>13. Answered(t)'
  BY <1>2, <1>3, <1>7, AnswersGrow DEF Answered, TypeOK
<1>14. Simulates
  BY <1>2 DEF Simulates
<1> QED BY <1>5, <1>7, <1>8, <1>9, <1>10, <1>11, <1>12, <1>13, <1>14, StepOf

\* The layers an answer is taken from are those the contract names.
LEMMA KnownAnswers ==
    ASSUME IInv, NEW c \in Requests,
           NEW l \in Layers, value[l][c.backend] # Unset
    PROVE  /\ ~Ok(value[l][c.backend]) /\ ~Contract!Refused(c)
              /\ (l = "api" => c.want # "slot")
              /\ (l = "core" => c.want \in {"core", "driver"})
              => value[l][c.backend] \in Contract!Answers(c)
           /\ Ok(value[l][c.backend]) /\ ~Contract!Refused(c) /\ l = c.want
              => value[l][c.backend] \in Contract!Answers(c)
           /\ Ok(value[l][c.backend]) /\ ~Contract!Refused(c)
              /\ l = "core" /\ c.want = "driver"
              => {value[l][c.backend], Faulty(value[l][c.backend], "InitFailed")}
                     \subseteq Contract!Answers(c)
<1> DEFINE r == value[l][c.backend]
<1>1. c.want \in Wants /\ c.backend \in Backends
  BY DEF Requests
<1>2. ASSUME ~Ok(r), ~Contract!Refused(c), l = "api" => c.want # "slot",
             l = "core" => c.want \in {"core", "driver"}
      PROVE  r \in Contract!Answers(c)
  <2>1. l \in Contract!Needs(c)
    BY <1>1, <1>2 DEF Contract!Needs, Contract!Top, Contract!Layers, Layers, Wants
  <2>2. r \in Contract!FailuresFor(c)
    BY <1>2, <2>1 DEF Contract!FailuresFor, Contract!Decided, Contract!Ok, Ok
  <2> QED BY <1>2, <2>2 DEF Contract!Answers
<1>3. ASSUME Ok(r), ~Contract!Refused(c), l = Contract!Top(c)
      PROVE  /\ r \in Contract!Answers(c)
             /\ c.want = "driver" => Faulty(r, "InitFailed") \in Contract!Answers(c)
  <2>1. Contract!Ready(c)
    BY <1>3 DEF Contract!Ready, Contract!Decided, Contract!Ok, Ok
  <2> QED BY <1>3, <2>1 DEF Contract!Answers, Contract!Faulty, Faulty
<1> QED BY <1>1, <1>2, <1>3 DEF Contract!Top, Layers

\* A thread that is not inside a closure holds nothing while it looks at a cell.
LEMMA LooksFreely ==
    ASSUME IInv, NEW t \in Threads, NEW l \in Layers, pc[t] = l,
           ~AsksFrom(t, l)
    PROVE  \A k \in Layers, b \in Backends : holder[k][b] # t
<1>1. pc[t] # "idle"
  BY DEF Layers
<1> QED BY <1>1, InCall DEF Held, InsideApi, InsideCore, AsksFrom, Layers, Route, Wants

\* An explicit call that was let past the slot is not one the contract refuses.
LEMMA NotRefused ==
    ASSUME IInv, NEW t \in Threads, pc[t] \in {"api", "core", "init"}
    PROVE  ~Contract!Refused(call[t])
<1>1. pc[t] # "idle"
  OBVIOUS
<1> QED BY <1>1, InCall DEF Behind, Nested, Accepted, Contract!Refused,
     Contract!Explicit, Explicit, Contract!Canonical, Canonical

\* A stored error is handed out, or becomes the failure of the closure above.
LEMMA FoundErrorPreserves ==
    ASSUME IInv, NEW t \in Threads, NEW l \in Layers, FoundError(t, l) PROVE IInv' /\ Simulates
<1> DEFINE c == call[t]
           r == value[l][c.backend]
<1>1. pc[t] = l /\ r # Unset /\ ~Ok(r) /\ pc[t] # "idle" /\ pc[t] # "open"
  BY DEF FoundError, Cell, Layers
<1>2. /\ TypeOK /\ Route(t) /\ Holds(t) /\ Behind(t)
      /\ \A x \in Backends : Held(t, x) /\ Facts(x)
      /\ c # NoCall /\ c \in Requests /\ c.backend \in Backends /\ c.want \in Wants
      /\ attempts[t] = <<>>
  BY <1>1, InCall
<1>3. CASE AsksFrom(t, l)
  <2>1. /\ Goto(t, Onward(l, c))
        /\ UNCHANGED <<value, holder, call, attempts, answer>>
    BY <1>3 DEF FoundError
  <2>2. Nested(c) /\ Onward(l, c) = (IF l = "slot" THEN "build" ELSE "validate")
        /\ l \in {"slot", "api"}
    BY <1>3, <1>2 DEF AsksFrom, Onward, Wants
  <2>3. pc'[t] = Onward(l, c) /\ Onward(l, c) \in Places
    BY <1>2, <2>1, <2>2 DEF Goto, TypeOK, Places
  <2>4. Route(t)' /\ Holds(t)' /\ Behind(t)' /\ (\A x \in Backends : Held(t, x)')
    BY <1>1, <1>2, <1>3, <2>1, <2>2, <2>3
       DEF Route, Holds, Behind, Held, InsideApi, InsideCore, AsksFrom, Layers
  <2> QED BY <1>2, <2>1, <2>3, <2>4, MovePreserves
<1>4. CASE ~AsksFrom(t, l)
  <2>1. Return(t, r)
    BY <1>4 DEF FoundError, Cell
  <2>2. ~Contract!Refused(c)
    <3>1. CASE l = "slot"
      BY <1>1, <3>1 DEF Contract!Refused, Contract!Ok, Ok
    <3>2. CASE l # "slot"
      BY <1>1, <3>2, NotRefused DEF Layers
    <3> QED BY <3>1, <3>2
  <2>3. r \in Contract!Answers(c)
    BY <1>1, <1>2, <2>2, KnownAnswers DEF Route, Layers
  <2>4. r \in Results
    BY <1>1, <1>2 DEF TypeOK
  <2> QED BY <1>1, <1>2, <1>4, <2>1, <2>3, <2>4, LooksFreely, ReturnPreserves
<1> QED BY <1>3, <1>4

\* An explicit call finds another library in the slot.
LEMMA FoundOtherPreserves ==
    ASSUME IInv, NEW t \in Threads, FoundOther(t) PROVE IInv' /\ Simulates
<1> DEFINE c == call[t]
           lib == value["slot"][c.backend]
<1>1. /\ pc[t] = "slot" /\ lib # Unset /\ Ok(lib) /\ ~Accepted(c, lib)
      /\ Return(t, Faulty(lib, "AlreadyInitialized"))
  BY DEF FoundOther, Cell
<1>2. TypeOK /\ c # NoCall /\ c \in Requests /\ c.backend \in Backends
  BY <1>1, InCall
<1>3. lib \in Results
  BY <1>1, <1>2 DEF TypeOK, Layers
<1>4. Faulty(lib, "AlreadyInitialized") \in Results
  BY <1>3, ResultKinds DEF CallErrors
<1>5. Faulty(lib, "AlreadyInitialized") \in Contract!Answers(c)
  BY <1>1 DEF Contract!Answers, Contract!Refused, Contract!Decided, Contract!Ok, Ok,
     Accepted, Contract!Explicit, Explicit, Contract!Canonical, Canonical,
     Contract!Faulty, Faulty
<1>6. ~AsksFrom(t, "slot") /\ "slot" \in Layers
  BY <1>1 DEF AsksFrom, Accepted, Nested, Layers
<1> QED BY <1>1, <1>2, <1>4, <1>5, <1>6, LooksFreely, ReturnPreserves

\* A stored success is returned, or carried into the next closure or cell.
LEMMA FoundPreserves ==
    ASSUME IInv, NEW t \in Threads, NEW l \in Layers, Found(t, l) PROVE IInv' /\ Simulates
<1> DEFINE c == call[t]
           r == value[l][c.backend]
<1>1. /\ pc[t] = l /\ r # Unset /\ Ok(r) /\ pc[t] # "idle" /\ pc[t] # "open"
      /\ l = "slot" => Accepted(c, r)
  BY DEF Found, Cell, Layers
<1>2. /\ TypeOK /\ Route(t) /\ Holds(t) /\ Behind(t)
      /\ \A x \in Backends : Held(t, x) /\ Facts(x)
      /\ c # NoCall /\ c \in Requests /\ c.backend \in Backends /\ c.want \in Wants
      /\ c.backend \in Compilers => c.want \in {"slot", "api"}
      /\ attempts[t] = <<>>
  BY <1>1, InCall
<1>3. ~Contract!Refused(c)
  <2>1. CASE l = "slot"
    BY <1>1, <2>1 DEF Accepted, Contract!Refused, Contract!Explicit, Explicit,
       Contract!Canonical, Canonical
  <2>2. CASE l # "slot"
    BY <1>1, <2>2, NotRefused DEF Layers
  <2> QED BY <2>1, <2>2
<1>4. CASE Onward(l, c) = "idle"
  <2>1. Return(t, r)
    BY <1>4 DEF Found, Cell
  <2>2. l = c.want
    BY <1>1, <1>2, <1>4 DEF Onward, Route, Layers, Wants
  <2>3. r \in Contract!Answers(c)
    BY <1>1, <1>2, <1>3, <2>2, KnownAnswers
  <2>4. r \in Results
    BY <1>1, <1>2 DEF TypeOK
  <2>5. ~AsksFrom(t, l)
    BY <2>2 DEF AsksFrom
  <2> QED BY <1>1, <1>2, <2>1, <2>3, <2>4, <2>5, LooksFreely, ReturnPreserves
<1>5. CASE Onward(l, c) # "idle"
  <2>1. /\ Goto(t, Onward(l, c))
        /\ UNCHANGED <<value, holder, call, attempts, answer>>
    BY <1>5 DEF Found
  <2>2. Onward(l, c) \in Places
    BY DEF Onward, Places, Layers
  <2>3. pc'[t] = Onward(l, c)
    BY <1>2, <2>1 DEF Goto, TypeOK
  <2>4. Facts(c.backend)
    BY <1>2
  <2>5. Route(t)'
    BY <1>1, <1>2, <1>5, <2>1, <2>3 DEF Route, Onward, Layers, Wants
  <2>6. Holds(t)' /\ (\A x \in Backends : Held(t, x)')
    BY <1>1, <1>2, <1>5, <2>1, <2>3
       DEF Holds, Held, InsideApi, InsideCore, Onward, Layers, Wants, Route
  <2>7. Behind(t)'
    <3>1. l = "core" =>
            /\ value["slot"][c.backend] # Unset /\ Ok(value["slot"][c.backend])
            /\ Accepted(c, value["slot"][c.backend])
      <4>1. CASE Explicit(c)
        BY <1>1, <1>2, <4>1 DEF Behind, Nested
      <4>2. CASE ~Explicit(c)
        <5>1. Accepted(c, value["slot"][c.backend])
          BY <4>2 DEF Accepted
        <5>2. ASSUME l = "core"
              PROVE  value["slot"][c.backend] # Unset /\ Ok(value["slot"][c.backend])
          <6>1. /\ value["api"][c.backend] # Unset /\ value["slot"][c.backend] # Unset
                /\ r \in Judge(value["api"][c.backend], "MissingCore")
                /\ value["api"][c.backend] \in Judge(value["slot"][c.backend], "BadApi")
            BY <1>1, <2>4, <5>2 DEF Facts
          <6>2. value["api"][c.backend] \in Results /\ value["slot"][c.backend] \in Results
            BY <1>2, <6>1 DEF TypeOK, Layers
          <6> QED BY <1>1, <6>1, <6>2, JudgeKinds
        <5> QED BY <5>1, <5>2
      <4> QED BY <4>1, <4>2
    <3> QED BY <1>1, <1>2, <1>5, <2>1, <2>3, <3>1 DEF Behind, Onward, Layers, Wants
  <2> QED BY <1>2, <2>1, <2>2, <2>5, <2>6, <2>7, MovePreserves
<1> QED BY <1>4, <1>5

\* A candidate opens: the slot keeps it.
LEMMA OpenCandidateCloses ==
    ASSUME IInv, NEW t \in Threads, OpenCandidate(t)
    PROVE  \E l \in Layers, r \in Results : Closing(t, l, r) /\ Keep(t, l, r)
<1>1. PICK p \in DefaultPaths : Keep(t, "slot", Loaded(p))
  BY DEF OpenCandidate
<1>2. pc[t] = "open" /\ "slot" \in Layers /\ Loaded(p) \in Results
  BY DefaultPath, ResultKinds DEF OpenCandidate, Layers
<1>3. Loaded(p) \in Contract!LibraryOutcomes(call[t].backend)
  BY DEF Contract!LibraryOutcomes, Contract!DefaultPaths, DefaultPaths,
     Contract!Loaded, Loaded
<1> QED BY <1>1, <1>2, <1>3 DEF Closing

\* A candidate fails and is noted after the ones before it.
LEMMA CandidateFailsPreserves ==
    ASSUME IInv, NEW t \in Threads, CandidateFails(t) PROVE IInv' /\ Simulates
<1> DEFINE b == call[t].backend
           n == Len(attempts[t])
<1>1. /\ pc[t] = "open" /\ n < Len(Candidates[b])
      /\ attempts' = [attempts EXCEPT ![t] = Append(@, Candidates[b][Len(@) + 1])]
      /\ UNCHANGED <<value, holder, pc, call, answer>>
  BY DEF CandidateFails, Untried
<1>2. /\ TypeOK /\ Route(t) /\ Holds(t) /\ Behind(t) /\ Tried(t) /\ Answered(t)
      /\ \A x \in Backends : Held(t, x) /\ Facts(x)
      /\ b \in Backends
  BY <1>1, InCall DEF IInv
<1>3. Candidates[b] \in Seq(Names) /\ attempts[t] \in Seq(Names) /\ n \in Nat
  BY <1>2, LoadAssumption DEF TypeOK
<1>4. Candidates[b][n + 1] \in Names
  BY <1>1, <1>3
<1>5. attempts'[t] = Append(attempts[t], Candidates[b][n + 1])
  BY <1>1, <1>2 DEF TypeOK
<1>6. attempts'[t] \in Seq(Names) /\ Len(attempts'[t]) = n + 1
      /\ \A i \in 1 .. n + 1 : attempts'[t][i] =
             IF i = n + 1 THEN Candidates[b][n + 1] ELSE attempts[t][i]
  BY <1>3, <1>4, <1>5
<1>7. TypeOK'
  BY <1>1, <1>2, <1>3, <1>4 DEF TypeOK
<1>8. Grows /\ (\A x \in Backends : Facts(x)')
  BY <1>1, <1>2 DEF Grows, Facts, Contract!LibraryOutcomes
<1>9. \A u \in Threads \ {t} : Bystander(u)
  BY <1>1, <1>2 DEF Bystander, TypeOK
<1>10. Tried(t)'
  BY <1>1, <1>2, <1>3, <1>6 DEF Tried
<1>11. Route(t)' /\ Holds(t)' /\ Behind(t)' /\ (\A x \in Backends : Held(t, x)')
  BY <1>1, <1>2 DEF Route, Holds, Behind, Held, InsideApi, InsideCore
<1>12. Answered(t)'
  BY <1>1, <1>2, <1>8, AnswersGrow DEF Answered, TypeOK
<1>13. Simulates
  BY <1>1 DEF Simulates
<1> QED BY <1>7, <1>8, <1>9, <1>10, <1>11, <1>12, <1>13, StepOf

\* The search ends without a library: the slot keeps every failure.
LEMMA CandidatesExhaustedCloses ==
    ASSUME IInv, NEW t \in Threads, CandidatesExhausted(t)
    PROVE  \E l \in Layers, r \in Results : Closing(t, l, r) /\ Keep(t, l, r)
<1> DEFINE b == call[t].backend
           r == IF attempts[t] = <<>> THEN Failed("UnsupportedPlatform")
                ELSE Unopened(attempts[t])
<1>1. pc[t] = "open" /\ ~Untried(t) /\ Keep(t, "slot", r) /\ "slot" \in Layers
  BY DEF CandidatesExhausted, Layers
<1>2. TypeOK /\ b \in Backends /\ Tried(t)
  BY <1>1, InCall DEF IInv
<1>3. Candidates[b] \in Seq(Names) /\ attempts[t] \in Seq(Names)
  BY <1>2, LoadAssumption DEF TypeOK
<1>4. attempts[t] = Candidates[b]
  <2>1. Len(attempts[t]) = Len(Candidates[b])
    BY <1>1, <1>2, <1>3 DEF Untried, Tried
  <2>2. \A i \in 1 .. Len(attempts[t]) : attempts[t][i] = Candidates[b][i]
    BY <1>1, <1>2 DEF Tried
  <2> QED BY <1>3, <2>1, <2>2
<1>5. r \in Results
  <2>1. attempts[t] \in Seq(Names \cup Paths)
    BY <1>3
  <2> QED BY <2>1, ResultKinds DEF KeptErrors
<1>6. r \in Contract!LibraryOutcomes(b)
  BY <1>4 DEF Contract!LibraryOutcomes, Contract!Failed, Failed,
     Contract!Unopened, Unopened
<1> QED BY <1>1, <1>5, <1>6 DEF Closing

\* The explicit path opens or fails: the slot keeps that.
LEMMA OpenExactCloses ==
    ASSUME IInv, NEW t \in Threads, OpenExact(t)
    PROVE  \E l \in Layers, r \in Results : Closing(t, l, r) /\ Keep(t, l, r)
<1> DEFINE p == Canonical(call[t].file)
<1>1. pc[t] = "open" /\ Explicit(call[t]) /\ "slot" \in Layers
      /\ \E r \in {Loaded(p), Unopened(<<p>>)} : Keep(t, "slot", r)
  BY DEF OpenExact, Layers
<1>2. PICK r \in {Loaded(p), Unopened(<<p>>)} : Keep(t, "slot", r)
  BY <1>1
<1>3. call[t].file \in Files
  BY <1>1, InCall, CallTypes DEF Explicit
<1>4. p \in Paths /\ <<p>> \in Seq(Names \cup Paths)
  BY <1>3, CanonicalPath
<1>5. r \in Results
  BY <1>4, ResultKinds
<1>6. r \in Contract!LibraryOutcomes(call[t].backend)
  BY <1>3 DEF Contract!LibraryOutcomes, Contract!Loaded, Loaded,
     Contract!Unopened, Unopened, Contract!Canonical, Canonical
<1> QED BY <1>1, <1>2, <1>5, <1>6 DEF Closing

\* A table is built from the library in the slot.
LEMMA BuildCloses ==
    ASSUME IInv, NEW t \in Threads, Build(t)
    PROVE  \E l \in Layers, r \in Results : Closing(t, l, r) /\ Keep(t, l, r)
<1> DEFINE lib == value["slot"][call[t].backend]
<1>1. PICK r \in Judge(lib, "BadApi") : Keep(t, "api", r)
  BY DEF Build, Cell
<1>2. pc[t] = "build" /\ "api" \in Layers /\ "slot" \in Layers
  BY DEF Build, Layers
<1>3. lib \in Results
  BY <1>2, InCall DEF TypeOK, Behind
<1>4. r \in Results
  BY <1>3, JudgeKinds
<1> QED BY <1>1, <1>2, <1>4 DEF Closing

\* The table below is validated.
LEMMA ValidateCloses ==
    ASSUME IInv, NEW t \in Threads, Validate(t)
    PROVE  \E l \in Layers, r \in Results : Closing(t, l, r) /\ Keep(t, l, r)
<1> DEFINE api == value["api"][call[t].backend]
<1>1. PICK r \in Judge(api, "MissingCore") : Keep(t, "core", r)
  BY DEF Validate, Cell
<1>2. pc[t] = "validate" /\ "api" \in Layers /\ "core" \in Layers
  BY DEF Validate, Layers
<1>3. api \in Results
  BY <1>2, InCall DEF TypeOK, Behind
<1>4. r \in Results
  BY <1>3, JudgeKinds
<1> QED BY <1>1, <1>2, <1>4 DEF Closing

\* Every closure ends by filling its own cell with what the contract allows.
LEMMA ClosureEnds ==
    ASSUME IInv, NEW t \in Threads,
           \/ OpenCandidate(t) \/ CandidatesExhausted(t) \/ OpenExact(t)
           \/ Build(t) \/ Validate(t)
    PROVE  \E l \in Layers, r \in Results : Closing(t, l, r) /\ Keep(t, l, r)
BY OpenCandidateCloses, CandidatesExhaustedCloses, OpenExactCloses, BuildCloses,
   ValidateCloses

\* The vendor is initialised; its failure is answered, not kept.
LEMMA InitDriverPreserves ==
    ASSUME IInv, NEW t \in Threads, InitDriver(t) PROVE IInv' /\ Simulates
<1> DEFINE c == call[t]
           top == value["core"][c.backend]
<1>1. PICK r \in {top, Faulty(top, "InitFailed")} : Return(t, r)
  BY DEF InitDriver, Cell
<1>2. pc[t] = "init" /\ "core" \in Layers
  BY DEF InitDriver, Layers
<1>3. /\ TypeOK /\ c # NoCall /\ c \in Requests /\ c.want = "driver"
      /\ top # Unset /\ Ok(top) /\ ~Contract!Refused(c) /\ c.backend \in Backends
  BY <1>2, InCall, NotRefused DEF Behind, Route
<1>4. top \in Results /\ r \in Results
  BY <1>2, <1>3, ResultKinds DEF TypeOK, CallErrors
<1>5. r \in Contract!Answers(c)
  BY <1>2, <1>3, KnownAnswers
<1>6. \A l \in Layers, b \in Backends : holder[l][b] # t
  BY <1>2, InCall DEF Held, InsideApi, InsideCore, Layers
<1> QED BY <1>1, <1>3, <1>4, <1>5, <1>6, ReturnPreserves

-----------------------------------------------------------------------------
(* The invariant and what follows from it.                                 *)

\* At the start all cells are empty and all threads idle.
LEMMA InitEstablishes == ASSUME Init PROVE IInv
<1>1. TypeOK
  BY DEF Init, TypeOK, Places
<1>2. \A t \in Threads : Route(t) /\ Holds(t) /\ Behind(t) /\ Tried(t) /\ Answered(t)
  BY DEF Init, Route, Holds, Behind, Tried, Answered, InsideApi, InsideCore
<1>3. \A t \in Threads, b \in Backends : Held(t, b)
  BY LoadAssumption DEF Init, Held, Layers
<1>4. \A b \in Backends : Facts(b)
  BY DEF Init, Facts, Layers
<1> QED BY <1>1, <1>2, <1>3, <1>4 DEF IInv

\* A step of another part of the process changes nothing.
LEMMA StutterPreserves == ASSUME IInv, UNCHANGED vars PROVE IInv' /\ Simulates
<1>1. UNCHANGED <<value, holder, pc, call, attempts, answer>>
  BY DEF vars
<1>2. TypeOK' /\ (\A b \in Backends : Facts(b)')
  BY <1>1 DEF IInv, TypeOK, Facts, Contract!LibraryOutcomes
<1>3. \A t \in Threads : Route(t)' /\ Holds(t)' /\ Behind(t)' /\ Tried(t)'
  BY <1>1 DEF IInv, Route, Holds, Behind, Tried, InsideApi, InsideCore
<1>4. \A t \in Threads, b \in Backends : Held(t, b)'
  BY <1>1 DEF IInv, Held, InsideApi, InsideCore
<1>5. ASSUME NEW t \in Threads PROVE Answered(t)'
  <2>1. Answered(t) /\ TypeOK /\ Grows
    BY <1>1 DEF IInv, Grows
  <2>2. CASE answer[t] = NoAnswer
    BY <1>1, <2>2 DEF Answered
  <2>3. CASE answer[t] # NoAnswer
    BY <1>1, <2>1, <2>3, AnswersGrow DEF Answered, TypeOK
  <2> QED BY <2>2, <2>3
<1> QED BY <1>1, <1>2, <1>3, <1>4, <1>5 DEF IInv, Simulates

\* Every step preserves the invariant and is one of the contract or a stutter.
LEMMA NextPreserves == ASSUME IInv, [Next]_vars PROVE IInv' /\ Simulates
<1>1. ASSUME NEW t \in Threads, Start(t) PROVE IInv' /\ Simulates
  BY <1>1, StartPreserves
<1>2. ASSUME NEW t \in Threads, RejectPath(t) \/ AcceptPath(t) PROVE IInv' /\ Simulates
  BY <1>2, RejectPathPreserves, AcceptPathPreserves
<1>3. ASSUME NEW t \in Threads, NEW l \in Layers,
             Enter(t, l) \/ FoundError(t, l) \/ Found(t, l)
      PROVE  IInv' /\ Simulates
  BY <1>3, EnterPreserves, FoundErrorPreserves, FoundPreserves
<1>4. ASSUME NEW t \in Threads, FoundOther(t) \/ InitDriver(t) PROVE IInv' /\ Simulates
  BY <1>4, FoundOtherPreserves, InitDriverPreserves
<1>5. ASSUME NEW t \in Threads, CandidateFails(t) PROVE IInv' /\ Simulates
  BY <1>5, CandidateFailsPreserves
<1>6. ASSUME NEW t \in Threads,
             \/ OpenCandidate(t) \/ CandidatesExhausted(t) \/ OpenExact(t)
             \/ Build(t) \/ Validate(t)
      PROVE  IInv' /\ Simulates
  BY <1>6, ClosureEnds, KeepPreserves
<1>7. ASSUME UNCHANGED vars PROVE IInv' /\ Simulates
  BY <1>7, StutterPreserves
<1> QED BY <1>1, <1>2, <1>3, <1>4, <1>5, <1>6, <1>7 DEF Next, Step

\* IInv holds in every reachable state.
THEOREM Invariance == Spec => []IInv
<1>1. Init => IInv
  BY InitEstablishes
<1>2. IInv /\ [Next]_vars => IInv'
  BY NextPreserves
<1> QED BY <1>1, <1>2, PTL DEF Spec

\* Every variable stays in its domain, whatever the calls and their timing.
THEOREM TypeCorrect == Spec => []TypeOK
<1>1. IInv => TypeOK
  BY DEF IInv
<1> QED BY <1>1, Invariance, PTL

\* All that a layer can hold over a decided one: its failure, or a verdict on
\* the same library.
LEMMA LayersFollow ==
    ASSUME IInv, NEW b \in Backends
    PROVE  /\ Follows("slot", "api", b) /\ Follows("api", "core", b)
           /\ \A l \in Layers : value[l][b] # Unset =>
                  /\ value["slot"][b] # Unset
                  /\ value[l][b] \in Results
                  /\ value[l][b].error \notin CallErrors
                  /\ Ok(value[l][b]) => Ok(value["slot"][b])
                  /\ value[l][b].path # NoPath =>
                         /\ Ok(value["slot"][b])
                         /\ value[l][b].path = value["slot"][b].path
<1>1. Facts(b) /\ TypeOK
  BY DEF IInv
<1>2. \A l \in Layers : value[l][b] # Unset => value[l][b] \in Results
  BY <1>1 DEF TypeOK
<1>3. value["slot"][b] # Unset =>
        /\ value["slot"][b].error \notin CallErrors
        /\ ~Ok(value["slot"][b]) => value["slot"][b].path = NoPath
  BY <1>1 DEF Facts, Contract!LibraryOutcomes, Contract!Loaded, Contract!Unopened,
     Contract!Failed, Ok, CallErrors
<1>4. Follows("slot", "api", b) /\ Follows("api", "core", b)
  BY <1>1, <1>2, JudgeKinds DEF Facts, Follows, Layers
<1>5. value["api"][b] # Unset =>
        /\ value["slot"][b] # Unset
        /\ value["api"][b].error \notin CallErrors
        /\ Ok(value["api"][b]) => Ok(value["slot"][b])
        /\ value["api"][b].path # NoPath =>
               Ok(value["slot"][b]) /\ value["api"][b].path = value["slot"][b].path
  BY <1>1, <1>2, <1>3, JudgeKinds DEF Facts, Layers, CallErrors, Ok
<1>6. value["core"][b] # Unset =>
        /\ value["slot"][b] # Unset
        /\ value["core"][b].error \notin CallErrors
        /\ Ok(value["core"][b]) => Ok(value["slot"][b])
        /\ value["core"][b].path # NoPath =>
               Ok(value["slot"][b]) /\ value["core"][b].path = value["slot"][b].path
  BY <1>1, <1>2, <1>5, JudgeKinds DEF Facts, Layers, CallErrors, Ok
<1> QED BY <1>2, <1>3, <1>4, <1>5, <1>6 DEF Layers

\* An answer that names a library names the one in the slot, and an explicit
\* answer that succeeds names the path that was asked for.
LEMMA AnswersName ==
    ASSUME IInv, NEW c \in Requests, NEW r \in Contract!Answers(c)
    PROVE  /\ r.path # NoPath =>
                  /\ value["slot"][c.backend] # Unset
                  /\ r.path = value["slot"][c.backend].path
           /\ Explicit(c) /\ Ok(r) => r.path = Canonical(c.file)
<1> DEFINE b == c.backend
           lib == value["slot"][b]
<1>1. b \in Backends /\ c.want \in Wants
  BY DEF Requests
<1>2. CASE r = Failed("InvalidExplicitPath")
  BY <1>2 DEF Failed, Ok
<1>3. CASE /\ Contract!Refused(c)
           /\ r = Faulty(lib, "AlreadyInitialized")
  BY <1>3 DEF Faulty, Ok, Contract!Refused, Contract!Decided
<1>4. CASE ~Contract!Refused(c) /\ r \in Contract!FailuresFor(c)
  <2>0. Contract!Needs(c) \subseteq Layers
    BY <1>1 DEF Contract!Needs, Contract!Top, Contract!Layers, Layers, Wants
  <2>1. PICK l \in Layers : value[l][b] # Unset /\ r = value[l][b] /\ ~Ok(r)
    BY <1>4, <2>0 DEF Contract!FailuresFor, Contract!Decided, Contract!Ok, Ok
  <2> QED BY <1>1, <2>1, LayersFollow
<1>5. CASE /\ ~Contract!Refused(c) /\ Contract!Ready(c)
           /\ r \in {value[Contract!Top(c)][b],
                     Faulty(value[Contract!Top(c)][b], "InitFailed")}
  <2>1. PICK l \in Layers : /\ l = Contract!Top(c)
                            /\ value[l][b] # Unset /\ Ok(value[l][b])
    BY <1>1, <1>5 DEF Contract!Ready, Contract!Decided, Contract!Ok, Ok,
       Contract!Top, Layers, Wants
  <2>2. Ok(lib) /\ lib # Unset /\ value[l][b].path = lib.path
    <3>1. Facts(b) /\ value["slot"][b] # Unset /\ Ok(value["slot"][b])
      BY <1>1, <2>1, LayersFollow DEF IInv
    <3>2. /\ l = "api" => value["api"][b].path = value["slot"][b].path
          /\ l = "core" => /\ value["core"][b].path = value["api"][b].path
                           /\ value["api"][b].path = value["slot"][b].path
      BY <1>1, <2>1, <3>1, LayersFollow DEF Follows, Ok
    <3> QED BY <3>1, <3>2 DEF Layers
  <2>3. r.path = lib.path
    BY <1>5, <2>1, <2>2 DEF Faulty
  <2>4. Explicit(c) => lib.path = Canonical(c.file)
    BY <1>5, <2>2 DEF Contract!Refused, Contract!Decided, Contract!Ok, Ok,
       Contract!Explicit, Explicit, Contract!Canonical, Canonical
  <2> QED BY <2>2, <2>3, <2>4
<1> QED BY <1>2, <1>3, <1>4, <1>5
     DEF Contract!Answers, Contract!Failed, Failed, Contract!Faulty, Faulty

\* The three cells of a backend always speak of one library.
THEOREM LayersAgree == Spec => []OneLibrary
<1>1. IInv => OneLibrary
  BY LayersFollow DEF OneLibrary
<1> QED BY <1>1, Invariance, PTL

\* No two threads are ever told of different libraries of one backend.
THEOREM ThreadsAgree == Spec => []Agreement
<1>1. IInv => Agreement
  <2> SUFFICES ASSUME IInv, NEW t \in Threads, NEW u \in Threads,
                      answer[t] # NoAnswer, answer[t].result.path # NoPath,
                      answer[u] # NoAnswer, answer[u].result.path # NoPath,
                      answer[t].call.backend = answer[u].call.backend
               PROVE  answer[t].result.path = answer[u].result.path
    BY DEF Agreement
  <2>1. \A v \in {t, u} :
           /\ answer[v].call \in Requests
           /\ answer[v].result \in Contract!Answers(answer[v].call)
    BY DEF IInv, TypeOK, Answered
  <2> QED BY <2>1, AnswersName
<1> QED BY <1>1, Invariance, PTL

\* A successful explicit load serves the file that was asked for.
THEOREM ExplicitLoadsHonoured == Spec => []ExplicitHonoured
<1>1. IInv => ExplicitHonoured
  <2> SUFFICES ASSUME IInv, NEW t \in Threads, answer[t] # NoAnswer,
                      Explicit(answer[t].call), Ok(answer[t].result)
               PROVE  answer[t].result.path = Canonical(answer[t].call.file)
    BY DEF ExplicitHonoured
  <2>1. /\ answer[t].call \in Requests
        /\ answer[t].result \in Contract!Answers(answer[t].call)
    BY DEF IInv, TypeOK, Answered
  <2> QED BY <2>1, AnswersName
<1> QED BY <1>1, Invariance, PTL

\* An error of one call is never the stored result of a cell.
THEOREM TransientsNotKept == Spec => []NothingTransientKept
<1>1. IInv => NothingTransientKept
  BY LayersFollow DEF NothingTransientKept
<1> QED BY <1>1, Invariance, PTL

\* Where default opens report canonical paths, every loaded path is canonical.
LEMMA SlotCanonical ==
    ASSUME IInv, DefaultSpellings = {"canonical"}, NEW b \in Backends,
           value["slot"][b] # Unset, Ok(value["slot"][b])
    PROVE  \E f \in Files : value["slot"][b].path = Canonical(f)
<1>1. value["slot"][b] \in Contract!LibraryOutcomes(b)
  BY DEF IInv, Facts
<1>2. PICK p \in DefaultPaths \cup {Canonical(f) : f \in Files} : value["slot"][b] = Loaded(p)
  BY <1>1 DEF Contract!LibraryOutcomes, Contract!Loaded, Contract!Unopened, Contract!Failed,
     Contract!DefaultPaths, DefaultPaths, Contract!Canonical, Canonical, Loaded, Ok
<1>3. value["slot"][b].path = p
  BY <1>2 DEF Loaded
<1>4. p \in DefaultPaths => p = Canonical(p.file) /\ p.file \in Files
  BY DEF DefaultPaths, Canonical
<1> QED BY <1>2, <1>3, <1>4

\* Only the refusal of another library says that one is already loaded.
LEMMA AlreadyInitializedRefuses ==
    ASSUME IInv, NEW c \in Requests, NEW r \in Contract!Answers(c),
           r.error = "AlreadyInitialized"
    PROVE  /\ value["slot"][c.backend] # Unset /\ Ok(value["slot"][c.backend])
           /\ value["slot"][c.backend].path # Canonical(c.file)
           /\ r.path = value["slot"][c.backend].path
<1> DEFINE b == c.backend
           lib == value["slot"][b]
<1>1. b \in Backends /\ c.want \in Wants
  BY DEF Requests
<1>2. r # Failed("InvalidExplicitPath")
  BY DEF Failed
<1>3. \A l \in Layers : value[l][b] # Unset => r # value[l][b]
  BY <1>1, LayersFollow DEF CallErrors
<1>4. Contract!Needs(c) \subseteq Layers /\ Contract!Top(c) \in Layers
  BY <1>1 DEF Contract!Needs, Contract!Top, Contract!Layers, Layers, Wants
<1>5. r \notin Contract!FailuresFor(c)
  BY <1>3, <1>4 DEF Contract!FailuresFor, Contract!Decided
<1>6. Contract!Ready(c) =>
          r # value[Contract!Top(c)][b] /\ r # Faulty(value[Contract!Top(c)][b], "InitFailed")
  BY <1>1, <1>3, <1>4 DEF Contract!Ready, Contract!Decided, Faulty
<1>7. Contract!Refused(c) /\ r = Faulty(lib, "AlreadyInitialized")
  BY <1>2, <1>5, <1>6 DEF Contract!Answers, Contract!Failed, Failed, Contract!Faulty, Faulty
<1> QED BY <1>7 DEF Contract!Refused, Contract!Decided, Contract!Ok, Ok,
         Contract!Canonical, Canonical, Faulty

\* Where default opens report canonical paths (Linux), an explicit load of the
\* file that is loaded is never told that another one is (load_from_absolute).
THEOREM SameFileServed ==
    ASSUME DefaultSpellings = {"canonical"}
    PROVE  Spec => []SameFileAccepted
<1>1. IInv => SameFileAccepted
  <2> SUFFICES ASSUME IInv, NEW t \in Threads, answer[t] # NoAnswer,
                      answer[t].result.error = "AlreadyInitialized"
               PROVE  answer[t].result.path.file # answer[t].call.file
    BY DEF SameFileAccepted
  <2> DEFINE c == answer[t].call
             lib == value["slot"][c.backend]
  <2>1. c \in Requests /\ answer[t].result \in Contract!Answers(c)
    BY DEF IInv, TypeOK, Answered
  <2>2. /\ lib # Unset /\ Ok(lib) /\ lib.path # Canonical(c.file)
        /\ answer[t].result.path = lib.path
    BY <2>1, AlreadyInitializedRefuses
  <2>3. c.backend \in Backends
    BY <2>1 DEF Requests
  <2>4. PICK f \in Files : lib.path = Canonical(f)
    BY <2>2, <2>3, SlotCanonical
  <2> QED BY <2>2, <2>4 DEF Canonical
<1> QED BY <1>1, Invariance, PTL

\* A stored open failure accounts for the whole search.
THEOREM SearchesExhaustive == Spec => []FailureIsExhaustive
<1>1. ASSUME IInv, NEW b \in Backends, value["slot"][b] # Unset,
             ~Ok(value["slot"][b])
      PROVE  \/ value["slot"][b].attempts = Candidates[b]
             \/ \E f \in Files : value["slot"][b].attempts = <<Canonical(f)>>
  <2>1. value["slot"][b] \in Contract!LibraryOutcomes(b)
    BY <1>1 DEF IInv, Facts
  <2> QED BY <1>1, <2>1 DEF Contract!LibraryOutcomes, Contract!Loaded,
       Contract!Unopened, Contract!Failed, Contract!Canonical, Canonical, Ok
<1>2. IInv => FailureIsExhaustive
  BY <1>1 DEF FailureIsExhaustive
<1> QED BY <1>2, Invariance, PTL

Rank(l) == CASE l = "slot" -> 1 [] l = "api" -> 2 [] l = "core" -> 3

\* A thread waiting at a cell holds only cells above it, so waiting threads
\* never form a cycle although the two kinds of load take the cells in
\* opposite orders.
WaitsDownward ==
    \A t \in Threads, k, l \in Layers, b \in Backends :
        holder[k][b] = t /\ pc[t] = l =>
            call[t].backend = b /\ Rank(l) < Rank(k)

\* The loads keep that order, explicit ones included.
THEOREM WaitingIsOrdered == Spec => []WaitsDownward
<1>1. IInv => WaitsDownward
  <2> SUFFICES ASSUME IInv, NEW t \in Threads, NEW k \in Layers, NEW l \in Layers,
                      NEW b \in Backends, holder[k][b] = t, pc[t] = l
               PROVE  call[t].backend = b /\ Rank(l) < Rank(k)
    BY DEF WaitsDownward
  <2>1. Held(t, b)
    BY DEF IInv
  <2> QED BY <2>1 DEF Held, InsideApi, InsideCore, Layers, Rank
<1> QED BY <1>1, Invariance, PTL

\* The threads, their cells and their waiting implement the one-shot contract:
\* a fact once known never changes, and answers follow from facts alone.
THEOREM Refinement == Spec => RefinesOneShot
<1>1. Init => Contract!Init
  BY DEF Init, Contract!Init, Contract!Layers, Layers
<1>2. IInv /\ [Next]_vars => [Contract!Next]_(Contract!vars)
  BY NextPreserves DEF Simulates, Contract!vars
<1> QED BY <1>1, <1>2, Invariance, PTL DEF Spec, RefinesOneShot, Contract!Spec

-----------------------------------------------------------------------------
(* Progress.  Fairness is beyond these proofs; what it needs is not: nobody *)
(* waits for ever because of how the cells nest, and every step is one of   *)
(* boundedly many.                                                          *)

\* Below a held cell somebody runs: its holder, or the holder of the cell that
\* one waits for.
LEMMA HeldIsServed ==
    ASSUME IInv, NEW b \in Backends, NEW l \in Layers, holder[l][b] # NoThread
    PROVE  \E u \in Threads, k \in Layers :
               holder[k][b] = u /\ pc[u] # "idle" /\ ~Waiting(u)
<1> DEFINE Served == \E u \in Threads, k \in Layers :
                         holder[k][b] = u /\ pc[u] # "idle" /\ ~Waiting(u)
<1>1. \A k \in Layers : holder[k][b] # NoThread => holder[k][b] \in Threads
  BY DEF IInv, TypeOK
<1>2. ASSUME NEW u \in Threads, NEW k \in Layers, holder[k][b] = u
      PROVE  /\ Held(u, b) /\ call[u].backend = b /\ pc[u] # "idle"
             /\ pc[u] \notin Layers => Served
  <2>1. Held(u, b) /\ call[u].backend = b
    BY <1>2 DEF IInv, Held
  <2>2. pc[u] # "idle"
    BY <1>2, <2>1 DEF IInv, Route, Held
  <2> QED BY <1>2, <2>1, <2>2 DEF Waiting
<1>3. holder["slot"][b] # NoThread => Served
  <2>1. "slot" \in Layers
    BY DEF Layers
  <2>2. SUFFICES ASSUME NEW u \in Threads, holder["slot"][b] = u PROVE Served
    BY <1>1, <2>1
  <2>3. pc[u] = "open"
    BY <1>2, <2>1, <2>2 DEF Held
  <2> QED BY <1>2, <2>1, <2>2, <2>3 DEF Layers
<1>4. holder["api"][b] # NoThread => Served
  <2>1. "api" \in Layers
    BY DEF Layers
  <2>2. SUFFICES ASSUME NEW u \in Threads, holder["api"][b] = u PROVE Served
    BY <1>1, <2>1
  <2>3. pc[u] \in {"slot", "open", "build"} /\ call[u].backend = b /\ pc[u] # "idle"
    BY <1>2, <2>1, <2>2 DEF Held, InsideApi
  <2>4. pc[u] = "slot" /\ Waiting(u) => holder["slot"][b] # NoThread
    BY <2>3 DEF Waiting
  <2> QED BY <1>3, <2>1, <2>2, <2>3, <2>4 DEF Waiting, Layers
<1>5. holder["core"][b] # NoThread => Served
  <2>1. "core" \in Layers
    BY DEF Layers
  <2>2. SUFFICES ASSUME NEW u \in Threads, holder["core"][b] = u PROVE Served
    BY <1>1, <2>1
  <2>3. /\ pc[u] \in {"api", "slot", "open", "build", "validate"}
        /\ call[u].backend = b /\ pc[u] # "idle"
    BY <1>2, <2>1, <2>2 DEF Held, InsideCore
  <2>4. Waiting(u) => holder["slot"][b] # NoThread \/ holder["api"][b] # NoThread
    BY <2>3 DEF Waiting, Layers
  <2> QED BY <1>3, <1>4, <2>1, <2>2, <2>3, <2>4
<1> QED BY <1>3, <1>4, <1>5 DEF Layers

\* No circle of waiting threads, and nobody left to wait for a thread that has
\* gone: get_or_init's waiters always have a running closure to wait for.
THEOREM NobodyWaitsInVain == Spec => []WaitersAreServed
<1>1. IInv => WaitersAreServed
  <2> SUFFICES ASSUME IInv, NEW t \in Threads, Waiting(t)
               PROVE  \E u \in Threads, l \in Layers :
                          /\ holder[l][call[t].backend] = u
                          /\ pc[u] # "idle" /\ ~Waiting(u)
    BY DEF WaitersAreServed
  <2>1. pc[t] \in Layers /\ pc[t] # "idle" /\ holder[pc[t]][call[t].backend] # NoThread
    BY DEF Waiting, Layers
  <2>2. call[t].backend \in Backends
    BY <2>1, InCall
  <2> QED BY <2>1, <2>2, HeldIsServed
<1> QED BY <1>1, Invariance, PTL

\* The part of the search that is still before a call.
Untaken(t) == Len(Candidates[call[t].backend]) - Len(attempts[t])

\* A busy call has at least one step left, and never fewer than its stage.
LEMMA StepsAreNumbers ==
    ASSUME IInv, NEW t \in Threads, pc[t] # "idle"
    PROVE  /\ Stage(t) \in 1..13
           /\ Untaken(t) \in Nat
           /\ pc[t] # "open" => attempts[t] = <<>>
           /\ StepsLeft(t) = Stage(t) + (IF Stage(t) >= 9 THEN Untaken(t) ELSE 0)
           /\ StepsLeft(t) \in Nat \ {0}
<1>1. pc[t] \in Places /\ TypeOK /\ Tried(t) /\ call[t].backend \in Backends
  BY InCall DEF IInv, TypeOK
<1>2. Stage(t) \in 1..13
  BY <1>1 DEF Stage, Places, Layers
<1>3. pc[t] # "open" => attempts[t] = <<>>
  BY InCall
<1>4. Len(Candidates[call[t].backend]) \in Nat /\ Len(attempts[t]) \in Nat
  BY <1>1, LoadAssumption DEF TypeOK
<1>5. Len(attempts[t]) <= Len(Candidates[call[t].backend])
  BY <1>1, <1>3, <1>4 DEF Tried
<1>6. Untaken(t) \in Nat
  BY <1>4, <1>5 DEF Untaken
<1>7. StepsLeft(t) = Stage(t) + (IF Stage(t) >= 9 THEN Untaken(t) ELSE 0)
  BY DEF StepsLeft, Untaken
<1> QED BY <1>2, <1>3, <1>6, <1>7

\* Values only grow: a thread that does not move is not set back.
LEMMA NotSetBack ==
    ASSUME IInv, Grows, NEW u \in Threads, pc[u] # "idle",
           pc'[u] = pc[u], call'[u] = call[u], attempts'[u] = attempts[u]
    PROVE  StepsLeft(u)' <= StepsLeft(u)
<1>1. /\ Stage(u) \in 1..13 /\ Untaken(u) \in Nat
      /\ StepsLeft(u) = Stage(u) + (IF Stage(u) >= 9 THEN Untaken(u) ELSE 0)
  BY StepsAreNumbers
<1>2. StepsLeft(u)' = Stage(u)' + (IF Stage(u)' >= 9 THEN Untaken(u) ELSE 0)
  BY DEF StepsLeft, Untaken
<1>3. Stage(u)' \in 1..13 /\ Stage(u)' <= Stage(u)
  <2>1. pc[u] \in Places /\ call[u].backend \in Backends
    BY InCall DEF TypeOK
  <2>2. pc[u] \in Layers => (Cell(u, pc[u]) # Unset => Cell(u, pc[u])' # Unset)
    BY <2>1 DEF Grows, Cell
  <2> QED BY <2>1, <2>2 DEF Stage, Places, Layers
<1> QED BY <1>1, <1>2, <1>3

\* A cell is filled once, because a step is one of the contract's or none of its.
LEMMA CellsOnlyFill == ASSUME IInv, [Next]_vars PROVE Grows
<1>1. TypeOK /\ Simulates
  BY NextPreserves DEF IInv
<1>2. CASE UNCHANGED value
  BY <1>2 DEF Grows
<1>3. ASSUME NEW l \in Layers, NEW b \in Backends, Contract!Decide(l, b) PROVE Grows
  <2>1. value[l][b] = Unset /\ \E r : value' = [value EXCEPT ![l][b] = r]
    BY <1>3 DEF Contract!Decide, Contract!Decided
  <2> QED BY <1>1, <2>1 DEF Grows, TypeOK
<1> QED BY <1>1, <1>2, <1>3
     DEF Simulates, Contract!Next, Contract!Ask, Contract!Answer, Contract!Layers, Layers

\* A thread moves nobody but itself.
LEMMA StepsAreOwn ==
    ASSUME TypeOK, NEW t \in Threads, Start(t) \/ Step(t), NEW u \in Threads \ {t}
    PROVE  pc'[u] = pc[u] /\ call'[u] = call[u] /\ attempts'[u] = attempts[u]
BY DEF TypeOK, Start, Step, RejectPath, AcceptPath, Enter, FoundError, Found, FoundOther,
   OpenCandidate, CandidateFails, CandidatesExhausted, OpenExact, Build, Validate,
   InitDriver, Keep, Return, Goto

\* The thread is nearer the end of its call.
Nearer(t) == StepsLeft(t)' <= StepsLeft(t) /\ StepsLeft(t)' < StepsLeft(t)

\* A lower stage is fewer steps, unless the search has grown.
LEMMA LowerIsFewer ==
    ASSUME IInv, NEW t \in Threads, pc[t] # "idle",
           Stage(t)' \in Nat, Stage(t)' < Stage(t),
           Stage(t)' < 9 \/ Untaken(t)' = Untaken(t)
    PROVE  Nearer(t)
<1>1. /\ Stage(t) \in 1..13 /\ Untaken(t) \in Nat
      /\ StepsLeft(t) = Stage(t) + (IF Stage(t) >= 9 THEN Untaken(t) ELSE 0)
  BY StepsAreNumbers
<1>2. StepsLeft(t)' = Stage(t)' + (IF Stage(t)' >= 9 THEN Untaken(t)' ELSE 0)
  BY DEF StepsLeft, Untaken
<1> QED BY <1>1, <1>2 DEF Nearer

\* A call that returns has no step left.
LEMMA ReturnAdvances ==
    ASSUME IInv, NEW t \in Threads, pc[t] # "idle", NEW r, Return(t, r)
    PROVE  Nearer(t)
<1>1. pc'[t] = "idle"
  BY DEF IInv, TypeOK, Return, Goto
<1>2. Stage(t)' = 0
  BY <1>1 DEF Stage
<1> QED BY <1>2, StepsAreNumbers, LowerIsFewer

\* A closure that ends leaves its thread at a filled cell, below the closure.
LEMMA KeepAdvances ==
    ASSUME IInv, NEW t \in Threads, NEW l \in Layers, NEW r \in Results,
           Closing(t, l, r), Keep(t, l, r)
    PROVE  Nearer(t)
<1> DEFINE b == call[t].backend
<1>1. pc[t] \in {"open", "build", "validate"} /\ pc[t] # "idle"
  BY DEF Closing
<1>2. TypeOK /\ b \in Backends
  BY <1>1, InCall
<1>3. pc'[t] = l /\ call'[t] = call[t] /\ value'[l][b] = r /\ r # Unset
  BY <1>2, LoadAssumption DEF Keep, Goto, TypeOK
<1>4. Cell(t, pc[t])' # Unset
  BY <1>3 DEF Cell
<1>5. Stage(t)' = (CASE l = "slot" -> 8 [] l = "api" -> 5 [] l = "core" -> 2)
  BY <1>3, <1>4 DEF Stage, Layers
<1>6. Stage(t) = (CASE l = "slot" -> 9 [] l = "api" -> 6 [] l = "core" -> 3)
  BY <1>1 DEF Stage, Closing, Layers
<1> QED BY <1>1, <1>5, <1>6, LowerIsFewer DEF Layers

\* A thread that only moves is nearer its end when its stage is lower.
LEMMA MoveAdvances ==
    ASSUME IInv, NEW t \in Threads, pc[t] # "idle",
           UNCHANGED <<call, attempts>>, Stage(t)' \in Nat, Stage(t)' < Stage(t)
    PROVE  Nearer(t)
<1>1. Untaken(t)' = Untaken(t)
  BY DEF Untaken
<1> QED BY <1>1, LowerIsFewer

\* Entering a closure: the cell was empty, and what is inside it lies lower.
LEMMA EnterAdvances ==
    ASSUME IInv, NEW t \in Threads, NEW l \in Layers, Enter(t, l)
    PROVE  Nearer(t)
<1> DEFINE c == call[t]
<1>1. /\ pc[t] = l /\ pc[t] # "idle" /\ Cell(t, l) = Unset
      /\ UNCHANGED <<value, call, attempts>>
  BY DEF Enter, Layers
<1>2. pc'[t] = Closure(l, c)
  BY DEF Enter, Goto, IInv, TypeOK
<1>3. Stage(t) = (CASE l = "slot" -> 10
                    [] l = "api"  -> (IF Nested(c) THEN 11 ELSE 7)
                    [] l = "core" -> (IF Nested(c) THEN 12 ELSE 4))
  BY <1>1 DEF Stage, Layers
<1>4. Stage(t)' \in Nat /\ Stage(t)' < Stage(t)
  BY <1>1, <1>2, <1>3 DEF Stage, Closure, Cell, Layers
<1> QED BY <1>1, <1>4, MoveAdvances

\* A found error: out, or back into the closure that asked.
LEMMA FoundErrorAdvances ==
    ASSUME IInv, NEW t \in Threads, NEW l \in Layers, FoundError(t, l)
    PROVE  Nearer(t)
<1> DEFINE c == call[t]
<1>1. pc[t] = l /\ pc[t] # "idle" /\ Cell(t, l) # Unset
  BY DEF FoundError, Layers
<1>2. CASE AsksFrom(t, l)
  <2>1. UNCHANGED <<value, call, attempts>> /\ Goto(t, Onward(l, c)) /\ TypeOK
    BY <1>2 DEF FoundError, IInv
  <2>2. Onward(l, c) = (IF l = "slot" THEN "build" ELSE "validate") /\ l \in {"slot", "api"}
    BY <1>1, <1>2, InCall DEF AsksFrom, Onward, Wants
  <2>3. pc'[t] = (IF l = "slot" THEN "build" ELSE "validate")
    BY <2>1, <2>2 DEF Goto, TypeOK
  <2>4. Stage(t)' \in Nat /\ Stage(t)' < Stage(t)
    BY <1>1, <2>2, <2>3 DEF Stage
  <2> QED BY <1>1, <2>1, <2>4, MoveAdvances
<1>3. CASE ~AsksFrom(t, l)
  BY <1>1, <1>3, ReturnAdvances DEF FoundError
<1> QED BY <1>2, <1>3

\* A found value: out, into the closure that asked, or up to the next cell.
LEMMA FoundAdvances ==
    ASSUME IInv, NEW t \in Threads, NEW l \in Layers, Found(t, l)
    PROVE  Nearer(t)
<1> DEFINE c == call[t]
           place == Onward(l, c)
<1>1. pc[t] = l /\ pc[t] # "idle" /\ Cell(t, l) # Unset
  BY DEF Found, Layers
<1>2. CASE place = "idle"
  BY <1>1, <1>2, ReturnAdvances DEF Found
<1>3. CASE place # "idle"
  <2>1. UNCHANGED <<value, call, attempts>> /\ pc'[t] = place
    BY <1>3 DEF Found, Goto, IInv, TypeOK
  <2>2. \/ l = "slot" /\ place \in {"build", "api"}
        \/ l = "api" /\ place \in {"validate", "core"}
        \/ l = "core" /\ place = "init"
    BY <1>3 DEF Onward, Layers
  <2>3. place = "api" \/ place = "core" => ~Nested(c)
    BY <2>2 DEF Onward
  <2>4. Stage(t) = (CASE l = "slot" -> 8 [] l = "api" -> 5 [] l = "core" -> 2)
    BY <1>1 DEF Stage, Layers
  <2>5. Nested(call[t])' = Nested(c)
    BY <2>1 DEF Nested, Explicit
  <2>6. CASE l = "slot"
    <3>1. Stage(t)' \in {5, 6, 7}
      BY <2>1, <2>2, <2>3, <2>5, <2>6 DEF Stage
    <3> QED BY <1>1, <2>1, <2>4, <2>6, <3>1, MoveAdvances
  <2>7. CASE l = "api"
    <3>1. Stage(t)' \in {2, 3, 4}
      BY <2>1, <2>2, <2>3, <2>5, <2>7 DEF Stage
    <3> QED BY <1>1, <2>1, <2>4, <2>7, <3>1, MoveAdvances
  <2>8. CASE l = "core"
    <3>1. Stage(t)' = 1
      BY <2>1, <2>2, <2>8 DEF Stage
    <3> QED BY <1>1, <2>1, <2>4, <2>8, <3>1, MoveAdvances
  <2> QED BY <2>6, <2>7, <2>8 DEF Layers
<1> QED BY <1>2, <1>3

\* A candidate that fails is one fewer to try.
LEMMA CandidateFailsAdvances ==
    ASSUME IInv, NEW t \in Threads, CandidateFails(t)
    PROVE  Nearer(t)
<1> DEFINE b == call[t].backend
<1>1. pc[t] = "open" /\ pc[t] # "idle" /\ UNCHANGED <<value, pc, call>> /\ b \in Backends
      /\ Len(attempts[t]) < Len(Candidates[b])
      /\ attempts' = [attempts EXCEPT ![t] = Append(@, Candidates[b][Len(@) + 1])]
  BY InCall DEF CandidateFails, Untried
<1>2. attempts[t] \in Seq(Names) /\ Candidates[b] \in Seq(Names)
  BY <1>1, LoadAssumption DEF IInv, TypeOK
<1>3. attempts'[t] = Append(attempts[t], Candidates[b][Len(attempts[t]) + 1])
  BY <1>1 DEF IInv, TypeOK
<1>4. Len(attempts'[t]) = Len(attempts[t]) + 1
  BY <1>2, <1>3
<1>5. Untaken(t)' = Untaken(t) - 1
  <2>1. Untaken(t)' = Len(Candidates[b]) - Len(attempts'[t])
    BY <1>1 DEF Untaken
  <2>2. Len(Candidates[b]) \in Nat /\ Len(attempts[t]) \in Nat
    BY <1>2
  <2> QED BY <1>4, <2>1, <2>2 DEF Untaken
<1>6. Stage(t) = 9 /\ Stage(t)' = 9
  BY <1>1 DEF Stage
<1>7. StepsLeft(t)' = 9 + Untaken(t)'
  BY <1>6 DEF StepsLeft, Untaken
<1>8. StepsLeft(t) = 9 + Untaken(t) /\ Untaken(t) \in Nat
  BY <1>1, <1>6, StepsAreNumbers
<1> QED BY <1>5, <1>7, <1>8 DEF Nearer

\* Every step of a call is one of those.
LEMMA StepAdvances ==
    ASSUME IInv, NEW t \in Threads, Step(t) PROVE Nearer(t)
<1>1. CASE RejectPath(t) \/ FoundOther(t)
  BY <1>1, ReturnAdvances DEF RejectPath, FoundOther
<1>2. CASE AcceptPath(t)
  <2>1. pc[t] = "check" /\ pc'[t] = "slot" /\ UNCHANGED <<value, call, attempts>>
    BY <1>2 DEF AcceptPath, Goto, IInv, TypeOK
  <2>2. Stage(t) = 13 /\ Stage(t)' \in {8, 10}
    BY <2>1 DEF Stage
  <2> QED BY <2>1, <2>2, MoveAdvances
<1>3. CASE \E l \in Layers : Enter(t, l) \/ FoundError(t, l) \/ Found(t, l)
  BY <1>3, EnterAdvances, FoundErrorAdvances, FoundAdvances
<1>4. CASE CandidateFails(t)
  BY <1>4, CandidateFailsAdvances
<1>5. CASE OpenCandidate(t) \/ CandidatesExhausted(t) \/ OpenExact(t) \/ Build(t) \/ Validate(t)
  <2>1. PICK l \in Layers, r \in Results : Closing(t, l, r) /\ Keep(t, l, r)
    BY <1>5, ClosureEnds
  <2> QED BY <2>1, KeepAdvances
<1>6. CASE InitDriver(t)
  BY <1>6, ReturnAdvances DEF InitDriver
<1> QED BY <1>1, <1>2, <1>3, <1>4, <1>5, <1>6 DEF Step

\* A call takes boundedly many steps and is never set back: with the fairness
\* of a thread's steps, and nobody waiting in vain, it returns.
THEOREM CallsComeToAnEnd == Spec => CallsAdvance
<1>1. ASSUME IInv, [Next]_vars, NEW t \in Threads
      PROVE  /\ pc[t] # "idle" => StepsLeft(t)' <= StepsLeft(t)
             /\ Step(t) => StepsLeft(t)' < StepsLeft(t)
  <2>1. Grows
    BY <1>1, CellsOnlyFill
  <2>2. CASE Step(t)
    <3>1. pc[t] # "idle"
      BY <2>2 DEF Step, RejectPath, AcceptPath, Enter, FoundError, Found, FoundOther,
         OpenCandidate, CandidateFails, CandidatesExhausted, OpenExact, Build, Validate,
         InitDriver, Layers
    <3> QED BY <1>1, <2>2, StepAdvances DEF Nearer
  <2>3. CASE Start(t)
    <3>1. pc[t] = "idle" /\ ~Step(t)
      BY <2>3 DEF Start, Step, RejectPath, AcceptPath, Enter, FoundError, Found, FoundOther,
         OpenCandidate, CandidateFails, CandidatesExhausted, OpenExact, Build, Validate,
         InitDriver, Layers
    <3> QED BY <3>1
  <2>4. CASE ~Step(t) /\ ~Start(t)
    <3>1. pc'[t] = pc[t] /\ call'[t] = call[t] /\ attempts'[t] = attempts[t]
      BY <1>1, <2>4, StepsAreOwn DEF IInv, Next, vars
    <3> QED BY <1>1, <2>1, <2>4, <3>1, NotSetBack
  <2> QED BY <2>2, <2>3, <2>4
<1>2. IInv /\ [Next]_vars => [\A t \in Threads :
           /\ pc[t] # "idle" => StepsLeft(t)' <= StepsLeft(t)
           /\ Step(t) => StepsLeft(t)' < StepsLeft(t)]_vars
  BY <1>1
<1> QED BY <1>2, Invariance, NobodyWaitsInVain, PTL DEF Spec, CallsAdvance

=============================================================================
