------------------------ MODULE ExperimentHarness_proof ------------------------
(***************************************************************************)
(* Proofs about ExperimentHarness, for any number of calls.                *)
(***************************************************************************)
EXTENDS ExperimentHarness, TLAPS

\* A call is running exactly while the harness is in it; later ones have not begun.
OneCall ==
  /\ at # "idle" => run \in Run /\ outcome[run] = "running"
  /\ \A p \in born : p[1] <= run
  /\ alive \subseteq born

\* What a call has not started yet, and what it has stopped already.
Staged ==
  /\ at \in {"begun", "cleared"} => \A p \in alive : p[1] # run
  /\ at \in {"waiting", "ready", "killing", "reaping"} => <<run, "recorder">> \notin alive
  /\ at = "reaping" => \A p \in alive : p[1] = run => p[2] = "daemon"

\* From its clearing on, a call's launch and simulator are the only ones.
Alone ==
  at \notin {"idle", "begun"} =>
    \A p \in alive : p[2] \in {"launch", "sim"} => p[1] = run

\* The answer is from the call's own server, and success is a success there.
Answered ==
  /\ at \notin {"idle", "begun"} /\ goal \in {"accepted", "succeeded", "failed"} =>
       server = run
  /\ at = "begun" => goal = "none"
  /\ at \in {"begun", "cleared", "waiting", "ready", "recording", "connected", "asking"} =>
       forced = FALSE
  /\ at = "executing" => forced /\ goal \in {"accepted", "succeeded", "failed"}
  /\ verdict = "success" =>
       /\ at \in {"stopping", "closing", "killing", "reaping", "idle"}
       /\ at # "idle" => goal = "succeeded" /\ forced

IInv == TypeOK /\ OneCall /\ Staged /\ Alone /\ Answered /\ NothingLeft /\ ReturnMeansSuccess

-----------------------------------------------------------------------------
LEMMA InitInv == Init => IInv
<1> SUFFICES ASSUME Init PROVE IInv
  OBVIOUS
<1> USE DEF Init
<1>1. run \in 0 .. MaxRuns /\ server \in 0 .. MaxRuns
  BY HarnessAssumption
<1>2. outcome \in [Run -> {"none", "running", "returned", "raised", "died"}]
  OBVIOUS
<1>3. TypeOK
  BY <1>1, <1>2 DEF TypeOK, Stage
<1>4. OneCall /\ Staged /\ Alone /\ Answered /\ NothingLeft /\ ReturnMeansSuccess
  BY DEF OneCall, Staged, Alone, Answered, NothingLeft, ReturnMeansSuccess
<1> QED
  BY <1>3, <1>4 DEF IInv

\* A process is started by one of its own call, which is alive.
LEMMA SpawnFacts ==
  ASSUME TypeOK, StartSim \/ StartLoader \/ StartDaemon
  PROVE  /\ \E r \in Run : \E k \in {"sim", "loader", "daemon"} :
              /\ <<r, k>> \in Run \X Kind
              /\ alive' = alive \cup {<<r, k>>} /\ born' = born \cup {<<r, k>>}
              /\ \E parent \in {"launch", "loader"} :
                   /\ <<r, parent>> \in alive
                   /\ k = "sim" => parent = "launch"
         /\ UNCHANGED <<run, at, outcome, loaded, context, exchange, verdict>>
<1>1. CASE StartSim
  BY <1>1 DEF StartSim, Spawn, Start, Kind
<1>2. CASE StartLoader
  BY <1>2 DEF StartLoader, Start, Kind
<1>3. CASE StartDaemon
  BY <1>3 DEF StartDaemon, Spawn, Start, Kind
<1> QED
  BY <1>1, <1>2, <1>3

\* The types are kept.
LEMMA Types == IInv /\ [Next]_vars => TypeOK'
<1> SUFFICES ASSUME IInv, [Next]_vars PROVE TypeOK'
  OBVIOUS
<1> USE HarnessAssumption DEF IInv, TypeOK, Stage, Run, processes, exchange
<1>1. CASE Begin
    <2>1. run' \in 0 .. MaxRuns /\ server' \in 0 .. MaxRuns
      BY <1>1 DEF Begin
    <2>2. outcome' \in [Run -> {"none", "running", "returned", "raised", "died"}]
      BY <1>1 DEF Begin
    <2> QED
      BY <1>1, <2>1, <2>2 DEF Begin, Step
<1>2. CASE Clear \/ End
  BY <1>2 DEF Clear, End, Step, Reap, Result
<1>3. CASE Launch \/ Record
    <2>1. run \in Run
      BY <1>3 DEF Launch, Record, Step, OneCall
    <2>2. <<run, "launch">> \in Run \X Kind /\ <<run, "recorder">> \in Run \X Kind
      BY <2>1 DEF Kind
    <2>3. alive' \subseteq Run \X Kind /\ born' \subseteq Run \X Kind
      BY <1>3, <2>2 DEF Launch, Record, Start
    <2> QED
      BY <1>3, <2>3 DEF Launch, Record, Step
<1>4. CASE NeverReady \/ TearDown
  BY <1>4 DEF NeverReady, TearDown, Step, KillTree
<1>5. CASE BecomeReady \/ Connect \/ NodeFails \/ NoServer \/ SendGoal
  BY <1>5 DEF BecomeReady, Connect, NodeFails, NoServer, SendGoal, Step, Leave
<1>6. CASE NotAccepted \/ Accepted \/ ResultArrives \/ NoResult \/ Raise
  BY <1>6 DEF NotAccepted, Accepted, ResultArrives, NoResult, Raise, Step, Leave
<1>7. CASE InterruptRecorder \/ StopRecorder \/ Die
  BY <1>7 DEF InterruptRecorder, StopRecorder, Die, Step
<1>8. CASE StartSim \/ StartLoader \/ StartDaemon
    <2>1. UNCHANGED <<run, at, outcome, loaded, context, exchange, verdict>>
      BY <1>8, SpawnFacts
    <2>2. alive' \subseteq Run \X Kind /\ born' \subseteq Run \X Kind
      BY <1>8, SpawnFacts
    <2> QED
      BY <2>1, <2>2
<1>9. CASE Load \/ Exit
    <2>1. alive' \subseteq Run \X Kind /\ loaded' \in BOOLEAN
      BY <1>9 DEF Load, Exit
    <2> QED
      BY <1>9, <2>1 DEF Load, Exit
<1>10. CASE Answer \/ Execute
    <2>1. \A r \in Run : r \in 0 .. MaxRuns
      OBVIOUS
    <2>2. server' \in Run \cup {server}
      BY <1>10 DEF Answer, Execute
    <2>3. server' \in 0 .. MaxRuns
      BY <2>1, <2>2
    <2> QED
      BY <1>10, <2>3 DEF Answer, Execute
<1>11. CASE UNCHANGED vars
  BY <1>11 DEF vars
<1> QED
  BY <1>1, <1>2, <1>3, <1>4, <1>5, <1>6, <1>7, <1>8, <1>9, <1>10, <1>11
  DEF Next, Proceed, World

\* What the stages say is kept.
LEMMA Stages == IInv /\ [Next]_vars => OneCall' /\ Staged' /\ Alone'
<1> SUFFICES ASSUME IInv, [Next]_vars PROVE OneCall' /\ Staged' /\ Alone'
  OBVIOUS
<1> USE HarnessAssumption DEF IInv, TypeOK, Run, processes, exchange, OneCall, Staged, Alone
<1>1. CASE Begin
  BY <1>1 DEF Begin, Step
<1>2. CASE Clear \/ End
  BY <1>2 DEF Clear, End, Step, Reap, Matched
<1>3. CASE Launch \/ Record
  BY <1>3 DEF Launch, Record, Step, Start
<1>4. CASE NeverReady \/ TearDown
  BY <1>4 DEF NeverReady, TearDown, Step, KillTree, Group, Kind
<1>5. CASE BecomeReady \/ Connect \/ NodeFails \/ NoServer \/ SendGoal
  BY <1>5 DEF BecomeReady, Connect, NodeFails, NoServer, SendGoal, Step, Leave
<1>6. CASE NotAccepted \/ Accepted \/ ResultArrives \/ NoResult \/ Raise
  BY <1>6 DEF NotAccepted, Accepted, ResultArrives, NoResult, Raise, Step, Leave
<1>7. CASE InterruptRecorder \/ StopRecorder \/ Die
  BY <1>7 DEF InterruptRecorder, StopRecorder, Die, Step
<1>8. CASE StartSim \/ StartLoader \/ StartDaemon
    <2>1. PICK r \in Run, k \in {"sim", "loader", "daemon"}, parent \in {"launch", "loader"} :
               /\ alive' = alive \cup {<<r, k>>} /\ born' = born \cup {<<r, k>>}
               /\ <<r, parent>> \in alive
               /\ k = "sim" => parent = "launch"
      BY <1>8, SpawnFacts
    <2>2. UNCHANGED <<run, at, outcome, loaded, context, exchange, verdict>>
      BY <1>8, SpawnFacts
    <2> QED
      BY <2>1, <2>2
<1>9. CASE Load \/ Exit \/ Answer \/ Execute
  BY <1>9 DEF Load, Exit, Answer, Execute
<1>10. CASE UNCHANGED vars
  BY <1>10 DEF vars
<1> QED
  BY <1>1, <1>2, <1>3, <1>4, <1>5, <1>6, <1>7, <1>8, <1>9, <1>10
  DEF Next, Proceed, World

\* What is said of the goal is kept.
LEMMA Goals == IInv /\ [Next]_vars => Answered' /\ ReturnMeansSuccess'
<1> SUFFICES ASSUME IInv, [Next]_vars PROVE Answered' /\ ReturnMeansSuccess'
  OBVIOUS
<1> USE HarnessAssumption DEF IInv, TypeOK, Run, processes, exchange, OneCall, Answered, ReturnMeansSuccess
<1>1. CASE Begin
  BY <1>1 DEF Begin, Step
<1>2. CASE Clear \/ End
  BY <1>2 DEF Clear, End, Step, Result
<1>3. CASE Launch \/ Record
  BY <1>3 DEF Launch, Record, Step
<1>4. CASE NeverReady \/ TearDown
  BY <1>4 DEF NeverReady, TearDown, Step
<1>5. CASE BecomeReady \/ Connect \/ NodeFails \/ NoServer \/ SendGoal
  BY <1>5 DEF BecomeReady, Connect, NodeFails, NoServer, SendGoal, Step, Leave
<1>6. CASE NotAccepted \/ Accepted \/ ResultArrives \/ NoResult \/ Raise
  BY <1>6 DEF NotAccepted, Accepted, ResultArrives, NoResult, Raise, Step, Leave
<1>7. CASE InterruptRecorder \/ StopRecorder \/ Die
  BY <1>7 DEF InterruptRecorder, StopRecorder, Die, Step
<1>8. CASE StartSim \/ StartLoader \/ StartDaemon
  BY <1>8 DEF StartSim, StartLoader, StartDaemon, Spawn
<1>9. CASE Answer
  BY <1>9 DEF Answer, Alone
<1>10. CASE Load \/ Exit \/ Execute
  BY <1>10 DEF Load, Exit, Execute
<1>11. CASE UNCHANGED vars
  BY <1>11 DEF vars
<1> QED
  BY <1>1, <1>2, <1>3, <1>4, <1>5, <1>6, <1>7, <1>8, <1>9, <1>10, <1>11
  DEF Next, Proceed, World

\* Nothing is left of a call that has ended: the tree went with its group, the
\* recorder was waited for or killed, the daemon went with the stragglers.
LEMMA Leftovers == IInv /\ [Next]_vars => NothingLeft'
<1> SUFFICES ASSUME IInv, [Next]_vars PROVE NothingLeft'
  OBVIOUS
<1> USE HarnessAssumption DEF IInv, TypeOK, Run, processes, exchange, OneCall, NothingLeft
<1>1. CASE Begin
  BY <1>1 DEF Begin, Step
<1>2. CASE Clear
  BY <1>2 DEF Clear, Step, Reap
<1>3. CASE End
  BY <1>3 DEF End, Step, Reap, Matched, Staged
<1>4. CASE Launch \/ Record
  BY <1>4 DEF Launch, Record, Step, Start
<1>5. CASE NeverReady \/ TearDown
  BY <1>5 DEF NeverReady, TearDown, Step, KillTree
<1>6. CASE BecomeReady \/ Connect \/ NodeFails \/ NoServer \/ SendGoal
  BY <1>6 DEF BecomeReady, Connect, NodeFails, NoServer, SendGoal, Step, Leave
<1>7. CASE NotAccepted \/ Accepted \/ ResultArrives \/ NoResult \/ Raise
  BY <1>7 DEF NotAccepted, Accepted, ResultArrives, NoResult, Raise, Step, Leave
<1>8. CASE InterruptRecorder \/ StopRecorder \/ Die
  BY <1>8 DEF InterruptRecorder, StopRecorder, Die, Step
<1>9. CASE StartSim \/ StartLoader \/ StartDaemon
    <2>1. PICK r \in Run, k \in {"sim", "loader", "daemon"}, parent \in {"launch", "loader"} :
               /\ alive' = alive \cup {<<r, k>>} /\ born' = born \cup {<<r, k>>}
               /\ <<r, parent>> \in alive
               /\ k = "sim" => parent = "launch"
      BY <1>9, SpawnFacts
    <2>2. UNCHANGED <<run, at, outcome, loaded, context, exchange, verdict>>
      BY <1>9, SpawnFacts
    <2> QED
      BY <2>1, <2>2
<1>10. CASE Load \/ Exit \/ Answer \/ Execute
  BY <1>10 DEF Load, Exit, Answer, Execute
<1>11. CASE UNCHANGED vars
  BY <1>11 DEF vars
<1> QED
  BY <1>1, <1>2, <1>3, <1>4, <1>5, <1>6, <1>7, <1>8, <1>9, <1>10, <1>11
  DEF Next, Proceed, World

-----------------------------------------------------------------------------
\* The invariant: types, one call at a time, what each stage has started and
\* stopped, a single launch and simulator, and whose answer the goal got.
THEOREM HarnessInvariant == Spec => []IInv
<1>1. IInv /\ [Next]_vars => IInv'
  BY Types, Stages, Goals, Leftovers DEF IInv
<1> QED
  BY InitInv, <1>1, PTL DEF Spec

\* However calls fail, and wherever the harness died before, a call that has
\* returned or raised leaves no process behind.
THEOREM CallsCleanUp == Spec => []NothingLeft
<1>1. IInv => NothingLeft
  BY DEF IInv
<1> QED
  BY HarnessInvariant, <1>1, PTL

\* The types of run_one's state, and of the processes around it.
THEOREM HarnessTypes == Spec => []TypeOK
<1>1. IInv => TypeOK
  BY DEF IInv
<1> QED
  BY HarnessInvariant, <1>1, PTL

\* A call that returns had its goal executed with success by its own launch.
THEOREM ReturnsAreHonest == Spec => []ReturnMeansSuccess
<1>1. IInv => ReturnMeansSuccess
  BY DEF IInv
<1> QED
  BY HarnessInvariant, <1>1, PTL

\* A call never takes another's simulator for its own.
THEOREM ReadinessIsOwn == Spec => ReadyIsOwn
<1>1. IInv /\ [Next]_vars =>
        [BecomeReady => \A p \in alive : p[2] = "sim" => p[1] = run]_vars
  BY DEF IInv, Alone, BecomeReady, Step
<1> QED
  BY HarnessInvariant, <1>1, PTL DEF Spec, ReadyIsOwn

-----------------------------------------------------------------------------
LEMMA ContractInit == Init => Contract!Init
BY DEF Init, Contract!Init

Arrived == goal = "succeeded" /\ server = run /\ forced

\* Steps inside a call, or of the processes, are stutters or the goal's arrival.
LEMMA ContractInside ==
  ASSUME UNCHANGED <<run, outcome>>, (at # "idle") = (at' # "idle"),
         Arrived => Arrived'
  PROVE  [Contract!Next]_(Contract!vars)
<1>1. (IF run = 0 THEN "none" ELSE outcome[run])' = IF run = 0 THEN "none" ELSE outcome[run]
  OBVIOUS
<1>2. CASE Arrived' = Arrived
  BY <1>1, <1>2 DEF Contract!vars, Arrived
<1>3. CASE ~Arrived /\ Arrived'
    <2>1. Contract!Arrive
      BY <1>1, <1>3 DEF Contract!Arrive, Arrived
    <2> QED
      BY <2>1 DEF Contract!Next
<1> QED
  BY <1>2, <1>3 DEF Arrived

LEMMA ContractStep == IInv /\ [Next]_vars => [Contract!Next]_(Contract!vars)
<1> SUFFICES ASSUME IInv, [Next]_vars PROVE [Contract!Next]_(Contract!vars)
  OBVIOUS
<1> USE HarnessAssumption DEF IInv, processes, exchange
<1>1. CASE Begin
    <2>1. run' # 0 /\ run' \in Run /\ outcome'[run'] \in {"running", "raised"}
      BY <1>1 DEF Begin, TypeOK, Run
    <2>2. CASE Step("idle", "begun")
      BY <1>1, <2>1, <2>2 DEF Begin, Step, TypeOK, Run, Contract!Call, Contract!Next
    <2>3. CASE Step("idle", "idle")
      BY <1>1, <2>1, <2>3 DEF Begin, Step, TypeOK, Run, Contract!Refuse, Contract!Next
    <2> QED
      BY <1>1, <2>2, <2>3 DEF Begin
<1>2. CASE End \/ Die
    <2>1. run # 0 /\ run \in Run /\ run' = run
      BY <1>2 DEF End, Die, Step, OneCall, Run
    <2>2. at # "idle" /\ at' = "idle"
      BY <1>2 DEF End, Die, Step
    <2>3. Arrived' = Arrived
      BY <1>2 DEF End, Die, Arrived
    <2>4. CASE Die
        <3>1. outcome'[run] = "died"
          BY <2>1, <2>4 DEF Die, TypeOK
        <3>2. Contract!Ends("died")
          BY <2>1, <2>2, <2>3, <3>1 DEF Contract!Ends, Arrived
        <3> QED
          BY <3>2 DEF Contract!Next
    <2>5. CASE End /\ verdict = "success"
        <3>1. outcome'[run] = "returned" /\ Arrived
          BY <2>1, <2>5 DEF End, Step, Result, TypeOK, Answered, Arrived
        <3>2. Contract!Return
          BY <2>1, <2>2, <2>3, <3>1 DEF Contract!Ends, Contract!Return, Arrived
        <3> QED
          BY <3>2 DEF Contract!Next
    <2>6. CASE End /\ verdict # "success"
        <3>1. outcome'[run] = "raised"
          BY <2>1, <2>6 DEF End, Result, TypeOK
        <3>2. Contract!Ends("raised")
          BY <2>1, <2>2, <2>3, <3>1 DEF Contract!Ends, Arrived
        <3> QED
          BY <3>2 DEF Contract!Next
    <2> QED
      BY <1>2, <2>4, <2>5, <2>6
<1>3. CASE Clear \/ Launch \/ BecomeReady \/ NeverReady \/ Record \/ Connect \/ NodeFails
    <2>1. UNCHANGED <<run, outcome, goal, server, forced>> /\ at # "idle" /\ at' # "idle"
      BY <1>3 DEF Clear, Launch, BecomeReady, NeverReady, Record, Connect, NodeFails, Step
    <2> QED
      BY <2>1, ContractInside DEF Arrived
<1>4. CASE NoServer \/ NotAccepted \/ ResultArrives \/ NoResult \/ Raise
    <2>1. UNCHANGED <<run, outcome, goal, server, forced>> /\ at # "idle" /\ at' # "idle"
      BY <1>4 DEF NoServer, NotAccepted, ResultArrives, NoResult, Raise, Leave, Step
    <2> QED
      BY <2>1, ContractInside DEF Arrived
<1>5. CASE InterruptRecorder \/ StopRecorder \/ TearDown
    <2>1. UNCHANGED <<run, outcome, goal, server, forced>> /\ at # "idle" /\ at' # "idle"
      BY <1>5 DEF InterruptRecorder, StopRecorder, TearDown, Step
    <2> QED
      BY <2>1, ContractInside DEF Arrived
<1>6. CASE SendGoal
    <2>1. UNCHANGED <<run, outcome>> /\ at # "idle" /\ at' # "idle" /\ ~Arrived
      BY <1>6 DEF SendGoal, Step, Answered, Arrived
    <2> QED
      BY <2>1, ContractInside
<1>7. CASE Accepted
    <2>1. UNCHANGED <<run, outcome>> /\ at # "idle" /\ at' # "idle" /\ ~Arrived
      BY <1>7 DEF Accepted, Step, Answered, Arrived
    <2> QED
      BY <2>1, ContractInside
<1>8. CASE StartSim \/ StartLoader \/ StartDaemon \/ Load \/ Exit
    <2>1. UNCHANGED <<run, at, outcome, goal, server, forced>>
      BY <1>8 DEF StartSim, StartLoader, StartDaemon, Spawn, Load, Exit
    <2> QED
      BY <2>1, ContractInside DEF Arrived
<1>9. CASE Answer \/ Execute
    <2>1. UNCHANGED <<run, at, outcome>> /\ ~Arrived
      BY <1>9 DEF Answer, Execute, Arrived
    <2> QED
      BY <2>1, ContractInside
<1>10. CASE UNCHANGED vars
    <2>1. UNCHANGED <<run, at, outcome, goal, server, forced>>
      BY <1>10 DEF vars
    <2> QED
      BY <2>1, ContractInside DEF Arrived
<1> QED
  BY <1>1, <1>2, <1>3, <1>4, <1>5, <1>6, <1>7, <1>8, <1>9, <1>10 DEF Next, Proceed, World

\* run_one implements its contract.
THEOREM HarnessImplements == Spec => ImplementsContract
BY HarnessInvariant, ContractInit, ContractStep, PTL DEF Spec, ImplementsContract, Contract!Spec
=============================================================================
