--------------------------- MODULE ExperimentHarness ---------------------------
(***************************************************************************)
(* run_one of run_experiment.py, called again and again by a sweep: clear  *)
(* stragglers, launch, wait until ready, record, send the goal, tear down. *)
(* Meanwhile the launched processes start each other, crash and answer,    *)
(* and the harness itself may die at any step; the next sweep then meets   *)
(* what it left behind.                                                    *)
(*                                                                         *)
(* A process is <<run, kind>>: "launch" is ros2 launch and the plain nodes *)
(* it starts, "loader" the two load_controller commands, "daemon" the      *)
(* ros2cli daemon these start, which leaves its process group.             *)
(***************************************************************************)
EXTENDS Integers

CONSTANT MaxRuns   \* bound: calls of run_one

ASSUME HarnessAssumption == MaxRuns \in Nat

Run == 1 .. MaxRuns
Kind == {"launch", "sim", "loader", "daemon", "recorder"}

\* PKILL_PATTERN, and the process group of start_new_session.
Matched == {"launch", "sim", "daemon"}
Group == {"launch", "sim", "loader"}

VARIABLES
  run,        \* the number of the current or latest call
  at,         \* where that call is
  outcome,    \* what became of each call
  alive,      \* the processes alive
  born,       \* the processes ever started
  loaded,     \* READY_LINE is in the log of the current launch
  context,    \* rclpy is initialised in the harness's process
  goal,       \* the call's goal at the action server
  server,     \* the run whose action server answered it
  forced,     \* publish_force_start was called
  verdict     \* what send_goal returned

processes == <<alive, born>>
exchange == <<goal, server, forced>>
vars == <<run, at, outcome, processes, loaded, context, exchange, verdict>>

Stage == {"idle", "begun", "cleared", "waiting", "ready", "recording", "connected",
          "asking", "executing", "stopping", "closing", "killing", "reaping"}

TypeOK ==
  /\ run \in 0 .. MaxRuns
  /\ at \in Stage
  /\ outcome \in [Run -> {"none", "running", "returned", "raised", "died"}]
  /\ alive \subseteq Run \X Kind /\ born \subseteq Run \X Kind
  /\ loaded \in BOOLEAN /\ context \in BOOLEAN /\ forced \in BOOLEAN
  /\ goal \in {"none", "sent", "rejected", "accepted", "succeeded", "failed"}
  /\ server \in 0 .. MaxRuns
  /\ verdict \in {"none", "refused", "unknown", "success", "error", "raised"}

-----------------------------------------------------------------------------
Step(here, next) == at = here /\ at' = next

Start(p) == alive' = alive \cup {p} /\ born' = born \cup {p}

\* Mutation: the status of the action is not looked at.
ResultUnchecked(v) == IF v = "raised" THEN "raised" ELSE "returned"

\* Only an accepted goal that ended with SUCCESS lets the call return.
Result(v) == IF v = "success" THEN "returned" ELSE "raised"

\* pkill_stragglers
Reap ==
  /\ alive' = {p \in alive : p[2] \notin Matched}
  /\ UNCHANGED born

\* Mutation: a launch that has exited is taken for a tree that has.
KillTreeIfLaunched ==
  /\ alive' = IF <<run, "launch">> \in alive
                THEN {p \in alive : p[1] = run => p[2] \notin Group}
                ELSE alive
  /\ UNCHANGED born

\* kill_launch_tree: the group is found although its leader has exited, because
\* nobody waited for it.
KillTree ==
  /\ alive' = {p \in alive : p[1] = run => p[2] \notin Group}
  /\ UNCHANGED born

-----------------------------------------------------------------------------
\* The bag directory may exist already.
Begin ==
  /\ run < MaxRuns /\ run' = run + 1
  /\ \/ /\ Step("idle", "begun")
        /\ outcome' = [outcome EXCEPT ![run + 1] = "running"]
     \/ /\ Step("idle", "idle")
        /\ outcome' = [outcome EXCEPT ![run + 1] = "raised"]
  /\ goal' = "none" /\ server' = 0 /\ forced' = FALSE /\ verdict' = "none"
  /\ UNCHANGED <<processes, loaded, context>>

\* Mutation: stragglers are cleared at the end alone.
ClearNothing ==
  /\ Step("begun", "cleared")
  /\ UNCHANGED <<run, outcome, processes, loaded, context, exchange, verdict>>

Clear ==
  /\ Step("begun", "cleared")
  /\ Reap
  /\ UNCHANGED <<run, outcome, loaded, context, exchange, verdict>>

\* The log is opened anew.
Launch ==
  /\ Step("cleared", "waiting")
  /\ Start(<<run, "launch">>)
  /\ loaded' = FALSE
  /\ UNCHANGED <<run, outcome, context, exchange, verdict>>

\* pgrep asks for a simulator, whosever it is.
BecomeReady ==
  /\ Step("waiting", "ready")
  /\ loaded /\ \E p \in alive : p[2] = "sim"
  /\ UNCHANGED <<run, outcome, processes, loaded, context, exchange, verdict>>

NeverReady ==
  /\ Step("waiting", "reaping")
  /\ KillTree
  /\ UNCHANGED <<run, outcome, loaded, context, exchange, verdict>>

Record ==
  /\ Step("ready", "recording")
  /\ Start(<<run, "recorder">>)
  /\ UNCHANGED <<run, outcome, loaded, context, exchange, verdict>>

\* rclpy.init raises in a process that is initialised already.
Connect ==
  /\ \/ /\ ~context /\ context' = TRUE
        /\ Step("recording", "connected")
        /\ UNCHANGED verdict
     \/ /\ context /\ UNCHANGED context
        /\ Step("recording", "stopping")
        /\ verdict' = "raised"
  /\ UNCHANGED <<run, outcome, processes, loaded, exchange>>

\* The node, its client or its publisher cannot be created: no shutdown.
NodeFails ==
  /\ Step("connected", "stopping")
  /\ verdict' = "raised"
  /\ UNCHANGED <<run, outcome, processes, loaded, context, exchange>>

\* send_goal is over, one way or another, and shuts its context down.
Leave(here, v) ==
  /\ Step(here, "stopping")
  /\ verdict' = v
  /\ context' = FALSE
  /\ UNCHANGED <<run, outcome, processes, loaded, goal, server>>

NoServer == Leave("connected", "refused") /\ UNCHANGED forced

SendGoal ==
  /\ Step("connected", "asking")
  /\ goal' = "sent"
  /\ UNCHANGED <<run, outcome, processes, loaded, context, server, forced, verdict>>

\* Rejected, or no answer in time; the server may have accepted or still accept.
NotAccepted == Leave("asking", "refused") /\ UNCHANGED forced

Accepted ==
  /\ Step("asking", "executing")
  /\ goal \in {"accepted", "succeeded", "failed"}
  /\ forced' = TRUE
  /\ UNCHANGED <<run, outcome, processes, loaded, context, goal, server, verdict>>

ResultArrives ==
  /\ \/ goal = "succeeded" /\ Leave("executing", "success")
     \/ goal = "failed" /\ Leave("executing", "error")
  /\ UNCHANGED forced

NoResult == Leave("executing", "unknown") /\ UNCHANGED forced

\* Anything in the try block may raise; send_goal then shuts down what it opened.
Raise ==
  /\ \/ \E here \in {"connected", "asking", "executing"} : Leave(here, "raised")
     \/ /\ Step("recording", "stopping") /\ verdict' = "raised"
        /\ UNCHANGED <<run, outcome, processes, loaded, context, goal, server>>
  /\ UNCHANGED forced

InterruptRecorder ==
  /\ Step("stopping", "closing")
  /\ UNCHANGED <<run, outcome, processes, loaded, context, exchange, verdict>>

\* Mutation: bag_proc.wait() without a timeout.
AwaitRecorder ==
  /\ Step("closing", "killing")
  /\ <<run, "recorder">> \notin alive
  /\ UNCHANGED <<run, outcome, processes, loaded, context, exchange, verdict>>

\* The recorder has exited, or is killed after the timeout.
StopRecorder ==
  /\ Step("closing", "killing")
  /\ alive' = alive \ {<<run, "recorder">>}
  /\ UNCHANGED <<run, outcome, born, loaded, context, exchange, verdict>>

TearDown ==
  /\ Step("killing", "reaping")
  /\ KillTree
  /\ UNCHANGED <<run, outcome, loaded, context, exchange, verdict>>

End ==
  /\ Step("reaping", "idle")
  /\ Reap
  /\ outcome' = [outcome EXCEPT ![run] = Result(verdict)]
  /\ UNCHANGED <<run, loaded, context, exchange, verdict>>

\* The harness is killed, or raises outside its try block.
Die ==
  /\ at # "idle" /\ at' = "idle"
  /\ outcome' = [outcome EXCEPT ![run] = "died"]
  /\ context' = FALSE
  /\ UNCHANGED <<run, processes, loaded, exchange, verdict>>

-----------------------------------------------------------------------------
\* A live process starts another, once.
Spawn(parent, child) ==
  /\ \E r \in Run :
       /\ <<r, parent>> \in alive /\ <<r, child>> \notin born
       /\ Start(<<r, child>>)
  /\ UNCHANGED <<run, at, outcome, loaded, context, exchange, verdict>>

StartSim == Spawn("launch", "sim")

\* OnProcessStart of the simulator.
StartLoader ==
  /\ \E r \in Run : <<r, "launch">> \in alive /\ <<r, "sim">> \in born
                    /\ <<r, "loader">> \notin born /\ Start(<<r, "loader">>)
  /\ UNCHANGED <<run, at, outcome, loaded, context, exchange, verdict>>

StartDaemon == Spawn("loader", "daemon")

\* The loader reports success into the launch's log, and exits.
Load ==
  /\ {<<run, "launch">>, <<run, "sim">>, <<run, "loader">>} \subseteq alive
  /\ alive' = alive \ {<<run, "loader">>}
  /\ loaded' = TRUE
  /\ UNCHANGED <<run, at, outcome, born, context, exchange, verdict>>

\* Any process may exit or crash.
Exit ==
  /\ \E p \in alive : alive' = alive \ {p}
  /\ UNCHANGED <<run, at, outcome, born, loaded, context, exchange, verdict>>

\* Domains are drawn at random: any action server alive may share the goal's.
Answer ==
  /\ goal = "sent"
  /\ \E r \in Run : <<r, "launch">> \in alive /\ server' = r
  /\ goal' \in {"accepted", "rejected"}
  /\ UNCHANGED <<run, at, outcome, processes, loaded, context, forced, verdict>>

Execute ==
  /\ goal = "accepted" /\ <<server, "launch">> \in alive
  /\ goal' \in {"succeeded", "failed"}
  /\ UNCHANGED <<run, at, outcome, processes, loaded, context, server, forced, verdict>>

-----------------------------------------------------------------------------
Init ==
  /\ run = 0 /\ at = "idle"
  /\ outcome = [r \in Run |-> "none"]
  /\ alive = {} /\ born = {}
  /\ loaded = FALSE /\ context = FALSE
  /\ goal = "none" /\ server = 0 /\ forced = FALSE /\ verdict = "none"

\* The steps of one call after its beginning.
Proceed ==
  \/ Clear \/ Launch \/ BecomeReady \/ NeverReady \/ Record
  \/ Connect \/ NodeFails \/ NoServer \/ SendGoal \/ NotAccepted \/ Accepted
  \/ ResultArrives \/ NoResult \/ Raise
  \/ InterruptRecorder \/ StopRecorder \/ TearDown \/ End

World == StartSim \/ StartLoader \/ StartDaemon \/ Load \/ Exit \/ Answer \/ Execute

Next == Begin \/ Proceed \/ Die \/ World

Spec == Init /\ [][Next]_vars

\* The harness's process is scheduled; of the world nothing is assumed.
FairSpec == Spec /\ WF_vars(Proceed)

-----------------------------------------------------------------------------
\* "Guarantee bag/launch teardown even if send_goal() (or anything else above)
\* raises" (run_one): a call that has returned or raised leaves no process alive,
\* neither those of its own process group, nor the daemon that left it, nor the
\* recorder; whatever is alive is of the present call or of one that died.
NothingLeft ==
  \A p \in alive : outcome[p[1]] = "died" \/ (p[1] = run /\ at # "idle")

\* pgrep cannot tell whose simulator it found, but a call that goes on as ready has
\* only its own to find: what a died call left behind is never taken for it.
ReadyIsOwn ==
  [][BecomeReady => \A p \in alive : p[2] = "sim" => p[1] = run]_vars

\* "This used to return normally regardless" (run_one): when a call returns, its
\* goal was accepted by the action server of its own launch, under a started force
\* schedule, and succeeded there.
ReturnMeansSuccess ==
  (run > 0 /\ outcome[run] = "returned") =>
    goal = "succeeded" /\ server = run /\ forced

\* Seen from a sweep, the whole of it is the contract of RunContract.
Contract ==
  INSTANCE RunContract WITH
    calling <- at # "idle",
    last <- IF run = 0 THEN "none" ELSE outcome[run],
    arrived <- goal = "succeeded" /\ server = run /\ forced

\* Through every crash, timeout and late answer, one call at a time begins, ends once,
\* and returns only when its own goal arrived: nothing of a call leaks into the next.
ImplementsContract == Contract!Spec

\* Every wait has a timeout: a call comes to its end whatever the processes do,
\* also if none ever becomes ready, answers or stops.
EveryCallEnds == \A r \in Run : run = r /\ at # "idle" ~> at = "idle"
=============================================================================
