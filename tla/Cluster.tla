------------------------------ MODULE Cluster ------------------------------
(***************************************************************************)
(* One container ("rank") on the head and on every worker, brought up and  *)
(* down by the scripts start, stop and autostart, which run on the head    *)
(* and reach the workers by ssh, and by the service that runs autostart at *)
(* boot and again when it fails.                                           *)
(*                                                                         *)
(* Machines lose power, dockerd stops and comes back, ranks die, between   *)
(* any two steps of a script.  What dockerd finds it starts again (restart:*)
(* unless-stopped).  On a machine that boots, ssh answers before dockerd   *)
(* does, and the scripts take `docker ps` without an answer for a `docker  *)
(* ps` without a container.                                                *)
(*                                                                         *)
(* One script runs at a time: there is no lock, and the operator is taken  *)
(* to look at the service before typing.                                   *)
(***************************************************************************)
EXTENDS Integers, Sequences, SequencesExt

CONSTANTS Workers,     \* the workers, in the order of WORKER_HOST, WORKER2_HOST
          Confs,       \* contents of .env.dspark
          MaxFaults,   \* bound: faults
          MaxCommands  \* bound: commands of the operator

HeadNode == "head"
Machines == {HeadNode} \cup ToSet(Workers)

\* What the scripts go through: the workers first when ranks are started.
UpOrder == Append(Workers, HeadNode)
HeadFirst == <<HeadNode>> \o Workers
StopOrder == HeadFirst \o HeadFirst

ASSUME ClusterAssumption ==
    /\ Workers \in Seq(STRING) /\ Workers # <<>> /\ HeadNode \notin ToSet(Workers)
    /\ "none" \notin Confs
    /\ MaxFaults \in Nat /\ MaxCommands \in Nat

VARIABLES
    machine,  \* "down", "starting" (ssh but no dockerd), "up"
    rank,     \* configuration of the container of a machine, or "none"
    env,      \* .env.dspark
    renv,     \* its copy on a worker
    api,      \* "none", "joined", "lost" (the head answers, a worker is gone)
    script,   \* "none", "autostart", "stop", "start"
    pc, i,    \* its section, and machine of the section that is next
    snap,     \* the private copy of .env.dspark of this start
    reach,    \* WORKER_REACHABLE of this stop
    failures, \* STOP_FAILURES > 0
    exit,     \* status of the last script, 99 while one runs
    caller,   \* "operator", "service"
    service,  \* "off", "run", "retry", "done"
    blind,    \* history: machines whose rank a script may have missed, because
              \* dockerd did not answer, and has not removed or replaced since
    faults, commands

hostVars == <<machine, rank, api, blind>>
runVars == <<script, pc, i, snap, reach, failures, exit, caller>>
vars == <<hostVars, env, renv, runVars, service, faults, commands>>

Init ==
    /\ machine = [m \in Machines |-> "up"]
    /\ rank = [m \in Machines |-> "none"]
    /\ env \in Confs
    /\ renv = [w \in ToSet(Workers) |-> env]
    /\ api = "none"
    /\ script = "none" /\ pc = "" /\ i = 1
    /\ snap = env
    /\ reach = {} /\ failures = FALSE
    /\ exit = 0 /\ caller = "operator"
    /\ service \in {"off", "run"}
    /\ blind = {}
    /\ faults = 0 /\ commands = 0

-----------------------------------------------------------------------------
(* Ranks *)

\* The engine without the rank of m: the head's API dies with the head only.
Without(m) == IF m = HeadNode THEN "none" ELSE IF api = "joined" THEN "lost" ELSE api

Complete == \A m \in Machines : machine[m] = "up" /\ rank[m] # "none"

\* The ranks have booted and found each other; none asks the others for their
\* configuration.
Join ==
    /\ api = "none" /\ Complete
    /\ api' = "joined"
    /\ UNCHANGED <<machine, rank, blind, env, renv, runVars, service, faults, commands>>

\* The head notices that it lost a worker, dies and boots again.
Notice ==
    /\ api = "lost"
    /\ api' = "none"
    /\ UNCHANGED <<machine, rank, blind, env, renv, runVars, service, faults, commands>>

\* docker rm -f
RemoveRank(m) ==
    /\ rank' = [rank EXCEPT ![m] = "none"]
    /\ api' = IF rank[m] = "none" THEN api ELSE Without(m)

\* docker compose up -d: a container of another configuration is replaced.
Up(m, c) ==
    /\ rank' = [rank EXCEPT ![m] = c]
    /\ api' = IF rank[m] \in {"none", c} THEN api ELSE Without(m)

-----------------------------------------------------------------------------
(* Sections of the scripts *)

Goto(p) == pc' = p /\ i' = 1

In(s, p) == script = s /\ pc = p

\* The next machine of the section, or the next section.
NextIn(order, p) == IF i = Len(order) THEN Goto(p) ELSE i' = i + 1 /\ pc' = pc

\* Whom the end of the script returns to.
Exit(status) ==
    /\ exit' = status
    /\ IF script = "stop" /\ caller = "service"
       THEN script' = "start" /\ Goto("image") /\ snap' = env /\ UNCHANGED service
       ELSE /\ script' = "none" /\ Goto("") /\ UNCHANGED snap
            /\ service' = IF caller # "service" THEN service
                          ELSE IF status = 0 THEN "done" ELSE "retry"
    /\ UNCHANGED <<reach, failures, caller>>

Continue == UNCHANGED <<script, snap, exit, caller, service>>

\* dockerd of m is asked for the rank: without an answer none is seen.
Looked(m) == blind' = IF machine[m] = "up" THEN blind ELSE blind \cup {m}

\* dockerd of m is to change the rank.
Changed(m) == blind' = IF machine[m] = "up" THEN blind \ {m} ELSE blind \cup {m}

Run(s, p, who) ==
    /\ script' = s /\ Goto(p) /\ caller' = who
    /\ snap' = env /\ reach' = {} /\ failures' = FALSE /\ exit' = 99

-----------------------------------------------------------------------------
(* stop-deepseek-v4-flash-dspark.sh *)

Probe ==
    /\ In("stop", "probe")
    /\ reach' = IF machine[Workers[i]] = "down" THEN reach ELSE reach \cup {Workers[i]}
    /\ NextIn(Workers, "remove")
    /\ Continue
    /\ UNCHANGED <<hostVars, env, renv, failures, faults, commands>>

\* Fault: a worker that was not reachable is skipped.
UnreachedSkipped(m) == m # HeadNode /\ m \in reach /\ machine[m] = "down"

\* The first pass counts a worker that the probe did not reach.
Unreached(m) == m # HeadNode /\ (machine[m] = "down" \/ m \notin reach)

\* stop_main_head, stop_main_worker, then force_rm_project_containers
StopOn ==
    /\ In("stop", "remove")
    /\ LET m == StopOrder[i] IN
         /\ failures' = (failures \/ Unreached(m))
         /\ IF m # HeadNode /\ (m \notin reach \/ machine[m] = "down") THEN UNCHANGED <<rank, api, blind>>
            ELSE /\ Changed(m)
                 /\ IF machine[m] = "up" THEN RemoveRank(m) ELSE UNCHANGED <<rank, api>>
    /\ NextIn(StopOrder, "stopped")
    /\ Continue
    /\ UNCHANGED <<machine, env, renv, reach, faults, commands>>

Stopped ==
    /\ In("stop", "stopped")
    /\ Exit(IF failures THEN 1 ELSE 0)
    /\ UNCHANGED <<hostVars, env, renv, faults, commands>>

-----------------------------------------------------------------------------
(* start-deepseek-v4-flash-dspark.sh *)

Check(p, ok, status, order, next) ==
    /\ In("start", p)
    /\ IF ok THEN NextIn(order, next) /\ Continue /\ UNCHANGED <<reach, failures>>
       ELSE Exit(status)
    /\ UNCHANGED <<machine, rank, api, env, faults, commands>>

\* docker image inspect; every worker: ssh true, docker image inspect
Image ==
    LET m == HeadFirst[i] IN
      /\ Check("image", machine[m] = "up", 1, HeadFirst, "head")
      /\ UNCHANGED <<blind, renv>>

\* Fault: only what the API answers counts as running.
HeadFreeApi == api # "joined"

\* Fault: only a rank of the present configuration counts as running.
HeadFreeConf == machine[HeadNode] # "up" \/ rank[HeadNode] # snap

\* No answer is no container.
HeadFree == machine[HeadNode] # "up" \/ rank[HeadNode] = "none"

\* Already running: exit 3.
CheckHead == Check("head", HeadFree, 3, <<HeadNode>>, "workers") /\ Looked(HeadNode) /\ UNCHANGED renv

CheckWorker ==
    LET w == Workers[i] IN
      /\ Check("workers", machine[w] # "down" /\ ~(machine[w] = "up" /\ rank[w] # "none"),
               IF machine[w] = "down" THEN 255 ELSE 1, Workers, "sync")
      /\ IF machine[w] = "down" THEN UNCHANGED blind ELSE Looked(w)
      /\ UNCHANGED renv

\* The environment of a worker is written next to its place and renamed.
RemoteCopy(w) == IF machine[w] = "down" THEN renv[w] ELSE snap

\* Files and environment, machine by machine.
Sync ==
    LET w == Workers[i] IN
      /\ Check("sync", machine[w] # "down", 255, Workers, "preflight")
      /\ renv' = [renv EXCEPT ![w] = RemoteCopy(w)]
      /\ UNCHANGED blind

\* validate_compose and the --check runs in containers of their own.
Preflight ==
    LET m == UpOrder[i] IN
      /\ Check("preflight", machine[m] = "up", 1, UpOrder, "up")
      /\ UNCHANGED <<blind, renv>>

\* The workers, then the head.
UpRank ==
    /\ In("start", "up")
    /\ LET m == UpOrder[i] IN
         IF machine[m] = "up"
         THEN /\ Up(m, IF m = HeadNode THEN snap ELSE renv[m])
              /\ Changed(m)
              /\ NextIn(UpOrder, "wait")
              /\ Continue /\ UNCHANGED <<reach, failures>>
         ELSE Exit(1) /\ UNCHANGED <<rank, api, blind>>
    /\ UNCHANGED <<machine, env, renv, faults, commands>>

\* An incompatible file, a container that cannot be created, a wait too short.
StepFails ==
    /\ script = "start" /\ pc \in {"preflight", "up", "wait"} /\ faults < MaxFaults
    /\ faults' = faults + 1
    /\ Exit(1)
    /\ UNCHANGED <<hostVars, env, renv, commands>>

\* The API answers.
Answers ==
    /\ In("start", "wait") /\ api # "none"
    /\ Goto("chat") /\ Continue
    /\ UNCHANGED <<hostVars, env, renv, reach, failures, faults, commands>>

\* WAIT_ATTEMPTS are used up, and the ranks stay as they are.
TimedOut ==
    /\ In("start", "wait") /\ api = "none" /\ ~Complete
    /\ Exit(1)
    /\ UNCHANGED <<hostVars, env, renv, faults, commands>>

\* One chat completion; the warm-up after it fails nothing.
Chat ==
    /\ In("start", "chat")
    /\ Exit(IF api = "joined" THEN 0 ELSE 22)
    /\ UNCHANGED <<hostVars, env, renv, faults, commands>>

-----------------------------------------------------------------------------
(* dspark-autostart.sh and dspark.service *)

\* Waits for dockerd, for as long as 60 * 5 s.
WaitDocker ==
    /\ In("autostart", "docker")
    /\ \/ machine[HeadNode] = "up" /\ Goto("worker") /\ Continue /\ UNCHANGED <<reach, failures>>
       \/ machine[HeadNode] # "up" /\ Exit(1)
    /\ UNCHANGED <<hostVars, env, renv, faults, commands>>

\* Fault: the ranks an earlier attempt left are not stopped.
StartAtOnce == script' = "start" /\ Goto("image")

\* Stop first, and go on whatever it says.
StopFirst == script' = "stop" /\ Goto("probe")

\* Waits for the first worker, for as long as 120 * 10 s.
WaitWorker ==
    /\ In("autostart", "worker")
    /\ IF machine[Workers[1]] # "down"
       THEN /\ StopFirst
            /\ snap' = env /\ reach' = {} /\ failures' = FALSE
            /\ UNCHANGED <<exit, caller, service>>
       ELSE Exit(1)
    /\ UNCHANGED <<hostVars, env, renv, faults, commands>>

\* The unit at boot, and RestartSec after a failure.
Service ==
    /\ script = "none" /\ service \in {"run", "retry"} /\ machine[HeadNode] # "down"
    /\ service' = "run"
    /\ Run("autostart", "docker", "service")
    /\ UNCHANGED <<hostVars, env, renv, faults, commands>>

\* The operator edits .env.dspark, or not, and runs a script.
Command ==
    /\ script = "none" /\ service # "run" /\ machine[HeadNode] # "down"
    /\ commands < MaxCommands
    /\ commands' = commands + 1
    /\ env' \in Confs
    /\ script' \in {"start", "stop"}
    /\ Goto(IF script' = "start" THEN "image" ELSE "probe")
    /\ caller' = "operator"
    /\ snap' = env' /\ reach' = {} /\ failures' = FALSE /\ exit' = 99
    /\ UNCHANGED <<hostVars, renv, service, faults>>

-----------------------------------------------------------------------------
(* Faults *)

\* Power fails.  On the head the script is gone, and the unit is to run again.
PowerFails(m) ==
    /\ machine[m] # "down" /\ faults < MaxFaults
    /\ faults' = faults + 1
    /\ machine' = [machine EXCEPT ![m] = "down"]
    /\ api' = Without(m)
    /\ IF m = HeadNode
       THEN /\ script' = "none" /\ Goto("")
            /\ exit' = IF script = "none" THEN exit ELSE 137
            /\ service' = IF service = "off" THEN "off" ELSE "run"
            /\ UNCHANGED <<snap, reach, failures, caller>>
       ELSE UNCHANGED <<runVars, service>>
    /\ UNCHANGED <<rank, blind, env, renv, commands>>

Boots(m) ==
    /\ machine[m] = "down"
    /\ machine' = [machine EXCEPT ![m] = "starting"]
    /\ UNCHANGED <<rank, api, blind, env, renv, runVars, service, faults, commands>>

\* dockerd starts the ranks it finds.
DockerReady(m) ==
    /\ machine[m] = "starting"
    /\ machine' = [machine EXCEPT ![m] = "up"]
    /\ UNCHANGED <<rank, api, blind, env, renv, runVars, service, faults, commands>>

DockerStops(m) ==
    /\ machine[m] = "up" /\ faults < MaxFaults
    /\ faults' = faults + 1
    /\ machine' = [machine EXCEPT ![m] = "starting"]
    /\ api' = Without(m)
    /\ UNCHANGED <<rank, blind, env, renv, runVars, service, commands>>

\* A rank dies and dockerd starts it again.
RankDies(m) ==
    /\ machine[m] = "up" /\ rank[m] # "none" /\ faults < MaxFaults
    /\ faults' = faults + 1
    /\ api' = Without(m)
    /\ UNCHANGED <<machine, rank, blind, env, renv, runVars, service, commands>>

StartStep ==
    \/ Image \/ CheckHead \/ CheckWorker \/ Sync \/ Preflight \/ UpRank
    \/ Answers \/ TimedOut \/ Chat

Script == StartStep \/ Probe \/ StopOn \/ Stopped \/ WaitDocker \/ WaitWorker

Recover(m) == Boots(m) \/ DockerReady(m)

Next ==
    \/ Script \/ StepFails \/ Service \/ Command \/ Join \/ Notice
    \/ \E m \in Machines : Recover(m) \/ PowerFails(m) \/ DockerStops(m) \/ RankDies(m)

Spec == Init /\ [][Next]_vars

\* Scripts run on, machines boot, ranks find each other, systemd retries.
FairSpec ==
    /\ Spec
    /\ WF_vars(Script) /\ WF_vars(Service) /\ WF_vars(Join) /\ WF_vars(Notice)
    /\ \A m \in Machines : WF_vars(Recover(m))

-----------------------------------------------------------------------------
(* Properties *)

\* A stop that is about to report success has left no rank on a machine whose
\* dockerd answered it, whatever failed while it ran.
StoppedMeansGone ==
    In("stop", "stopped") /\ ~failures => \A m \in Machines \ blind : rank[m] = "none"

\* What stop's comment says: a success is not reported while a worker keeps a
\* rank that its dockerd brings back.
NoRankComesBack ==
    In("stop", "stopped") /\ ~failures => \A w \in ToSet(Workers) : rank[w] = "none"

\* Ranks never serve together from two configurations, whatever the order in
\* which files were edited, ranks left behind, restored and replaced, unless a
\* script missed a rank because dockerd did not answer.
OneConfiguration ==
    api = "joined" /\ blind = {} => \A m \in Machines : rank[m] = rank[HeadNode]

\* start never takes down a cluster that serves, provided that no script missed
\* a rank because dockerd did not answer (blind): its checks would miss it too.
StartSparesServing ==
    [][StartStep /\ api = "joined" /\ blind = {} => api' = "joined"]_vars

\* Once faults have ended, the service that failed ends with a cluster that was
\* started and has answered a chat, whatever the attempts before left behind.
ServiceSucceeds == service \in {"run", "retry"} ~> service = "done"

=============================================================================
