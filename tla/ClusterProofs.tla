--------------------------- MODULE ClusterProofs ---------------------------
(***************************************************************************)
(* Proofs about the cluster.                                               *)
(*                                                                         *)
(* Its scripts, for any number of workers, configurations, faults and      *)
(* commands: a stop that reports success has left no rank it could see,    *)
(* ranks never serve from two configurations, and a start does not take    *)
(* down what serves.                                                       *)
(*                                                                         *)
(* Its tensors (TensorPadding), for every number of groups, heads and      *)
(* ranks: padding keeps the heads of a group together, the ranks together  *)
(* load everything once, and what a rank has of one tensor fits what it    *)
(* has of another.                                                         *)
(***************************************************************************)
EXTENDS Cluster, TensorPadding, SequenceTheorems, TLAPS

-----------------------------------------------------------------------------
(* The invariant *)

Wanted == Confs \cup {"none"}

\* The sections of the scripts, and the machines each still has to do.
InSection ==
    /\ script = "stop" =>
         \/ pc = "probe" /\ i \in 1 .. Len(Workers)
         \/ pc = "remove" /\ i \in 1 .. Len(StopOrder)
         \/ pc = "stopped"
    /\ script = "start" =>
         \/ pc = "image" /\ i \in 1 .. Len(HeadFirst)
         \/ pc = "head" /\ i = 1
         \/ pc \in {"workers", "sync"} /\ i \in 1 .. Len(Workers)
         \/ pc \in {"preflight", "up"} /\ i \in 1 .. Len(UpOrder)
         \/ pc \in {"wait", "chat"}

TypeOK ==
    /\ machine \in [Machines -> {"down", "starting", "up"}]
    /\ rank \in [Machines -> Wanted]
    /\ env \in Confs /\ snap \in Confs
    /\ renv \in [ToSet(Workers) -> Confs]
    /\ api \in {"none", "joined", "lost"}
    /\ script \in {"none", "autostart", "stop", "start"} /\ InSection
    /\ reach \subseteq ToSet(Workers) /\ failures \in BOOLEAN
    /\ blind \subseteq Machines

\* m has no rank, or one of a configuration in S, unless a script missed it.
Clear(m, S) == m \in blind \/ rank[m] \in S \cup {"none"}

\* What a stop without failures has been through.
Sweep ==
    /\ In("stop", "remove") /\ ~ failures => \A k \in 1 .. i - 1 : Clear(StopOrder[k], {})
    /\ In("stop", "stopped") /\ ~ failures => \A m \in Machines : Clear(m, {})

\* What a start has found, copied and brought up.
Progress ==
    /\ In("start", "workers") => Clear(HeadNode, {}) /\ \A k \in 1 .. i - 1 : Clear(Workers[k], {})
    /\ script = "start" /\ pc \in {"sync", "preflight"} => \A m \in Machines : Clear(m, {})
    /\ In("start", "sync") => \A k \in 1 .. i - 1 : renv[Workers[k]] = snap
    /\ script = "start" /\ pc \in {"preflight", "up"} => \A w \in ToSet(Workers) : renv[w] = snap
    /\ In("start", "up") => \A m \in Machines : Clear(m, {snap})

\* The ranks that were not missed are of one configuration.
Agreed ==
    \A m, n \in Machines \ blind : rank[m] # "none" /\ rank[n] # "none" => rank[m] = rank[n]

\* What serves is whole.
Joined == api = "joined" => \A m \in Machines : rank[m] # "none"

ClusterInv == TypeOK /\ Sweep /\ Progress /\ Agreed /\ Joined

-----------------------------------------------------------------------------
(* The orders in which the scripts go through the machines *)

LEMMA Places ==
    /\ Len(Workers) \in Nat /\ Len(Workers) >= 1
    /\ ToSet(Workers) = {Workers[k] : k \in 1 .. Len(Workers)}
    /\ HeadNode \in Machines /\ ToSet(Workers) \subseteq Machines
    /\ HeadNode \notin ToSet(Workers)
    /\ Machines = {HeadNode} \cup ToSet(Workers)
    /\ Workers \in Seq(Machines)
<1>1. Workers \in Seq(STRING) /\ Workers # <<>> BY ClusterAssumption
<1>2. Len(Workers) \in Nat /\ DOMAIN Workers = 1 .. Len(Workers) BY <1>1
<1>3. Len(Workers) >= 1 BY <1>1, <1>2
<1>4. ToSet(Workers) = {Workers[k] : k \in 1 .. Len(Workers)} BY <1>2 DEF ToSet
<1>5. Workers \in Seq(Machines) BY <1>1, <1>4 DEF Machines
<1> QED BY <1>2, <1>3, <1>4, <1>5, ClusterAssumption DEF Machines

LEMMA UpPlaces ==
    /\ Len(UpOrder) = Len(Workers) + 1
    /\ \A k \in 1 .. Len(UpOrder) : UpOrder[k] \in Machines
    /\ \A k \in 1 .. Len(Workers) : UpOrder[k] = Workers[k]
    /\ UpOrder[Len(Workers) + 1] = HeadNode
<1>1. Workers \in Seq(Machines) /\ HeadNode \in Machines BY Places
<1>3. /\ Len(UpOrder) = Len(Workers) + 1
      /\ \A k \in 1 .. Len(Workers) : UpOrder[k] = Workers[k]
      /\ UpOrder[Len(Workers) + 1] = HeadNode
  BY <1>1, AppendProperties DEF UpOrder
<1>4. ASSUME NEW k \in 1 .. Len(UpOrder) PROVE UpOrder[k] \in Machines
  <2>1. k \in 1 .. Len(Workers) \/ k = Len(Workers) + 1 BY <1>3, Places
  <2> QED BY <2>1, <1>3, Places
<1> QED BY <1>3, <1>4

LEMMA FirstPlaces ==
    /\ HeadFirst \in Seq(Machines) /\ Len(HeadFirst) = Len(Workers) + 1
    /\ HeadFirst[1] = HeadNode
    /\ \A k \in 1 .. Len(Workers) : HeadFirst[k + 1] = Workers[k]
    /\ \A k \in 1 .. Len(HeadFirst) : HeadFirst[k] \in Machines
<1>1. Workers \in Seq(Machines) BY Places
<1>2. <<HeadNode>> \in Seq(Machines) /\ Len(<<HeadNode>>) = 1 /\ <<HeadNode>>[1] = HeadNode
  BY Places
<1>3. /\ HeadFirst \in Seq(Machines) /\ Len(HeadFirst) = Len(Workers) + 1
      /\ HeadFirst[1] = HeadNode
      /\ \A k \in 1 .. Len(Workers) : HeadFirst[k + 1] = Workers[k]
  BY <1>1, <1>2 DEF HeadFirst
<1>4. ASSUME NEW k \in 1 .. Len(HeadFirst) PROVE HeadFirst[k] \in Machines
  <2>1. CASE k = 1 BY <2>1, <1>3, Places
  <2>2. CASE k # 1
    <3>1. k - 1 \in 1 .. Len(Workers) /\ (k - 1) + 1 = k BY <2>2, <1>3, Places
    <3>2. HeadFirst[k] = Workers[k - 1] BY <3>1, <1>3
    <3> QED BY <3>1, <3>2, Places
  <2> QED BY <2>1, <2>2
<1> QED BY <1>3, <1>4

LEMMA StopPlaces ==
    /\ Len(StopOrder) = 2 * (Len(Workers) + 1)
    /\ \A k \in 1 .. Len(StopOrder) : StopOrder[k] \in Machines
    /\ \A m \in Machines : \E k \in 1 .. Len(StopOrder) : StopOrder[k] = m
<1> DEFINE L == Len(HeadFirst)
<1>0. L = Len(Workers) + 1 /\ L \in Nat /\ Len(Workers) \in Nat BY FirstPlaces, Places
<1>1. /\ Len(StopOrder) = L + L
      /\ \A k \in 1 .. L + L : StopOrder[k] = IF k <= L THEN HeadFirst[k] ELSE HeadFirst[k - L]
  BY FirstPlaces DEF StopOrder
<1>2. ASSUME NEW k \in 1 .. Len(StopOrder) PROVE StopOrder[k] \in Machines
  <2>1. CASE k <= L BY <2>1, <1>0, <1>1, FirstPlaces
  <2>2. CASE ~ (k <= L)
    <3>1. k - L \in 1 .. L BY <2>2, <1>0, <1>1
    <3> QED BY <3>1, <2>2, <1>0, <1>1, FirstPlaces
  <2> QED BY <2>1, <2>2
<1>3. ASSUME NEW m \in Machines PROVE \E k \in 1 .. Len(StopOrder) : StopOrder[k] = m
  <2>1. CASE m = HeadNode
    <3>1. 1 \in 1 .. L + L /\ 1 <= L BY <1>0
    <3> QED BY <3>1, <2>1, <1>1, FirstPlaces
  <2>2. ASSUME NEW k \in 1 .. Len(Workers), m = Workers[k]
        PROVE  \E j \in 1 .. Len(StopOrder) : StopOrder[j] = m
    <3>1. k + 1 \in 1 .. L + L /\ k + 1 <= L BY <1>0
    <3> QED BY <3>1, <2>2, <1>1, FirstPlaces
  <2> QED BY <2>1, <2>2, Places
<1> QED BY <1>0, <1>1, <1>2, <1>3

-----------------------------------------------------------------------------
(* Steps outside the sections *)

LEMMA ClusterInit == Init => ClusterInv
<1> SUFFICES ASSUME Init PROVE ClusterInv OBVIOUS
<1>1. TypeOK BY DEF Init, TypeOK, Wanted, InSection
<1>2. Sweep /\ Progress /\ Agreed /\ Joined
  BY DEF Init, Sweep, Progress, Agreed, Joined, In
<1> QED BY <1>1, <1>2 DEF ClusterInv

\* No script does anything, and no rank changes.
LEMMA QuietStep ==
    ASSUME ClusterInv, UNCHANGED <<rank, blind, env, renv, runVars>>,
           machine' \in [Machines -> {"down", "starting", "up"}],
           api' \in {"none", "joined", "lost"},
           api' = "joined" => \A m \in Machines : rank[m] # "none"
    PROVE  ClusterInv'
<1>1. TypeOK' BY DEF ClusterInv, TypeOK, InSection, runVars
<1>2. Sweep' /\ Agreed' BY DEF ClusterInv, Sweep, Agreed, In, Clear, runVars
<1>3. Progress' BY DEF ClusterInv, Progress, In, Clear, runVars
<1>4. Joined' BY DEF Joined
<1> QED BY <1>1, <1>2, <1>3, <1>4 DEF ClusterInv

\* A script is left, or at its first section: nothing is known of this run.
LEMMA FreshStep ==
    ASSUME ClusterInv, UNCHANGED rank,
           \/ script' \in {"none", "autostart"}
           \/ script' = "stop" /\ pc' = "probe" /\ i' = 1
           \/ script' = "start" /\ pc' = "image" /\ i' = 1,
           machine' \in [Machines -> {"down", "starting", "up"}],
           env' \in Confs, snap' \in Confs, renv' \in [ToSet(Workers) -> Confs],
           reach' \subseteq ToSet(Workers), failures' \in BOOLEAN,
           blind \subseteq blind', blind' \subseteq Machines,
           api' \in {"none", "joined", "lost"}, api' = "joined" => api = "joined"
    PROVE  ClusterInv'
<1>0. 1 \in 1 .. Len(Workers) /\ 1 \in 1 .. Len(HeadFirst) BY Places, FirstPlaces
<1>1. TypeOK' BY <1>0 DEF ClusterInv, TypeOK, InSection
<1>2. Sweep' /\ Progress' BY DEF Sweep, Progress, In
<1>3. Agreed' /\ Joined' BY DEF ClusterInv, Agreed, Joined
<1> QED BY <1>1, <1>2, <1>3 DEF ClusterInv

\* The end of a script, at whatever section.
LEMMA ExitStep ==
    ASSUME ClusterInv, NEW st, Exit(st), UNCHANGED <<rank, machine, env, api>>,
           renv' \in [ToSet(Workers) -> Confs], blind \subseteq blind', blind' \subseteq Machines
    PROVE  ClusterInv'
<1>1. UNCHANGED <<reach, failures>> BY DEF Exit
<1>2. \/ script' = "none" /\ snap' = snap
      \/ script' = "start" /\ pc' = "image" /\ i' = 1 /\ snap' = env
  BY DEF Exit, Goto
<1> QED BY <1>1, <1>2, FreshStep DEF ClusterInv, TypeOK

LEMMA OutsideInv ==
    ASSUME ClusterInv,
           \/ Join \/ Notice \/ Service \/ Command \/ StepFails \/ Stopped
           \/ WaitDocker \/ WaitWorker \/ TimedOut \/ Chat
           \/ \E m \in Machines : Recover(m) \/ PowerFails(m) \/ DockerStops(m) \/ RankDies(m)
    PROVE  ClusterInv'
<1> USE DEF ClusterInv, TypeOK
<1>1. CASE Join BY <1>1, QuietStep DEF Join, Complete
<1>2. CASE Notice BY <1>2, QuietStep DEF Notice
<1>3. CASE Service
  BY <1>3, FreshStep DEF Service, Run, Goto, hostVars
<1>4. CASE Command
  <2>1. /\ UNCHANGED <<machine, rank, api, blind, renv>>
        /\ env' \in Confs /\ snap' = env' /\ reach' = {} /\ failures' = FALSE
        /\ \/ script' = "stop" /\ pc' = "probe" /\ i' = 1
           \/ script' = "start" /\ pc' = "image" /\ i' = 1
    BY <1>4 DEF Command, Goto, hostVars
  <2> QED BY <2>1, FreshStep
<1>5. CASE StepFails \/ Stopped \/ TimedOut \/ Chat
  <2>1. \E st : Exit(st) BY <1>5 DEF StepFails, Stopped, TimedOut, Chat
  <2>2. UNCHANGED <<hostVars, env, renv>> BY <1>5 DEF StepFails, Stopped, TimedOut, Chat
  <2> QED BY <2>1, <2>2, ExitStep DEF hostVars
<1>6. CASE WaitDocker
  <2>0. UNCHANGED <<hostVars, env, renv>> BY <1>6 DEF WaitDocker
  <2>1. CASE Exit(1) BY <2>0, <2>1, ExitStep DEF hostVars
  <2>2. CASE script' = script /\ snap' = snap /\ UNCHANGED <<reach, failures>>
    <3>1. script' = "autostart" BY <1>6, <2>2 DEF WaitDocker, In
    <3> QED BY <2>0, <2>2, <3>1, FreshStep DEF hostVars
  <2> QED BY <1>6, <2>1, <2>2 DEF WaitDocker, Continue
<1>7. CASE WaitWorker
  <2>0. UNCHANGED <<hostVars, env, renv>> BY <1>7 DEF WaitWorker
  <2>1. CASE Exit(1) BY <2>0, <2>1, ExitStep DEF hostVars
  <2>2. CASE StopFirst /\ snap' = env /\ reach' = {} /\ failures' = FALSE
    BY <2>0, <2>2, FreshStep DEF hostVars, StopFirst, Goto
  <2> QED BY <1>7, <2>1, <2>2 DEF WaitWorker
<1>8. ASSUME NEW m \in Machines, Recover(m) \/ RankDies(m) \/ DockerStops(m)
      PROVE  ClusterInv'
  <2>1. UNCHANGED <<rank, blind, env, renv, runVars>>
    BY <1>8 DEF Recover, Boots, DockerReady, RankDies, DockerStops
  <2>2. machine' \in [Machines -> {"down", "starting", "up"}]
    BY <1>8 DEF Recover, Boots, DockerReady, RankDies, DockerStops
  <2>3. api' = api \/ api' = Without(m)
    BY <1>8 DEF Recover, Boots, DockerReady, RankDies, DockerStops
  <2>4. api' \in {"none", "joined", "lost"} /\ (api' = "joined" => api = "joined")
    BY <2>3 DEF Without
  <2> QED BY <2>1, <2>2, <2>4, QuietStep DEF Joined
<1>9. ASSUME NEW m \in Machines, PowerFails(m) PROVE ClusterInv'
  <2>1. UNCHANGED <<rank, blind, env, renv>> BY <1>9 DEF PowerFails
  <2>2. machine' \in [Machines -> {"down", "starting", "up"}] BY <1>9 DEF PowerFails
  <2>3. api' \in {"none", "joined", "lost"} /\ (api' = "joined" => api = "joined")
    BY <1>9 DEF PowerFails, Without
  <2>4. CASE m = HeadNode
    <3>1. script' = "none" /\ UNCHANGED <<snap, reach, failures>> BY <1>9, <2>4 DEF PowerFails
    <3> QED BY <2>1, <2>2, <2>3, <3>1, FreshStep
  <2>5. CASE m # HeadNode
    <3>1. UNCHANGED runVars BY <1>9, <2>5 DEF PowerFails
    <3> QED BY <2>1, <2>2, <2>3, <3>1, QuietStep DEF Joined
  <2> QED BY <2>4, <2>5
<1> QED BY <1>1, <1>2, <1>3, <1>4, <1>5, <1>6, <1>7, <1>8, <1>9

-----------------------------------------------------------------------------
(* The sections of stop *)

LEMMA NextInCases ==
    ASSUME NEW ord, NEW p, NextIn(ord, p)
    PROVE  \/ pc' = p /\ i' = 1 /\ i = Len(ord)
           \/ pc' = pc /\ i' = i + 1 /\ i # Len(ord)
<1> QED BY DEF NextIn, Goto

LEMMA ProbeInv == ASSUME ClusterInv, Probe PROVE ClusterInv'
<1>s. script = "stop" /\ pc = "probe" /\ i \in 1 .. Len(Workers)
  BY DEF Probe, In, ClusterInv, TypeOK, InSection
<1>0. /\ script' = "stop" /\ UNCHANGED <<machine, rank, api, blind, env, renv, snap, failures>>
      /\ (pc' = "remove" /\ i' = 1) \/ (pc' = "probe" /\ i' = i + 1 /\ i # Len(Workers))
  <2>1. (pc' = "remove" /\ i' = 1) \/ (pc' = "probe" /\ i' = i + 1 /\ i # Len(Workers))
    <3>1. NextIn(Workers, "remove") BY DEF Probe
    <3> QED BY <1>s, <3>1, NextInCases
  <2> QED BY <1>s, <2>1 DEF Probe, Continue, hostVars
<1>1. i' \in 1 .. Len(Workers) \/ pc' = "remove" BY <1>0, <1>s, Places
<1>2. reach' \subseteq ToSet(Workers)
  <2>1. Workers[i] \in ToSet(Workers) BY <1>s, Places
  <2> QED BY <2>1 DEF Probe, ClusterInv, TypeOK
<1>3. 1 \in 1 .. Len(StopOrder) BY Places, StopPlaces
<1>4. TypeOK' BY <1>0, <1>1, <1>2, <1>3 DEF ClusterInv, TypeOK, InSection
<1>5. Sweep' /\ Progress' BY <1>0 DEF Sweep, Progress, In
<1>6. Agreed' /\ Joined' BY <1>0 DEF ClusterInv, Agreed, Joined
<1> QED BY <1>4, <1>5, <1>6 DEF ClusterInv

LEMMA StopOnInv == ASSUME ClusterInv, StopOn PROVE ClusterInv'
<1> DEFINE m == StopOrder[i]
<1>0. /\ script = "stop" /\ pc = "remove" /\ i \in 1 .. Len(StopOrder)
      /\ script' = "stop" /\ UNCHANGED <<machine, env, renv, snap, reach>>
      /\ \/ pc' = "stopped" /\ i = Len(StopOrder)
         \/ pc' = "remove" /\ i' = i + 1 /\ i # Len(StopOrder)
      /\ failures' = (failures \/ Unreached(m))
      /\ IF m # HeadNode /\ (m \notin reach \/ machine[m] = "down") THEN UNCHANGED <<rank, api, blind>>
         ELSE /\ Changed(m)
              /\ IF machine[m] = "up" THEN RemoveRank(m) ELSE UNCHANGED <<rank, api>>
  BY DEF StopOn, In, Continue, NextIn, Goto, ClusterInv, TypeOK, InSection
<1>1. m \in Machines BY <1>0, StopPlaces
<1>2. rank \in [Machines -> Wanted] /\ failures \in BOOLEAN /\ blind \subseteq Machines
      /\ api \in {"none", "joined", "lost"}
  BY DEF ClusterInv, TypeOK
<1> HIDE DEF m
\* What the step does to m, and to no other machine.
<1>3. /\ rank' \in [Machines -> Wanted] /\ blind' \subseteq Machines /\ failures' \in BOOLEAN
      /\ \A n \in Machines : n # m => rank'[n] = rank[n] /\ (n \in blind' <=> n \in blind)
      /\ ~ failures' => ~ failures /\ (m \in blind' \/ rank'[m] = "none")
      /\ m \notin blind' => rank'[m] = "none" \/ (rank'[m] = rank[m] /\ m \notin blind)
      /\ api' \in {"none", "joined", "lost"}
      /\ api' = "joined" => api = "joined" /\ (rank' = rank \/ rank[m] = "none")
  <2>1. CASE m # HeadNode /\ (m \notin reach \/ machine[m] = "down")
    BY <1>0, <1>1, <1>2, <2>1 DEF Unreached
  <2>2. CASE ~ (m # HeadNode /\ (m \notin reach \/ machine[m] = "down"))
    <3>1. CASE machine[m] = "up"
      BY <1>0, <1>1, <1>2, <2>2, <3>1 DEF Unreached, Changed, RemoveRank, Without, Wanted
    <3>2. CASE machine[m] # "up"
      BY <1>0, <1>1, <1>2, <2>2, <3>2 DEF Unreached, Changed
    <3> QED BY <3>1, <3>2
  <2> QED BY <2>1, <2>2
<1>4. TypeOK'
  <2>1. pc' = "remove" => i' \in 1 .. Len(StopOrder) BY <1>0, StopPlaces, Places
  <2> QED BY <1>0, <1>3, <2>1 DEF ClusterInv, TypeOK, InSection
<1>5. Sweep'
  <2> SUFFICES ASSUME ~ failures' PROVE
         /\ pc' = "remove" => \A k \in 1 .. i' - 1 : Clear(StopOrder[k], {})'
         /\ pc' = "stopped" => \A n \in Machines : Clear(n, {})'
    BY <1>0 DEF Sweep, In
  <2>1. \A k \in 1 .. i : Clear(StopOrder[k], {})'
    <3> SUFFICES ASSUME NEW k \in 1 .. i PROVE Clear(StopOrder[k], {})' OBVIOUS
    <3>1. CASE StopOrder[k] = m BY <3>1, <1>3 DEF Clear
    <3>2. CASE StopOrder[k] # m
      <4>1. k # i BY <3>2 DEF m
      <4>2. k \in 1 .. i - 1 /\ k \in 1 .. Len(StopOrder) BY <4>1, <1>0, StopPlaces, Places
      <4>3. Clear(StopOrder[k], {}) BY <4>2, <1>0, <1>3 DEF ClusterInv, Sweep, In
      <4>4. StopOrder[k] \in Machines BY <4>2, StopPlaces
      <4> QED BY <3>2, <4>3, <4>4, <1>3 DEF Clear
    <3> QED BY <3>1, <3>2
  <2>2. pc' = "remove" => i' - 1 = i BY <1>0, StopPlaces, Places
  <2>3. ASSUME pc' = "stopped", NEW n \in Machines PROVE Clear(n, {})'
    <3>1. i = Len(StopOrder) BY <1>0, <2>3
    <3> QED BY <3>1, <2>1, StopPlaces
  <2> QED BY <2>1, <2>2, <2>3
<1>6. Progress' BY <1>0 DEF Progress, In
<1>7. Agreed'
  <2>1. ASSUME NEW n \in Machines \ blind', rank'[n] # "none"
        PROVE  n \in Machines \ blind /\ rank'[n] = rank[n]
    BY <1>3, <2>1
  <2> QED BY <2>1 DEF ClusterInv, Agreed
<1>8. Joined' BY <1>1, <1>3 DEF ClusterInv, Joined
<1> QED BY <1>4, <1>5, <1>6, <1>7, <1>8 DEF ClusterInv

-----------------------------------------------------------------------------
(* The sections of start *)

\* A check that fails ends the script; one that succeeds goes on.
LEMMA CheckStep ==
    ASSUME ClusterInv, NEW p, NEW ok, NEW st, NEW ord, NEW next, Check(p, ok, st, ord, next),
           renv' \in [ToSet(Workers) -> Confs], blind \subseteq blind', blind' \subseteq Machines
    PROVE  /\ script = "start" /\ pc = p
           /\ UNCHANGED <<machine, rank, api, env>>
           /\ \/ ClusterInv'
              \/ /\ ok /\ script' = "start" /\ UNCHANGED <<snap, reach, failures>>
                 /\ \/ pc' = next /\ i' = 1 /\ i = Len(ord)
                    \/ pc' = pc /\ i' = i + 1 /\ i # Len(ord)
<1>1. script = "start" /\ pc = p /\ UNCHANGED <<machine, rank, api, env>> BY DEF Check, In
<1>2. CASE Exit(st) BY <1>1, <1>2, ExitStep
<1>3. CASE ok /\ NextIn(ord, next) /\ Continue /\ UNCHANGED <<reach, failures>>
  BY <1>1, <1>3 DEF NextIn, Goto, Continue
<1> QED BY <1>1, <1>2, <1>3 DEF Check

\* What a successful check leaves to be shown.
LEMMA Going ==
    ASSUME ClusterInv, UNCHANGED <<machine, rank, api, env, snap, reach, failures>>,
           script' = "start", InSection', Progress',
           renv' \in [ToSet(Workers) -> Confs], blind \subseteq blind', blind' \subseteq Machines
    PROVE  ClusterInv'
<1>1. TypeOK' BY DEF ClusterInv, TypeOK
<1>2. Sweep' BY DEF Sweep, In
<1>3. Agreed' /\ Joined' BY DEF ClusterInv, Agreed, Joined
<1> QED BY <1>1, <1>2, <1>3 DEF ClusterInv

LEMMA ImageInv == ASSUME ClusterInv, Image PROVE ClusterInv'
<1> DEFINE ok == machine[HeadFirst[i]] = "up"
<1>0. Check("image", ok, 1, HeadFirst, "head") /\ UNCHANGED <<blind, renv>> BY DEF Image
<1>1. renv' \in [ToSet(Workers) -> Confs] /\ blind' \subseteq Machines
  BY <1>0 DEF ClusterInv, TypeOK
<1> HIDE DEF ok
<1>2. CASE /\ script = "start" /\ pc = "image" /\ script' = "start"
           /\ UNCHANGED <<machine, rank, api, env, snap, reach, failures>>
           /\ \/ pc' = "head" /\ i' = 1
              \/ pc' = pc /\ i' = i + 1 /\ i # Len(HeadFirst)
  <2>1. pc' = "image" => i' \in 1 .. Len(HeadFirst)
    BY <1>2, FirstPlaces, Places DEF ClusterInv, TypeOK, InSection
  <2>2. InSection' BY <1>2, <2>1 DEF InSection
  <2>3. Progress' BY <1>2 DEF Progress, In
  <2> QED BY <1>0, <1>1, <1>2, <2>2, <2>3, Going
<1> QED BY <1>0, <1>1, <1>2, CheckStep

LEMMA CheckHeadInv == ASSUME ClusterInv, CheckHead PROVE ClusterInv'
<1> DEFINE ord == <<HeadNode>>
<1>0. /\ Check("head", HeadFree, 3, ord, "workers") /\ UNCHANGED renv
      /\ blind' = IF machine[HeadNode] = "up" THEN blind ELSE blind \cup {HeadNode}
  BY DEF CheckHead, Looked
<1>1. renv' \in [ToSet(Workers) -> Confs] /\ blind \subseteq blind' /\ blind' \subseteq Machines
  BY <1>0, Places DEF ClusterInv, TypeOK
<1>2. CASE /\ HeadFree /\ script = "start" /\ pc = "head" /\ script' = "start"
           /\ UNCHANGED <<machine, rank, api, env, snap, reach, failures>>
           /\ \/ pc' = "workers" /\ i' = 1
              \/ pc' = pc /\ i' = i + 1 /\ i # Len(ord)
  <2>1. i = 1 /\ Len(ord) = 1 BY <1>2 DEF ClusterInv, TypeOK, InSection
  <2>2. pc' = "workers" /\ i' = 1 /\ 1 \in 1 .. Len(Workers) BY <1>2, <2>1, Places
  <2>3. InSection' BY <1>2, <2>2 DEF InSection
  <2>4. Clear(HeadNode, {})' BY <1>0, <1>2 DEF HeadFree, Clear
  <2>5. Progress' BY <1>2, <2>2, <2>4 DEF Progress, In
  <2> QED BY <1>0, <1>1, <1>2, <2>3, <2>5, Going
<1> HIDE DEF ord
<1> QED BY <1>0, <1>1, <1>2, CheckStep

LEMMA CheckWorkerInv == ASSUME ClusterInv, CheckWorker PROVE ClusterInv'
<1> DEFINE w == Workers[i]
           ok == machine[w] # "down" /\ ~(machine[w] = "up" /\ rank[w] # "none")
           st == IF machine[w] = "down" THEN 255 ELSE 1
<1>0. /\ Check("workers", ok, st, Workers, "sync") /\ UNCHANGED renv
      /\ blind' = IF machine[w] \in {"down", "up"} THEN blind ELSE blind \cup {w}
  BY DEF CheckWorker, Looked
<1>s. script = "start" /\ pc = "workers" /\ i \in 1 .. Len(Workers)
  BY <1>0 DEF Check, In, ClusterInv, TypeOK, InSection
<1>w. w \in Machines BY <1>s, Places
<1>1. renv' \in [ToSet(Workers) -> Confs] /\ blind \subseteq blind' /\ blind' \subseteq Machines
  BY <1>0, <1>w DEF ClusterInv, TypeOK
<1> HIDE DEF st
<1>2. CASE /\ ok /\ script' = "start"
           /\ UNCHANGED <<machine, rank, api, env, snap, reach, failures>>
           /\ \/ pc' = "sync" /\ i' = 1 /\ i = Len(Workers)
              \/ pc' = pc /\ i' = i + 1 /\ i # Len(Workers)
  <2>1. i' \in 1 .. Len(Workers) BY <1>2, <1>s, Places
  <2>2. InSection' BY <1>2, <1>s, <2>1 DEF InSection
  <2>3. w \in blind' \/ rank'[w] = "none" BY <1>0, <1>2, <1>w DEF ClusterInv, TypeOK
  <2>4. Clear(HeadNode, {})' /\ \A k \in 1 .. i - 1 : Clear(Workers[k], {})'
    BY <1>s, <1>1, <1>2 DEF ClusterInv, Progress, In, Clear
  <2>5. \A k \in 1 .. i : Clear(Workers[k], {})'
    <3> SUFFICES ASSUME NEW k \in 1 .. i PROVE Clear(Workers[k], {})' OBVIOUS
    <3>1. k = i \/ k \in 1 .. i - 1 BY <1>s, Places
    <3> QED BY <3>1, <2>3, <2>4 DEF Clear
  <2>6. CASE pc' = "sync"
    <3>1. \A m \in Machines : Clear(m, {})' BY <1>s, <1>2, <2>4, <2>5, <2>6, Places
    <3>2. script' = "start" /\ pc' = "sync" /\ \A k \in 1 .. i' - 1 : FALSE BY <1>2, <2>6, <1>s
    <3>3. Progress' BY <3>1, <3>2 DEF Progress, In
    <3> QED BY <1>0, <1>1, <1>2, <2>2, <3>3, Going
  <2>7. CASE pc' = "workers"
    <3>1. \A k \in 1 .. i' - 1 : Clear(Workers[k], {})' BY <1>s, <1>2, <2>5, <2>7
    <3>2. Progress' BY <1>2, <2>4, <2>7, <3>1 DEF Progress, In
    <3> QED BY <1>0, <1>1, <1>2, <2>2, <3>2, Going
  <2> QED BY <1>2, <1>s, <2>6, <2>7
<1> HIDE DEF ok
<1> QED BY <1>0, <1>1, <1>2, CheckStep

LEMMA SyncInv == ASSUME ClusterInv, Sync PROVE ClusterInv'
<1> DEFINE w == Workers[i]
           ok == machine[w] # "down"
<1>0. /\ Check("sync", ok, 255, Workers, "preflight") /\ UNCHANGED blind
      /\ renv' = [renv EXCEPT ![w] = RemoteCopy(w)]
  BY DEF Sync
<1>s. script = "start" /\ pc = "sync" /\ i \in 1 .. Len(Workers)
  BY <1>0 DEF Check, In, ClusterInv, TypeOK, InSection
<1>w. w \in ToSet(Workers) /\ w \in Machines BY <1>s, Places
<1>1. renv' \in [ToSet(Workers) -> Confs] /\ blind' \subseteq Machines
  BY <1>0, <1>w DEF ClusterInv, TypeOK, RemoteCopy
<1>2. CASE /\ ok /\ script' = "start"
           /\ UNCHANGED <<machine, rank, api, env, snap, reach, failures>>
           /\ \/ pc' = "preflight" /\ i' = 1 /\ i = Len(Workers)
              \/ pc' = pc /\ i' = i + 1 /\ i # Len(Workers)
  <2>1. i' \in 1 .. Len(Workers) BY <1>2, <1>s, Places
  <2>2. InSection' BY <1>2, <1>s, <2>1, UpPlaces, Places DEF InSection
  <2>3. \A m \in Machines : Clear(m, {})' BY <1>0, <1>s, <1>2 DEF ClusterInv, Progress, Clear
  <2>4. \A k \in 1 .. i : renv'[Workers[k]] = snap
    <3> SUFFICES ASSUME NEW k \in 1 .. i PROVE renv'[Workers[k]] = snap OBVIOUS
    <3>1. Workers[k] \in ToSet(Workers) /\ (Workers[k] = w \/ k \in 1 .. i - 1) BY <1>s, Places
    <3>2. renv'[w] = snap BY <1>0, <1>2, <1>w DEF RemoteCopy, ClusterInv, TypeOK
    <3>3. k \in 1 .. i - 1 => renv[Workers[k]] = snap BY <1>s DEF ClusterInv, Progress, In
    <3> QED BY <3>1, <3>2, <3>3, <1>0 DEF ClusterInv, TypeOK
  <2>6. CASE pc' = "preflight"
    <3>1. \A v \in ToSet(Workers) : renv'[v] = snap' BY <1>s, <1>2, <2>4, <2>6, Places
    <3> QED BY <1>0, <1>1, <1>2, <2>2, <2>3, <2>6, <3>1, Going DEF Progress, In
  <2>7. CASE pc' = "sync"
    <3>1. \A k \in 1 .. i' - 1 : renv'[Workers[k]] = snap' BY <1>s, <1>2, <2>4, <2>7
    <3> QED BY <1>0, <1>1, <1>2, <2>2, <2>3, <2>7, <3>1, Going DEF Progress, In
  <2> QED BY <1>2, <1>s, <2>6, <2>7
<1> HIDE DEF ok
<1> QED BY <1>0, <1>1, <1>2, CheckStep

LEMMA PreflightInv == ASSUME ClusterInv, Preflight PROVE ClusterInv'
<1> DEFINE ok == machine[UpOrder[i]] = "up"
<1>0. Check("preflight", ok, 1, UpOrder, "up") /\ UNCHANGED <<blind, renv>> BY DEF Preflight
<1>s. script = "start" /\ pc = "preflight" /\ i \in 1 .. Len(UpOrder)
  BY <1>0 DEF Check, In, ClusterInv, TypeOK, InSection
<1>1. renv' \in [ToSet(Workers) -> Confs] /\ blind' \subseteq Machines
  BY <1>0 DEF ClusterInv, TypeOK
<1> HIDE DEF ok
<1>2. CASE /\ script' = "start"
           /\ UNCHANGED <<machine, rank, api, env, snap, reach, failures>>
           /\ \/ pc' = "up" /\ i' = 1
              \/ pc' = pc /\ i' = i + 1 /\ i # Len(UpOrder)
  <2>1. i' \in 1 .. Len(UpOrder) BY <1>2, <1>s, UpPlaces, Places
  <2>2. InSection' BY <1>2, <1>s, <2>1 DEF InSection
  <2>3. \A m \in Machines : Clear(m, {})' /\ Clear(m, {snap})'
    BY <1>0, <1>s, <1>2 DEF ClusterInv, Progress, Clear
  <2>4. \A v \in ToSet(Workers) : renv'[v] = snap'
    BY <1>0, <1>s, <1>2 DEF ClusterInv, Progress
  <2>5. Progress'
    <3>1. pc' \in {"up", "preflight"} BY <1>2, <1>s
    <3>2. snap' = snap BY <1>2
    <3> QED BY <2>3, <2>4, <3>1, <3>2 DEF Progress, In, Clear
  <2> QED BY <1>0, <1>1, <1>2, <2>2, <2>5, Going
<1> QED BY <1>0, <1>1, <1>2, CheckStep

LEMMA AnswersInv == ASSUME ClusterInv, Answers PROVE ClusterInv'
<1>1. /\ script' = "start" /\ pc' = "chat"
      /\ UNCHANGED <<hostVars, env, renv, snap, reach, failures>>
  BY DEF Answers, In, Goto, Continue
<1>2. InSection' /\ Progress' BY <1>1 DEF InSection, Progress, In
<1> QED BY <1>1, <1>2, Going DEF hostVars, ClusterInv, TypeOK

LEMMA UpRankInv ==
    ASSUME ClusterInv, UpRank
    PROVE  ClusterInv' /\ (api = "joined" /\ blind = {} => api' = "joined")
<1> DEFINE m == UpOrder[i]
           c == IF m = HeadNode THEN snap ELSE renv[m]
<1>0. /\ script = "start" /\ pc = "up" /\ UNCHANGED <<machine, env, renv>>
      /\ IF machine[m] = "up"
         THEN /\ Up(m, c) /\ Changed(m) /\ NextIn(UpOrder, "wait")
              /\ Continue /\ UNCHANGED <<reach, failures>>
         ELSE Exit(1) /\ UNCHANGED <<rank, api, blind>>
  BY DEF UpRank, In
<1>i. i \in 1 .. Len(UpOrder) BY <1>0 DEF ClusterInv, TypeOK, InSection
<1>m. m \in Machines BY <1>i, UpPlaces
<1>c. c = snap /\ snap \in Confs /\ snap # "none"
  BY <1>0, <1>m, Places, ClusterAssumption DEF ClusterInv, TypeOK, Progress
<1>t. rank \in [Machines -> Wanted] /\ blind \subseteq Machines /\ api \in {"none", "joined", "lost"}
  BY DEF ClusterInv, TypeOK
<1> HIDE DEF m, c
<1>1. CASE machine[m] # "up"
  BY <1>0, <1>1, ExitStep DEF ClusterInv, TypeOK
<1>2. CASE machine[m] = "up"
  <2>0. /\ rank' = [rank EXCEPT ![m] = snap] /\ blind' = blind \ {m}
        /\ api' = IF rank[m] \in {"none", snap} THEN api ELSE Without(m)
        /\ script' = "start" /\ UNCHANGED <<snap, reach, failures>>
        /\ pc' = "wait" \/ (pc' = "up" /\ i' = i + 1 /\ i # Len(UpOrder))
    <3>1. Up(m, snap) /\ Changed(m) /\ NextIn(UpOrder, "wait") /\ Continue
          /\ UNCHANGED <<reach, failures>>
      BY <1>0, <1>2, <1>c
    <3>2. pc' = "wait" \/ (pc' = "up" /\ i' = i + 1 /\ i # Len(UpOrder))
      BY <1>0, <3>1, NextInCases
    <3>3. script' = "start" /\ UNCHANGED <<snap, reach, failures>> BY <1>0, <3>1 DEF Continue
    <3> QED BY <1>2, <3>1, <3>2, <3>3 DEF Up, Changed
  <2>1. api' \in {"none", "joined", "lost"} /\ (api' = "joined" => api = "joined")
    BY <2>0, <1>t DEF Without
  <2>2. pc' = "up" => i' \in 1 .. Len(UpOrder) BY <2>0, <1>i, UpPlaces, Places
  <2>3. TypeOK' BY <1>0, <1>t, <1>c, <2>0, <2>1, <2>2 DEF ClusterInv, TypeOK, InSection, Wanted
  <2>4. \A n \in Machines : Clear(n, {snap}) BY <1>0 DEF ClusterInv, Progress, In
  <2>5. \A n \in Machines : n \in blind' \/ rank'[n] \in {snap, "none"}
    BY <2>0, <2>4, <1>t, <1>m DEF Clear
  <2>6. Progress'
    <3>1. \A v \in ToSet(Workers) : renv'[v] = snap' BY <1>0, <2>0 DEF ClusterInv, Progress
    <3> QED BY <2>0, <2>5, <3>1 DEF Progress, In, Clear
  <2>7. Sweep' BY <2>0 DEF Sweep, In
  <2>8. Agreed' BY <2>5 DEF Agreed
  <2>9. Joined' BY <2>0, <2>1, <1>t, <1>c DEF ClusterInv, Joined
  <2>10. api = "joined" /\ blind = {} => api' = "joined"
    BY <2>0, <2>4, <1>m DEF Clear
  <2> QED BY <2>3, <2>6, <2>7, <2>8, <2>9, <2>10 DEF ClusterInv
<1> QED BY <1>1, <1>2

-----------------------------------------------------------------------------
(* The theorems *)

LEMMA ClusterStep == ClusterInv /\ [Next]_vars => ClusterInv'
<1> SUFFICES ASSUME ClusterInv, [Next]_vars PROVE ClusterInv' OBVIOUS
<1>1. CASE UNCHANGED vars
  BY <1>1, QuietStep DEF vars, hostVars, ClusterInv, TypeOK, Joined
<1>2. CASE Next
  BY <1>2, OutsideInv, ProbeInv, StopOnInv, ImageInv, CheckHeadInv, CheckWorkerInv, SyncInv,
     PreflightInv, AnswersInv, UpRankInv DEF Next, Script, StartStep
<1> QED BY <1>1, <1>2

LEMMA ClusterInvariant == Spec => []ClusterInv
<1> QED BY ClusterInit, ClusterStep, PTL DEF Spec

\* Sections stay within the machines they are for, a worker's copy is one of the
\* configurations, and only workers are counted as reached.
THEOREM ClusterTypeCorrect == Spec => []TypeOK
<1>1. ClusterInv => TypeOK BY DEF ClusterInv
<1> QED BY <1>1, ClusterInvariant, PTL

\* A stop that is about to report success has left no rank on a machine whose
\* dockerd answered it: with any number of workers, and whatever failed.
THEOREM StopRemovesAll == Spec => []StoppedMeansGone
<1>1. ClusterInv => StoppedMeansGone
  BY DEF ClusterInv, Sweep, Clear, StoppedMeansGone
<1> QED BY <1>1, ClusterInvariant, PTL

\* The ranks that serve together are of one configuration, unless a script
\* missed one.
THEOREM ServesOneConfiguration == Spec => []OneConfiguration
<1>1. ClusterInv => OneConfiguration
  BY Places DEF ClusterInv, Agreed, Joined, OneConfiguration
<1> QED BY <1>1, ClusterInvariant, PTL

\* No step of start takes down a cluster that serves, for any number of workers,
\* configurations and faults, provided that no script has missed a rank because
\* dockerd did not answer (blind = {}).
THEOREM StartIsHarmless == Spec => StartSparesServing
<1> DEFINE Spared == StartStep /\ api = "joined" /\ blind = {} => api' = "joined"
<1>1. ClusterInv /\ StartStep => Spared
  <2>1. Image \/ CheckHead \/ CheckWorker \/ Sync \/ Preflight \/ Answers \/ TimedOut \/ Chat
          => UNCHANGED api
    BY DEF Image, CheckHead, CheckWorker, Sync, Preflight, Answers, TimedOut, Chat, Check, hostVars
  <2> QED BY <2>1, UpRankInv DEF StartStep
<1>2. ClusterInv /\ [Next]_vars => [Spared]_vars BY <1>1
<1> QED BY <1>2, ClusterInvariant, PTL DEF Spec, StartSparesServing

-----------------------------------------------------------------------------
(* The padded tensors: arithmetic (rk is a rank) *)

\* Quotient and remainder.
LEMMA Division ==
    ASSUME NEW n \in Nat, NEW d \in Nat \ {0}
    PROVE  n = d * (n \div d) + (n % d) /\ n % d \in 0 .. d - 1 /\ n \div d \in Nat
<1> QED BY SMT

\* Multiples of d are d apart.
LEMMA Ordered ==
    ASSUME NEW d \in Nat \ {0}, NEW x \in Nat, NEW y \in Nat, y > x
    PROVE  d * y >= d * x + d
<1>1. PICK k \in Nat : y = x + 1 + k
  <2>1. y - x - 1 \in Nat /\ y = x + 1 + (y - x - 1) OBVIOUS
  <2> QED BY <2>1
<1>2. d * y = d * x + d + d * k /\ d * k \in Nat /\ d * x \in Nat BY <1>1, SMT
<1> QED BY <1>2

\* Quotient and remainder are unique.
LEMMA Unique ==
    ASSUME NEW d \in Nat \ {0}, NEW q \in Nat, NEW r \in 0 .. d - 1
    PROVE  (d * q + r) \div d = q /\ (d * q + r) % d = r
<1> DEFINE n == d * q + r
           p == n \div d
           s == n % d
<1>1. d * q \in Nat /\ n \in Nat BY SMT
<1>2. n = d * p + s /\ s \in 0 .. d - 1 /\ p \in Nat BY <1>1, Division
<1>3. d * p \in Nat BY <1>2, SMT
<1> HIDE DEF p, s
<1>4. CASE p > q BY <1>1, <1>2, <1>3, <1>4, Ordered
<1>5. CASE q > p BY <1>1, <1>2, <1>3, <1>5, Ordered
<1>6. CASE p = q BY <1>1, <1>2, <1>3, <1>6 DEF p, s
<1> QED BY <1>2, <1>4, <1>5, <1>6

-----------------------------------------------------------------------------
(* The padded tensors: groups and heads *)

\* The padded groups are the next multiple of the ranks.
LEMMA PaddedGroups ==
    ASSUME NEW groups \in Nat \ {0}, NEW tp \in Nat \ {0}
    PROVE  /\ LocalGroups(groups, tp) \in Nat \ {0}
           /\ PadGroups(groups, tp) = tp * LocalGroups(groups, tp)
           /\ groups <= PadGroups(groups, tp) /\ PadGroups(groups, tp) < groups + tp
<1>1. CASE tp = 1
  <2>1. PadGroups(groups, tp) = groups BY <1>1 DEF PadGroups
  <2>2. LocalGroups(groups, tp) = groups BY <1>1, <2>1, Division DEF LocalGroups
  <2> QED BY <1>1, <2>1, <2>2
<1>2. CASE tp > 1
  <2> DEFINE n == groups + tp - 1
             c == n \div tp
             m == n % tp
  <2>1. n \in Nat /\ n = tp * c + m /\ m \in 0 .. tp - 1 /\ c \in Nat BY Division
  <2>2. PadGroups(groups, tp) = c * tp BY <1>2 DEF PadGroups
  <2> HIDE DEF c, m
  <2>3. c * tp = tp * c /\ tp * c \in Nat BY <2>1, SMT
  <2>4. tp * c >= groups BY <2>1, <2>3
  <2>5. c # 0
    <3>1. SUFFICES ASSUME c = 0 PROVE FALSE OBVIOUS
    <3>2. tp * c = 0 BY <3>1, SMT
    <3> QED BY <3>2, <2>4
  <2>6. LocalGroups(groups, tp) = c
    <3>1. PadGroups(groups, tp) = tp * c + 0 BY <2>2, <2>3
    <3> QED BY <3>1, <2>1, Unique, 0 \in 0 .. tp - 1 DEF LocalGroups
  <2> QED BY <2>1, <2>2, <2>3, <2>4, <2>5, <2>6
<1> QED BY <1>1, <1>2

\* Every rank has whole groups, and a group its heads.
LEMMA PaddedHeads ==
    ASSUME NEW groups \in Nat \ {0}, NEW tp \in Nat \ {0}, NEW heads \in Nat \ {0},
           heads % groups = 0
    PROVE  /\ heads \div groups \in Nat \ {0}
           /\ heads = groups * (heads \div groups)
           /\ PadHeads(heads, groups, tp) = PadGroups(groups, tp) * (heads \div groups)
           /\ LocalHeads(heads, groups, tp) = LocalGroups(groups, tp) * (heads \div groups)
<1> DEFINE hpg == heads \div groups
           L == LocalGroups(groups, tp)
           G == PadGroups(groups, tp)
<1>1. heads = groups * hpg /\ hpg \in Nat
  <2>1. heads = groups * hpg + (heads % groups) /\ hpg \in Nat BY Division
  <2>2. groups * hpg \in Nat BY <2>1, SMT
  <2> QED BY <2>1, <2>2
<1> HIDE DEF hpg
<1>2. hpg # 0
  <2>1. SUFFICES ASSUME hpg = 0 PROVE FALSE OBVIOUS
  <2>2. groups * hpg = 0 BY <2>1, SMT
  <2> QED BY <2>2, <1>1
<1>3. L \in Nat \ {0} /\ G = tp * L /\ G \in Nat BY PaddedGroups
<1>4. PadHeads(heads, groups, tp) = G * hpg
  <2>1. CASE tp = 1 BY <2>1, <1>1 DEF PadHeads, PadGroups
  <2>2. CASE tp > 1 BY <2>2 DEF PadHeads, hpg
  <2> QED BY <2>1, <2>2
<1> HIDE DEF L, G
<1>5. G * hpg = tp * (L * hpg) + 0 /\ L * hpg \in Nat BY <1>1, <1>3, SMT
<1>6. LocalHeads(heads, groups, tp) = L * hpg
  <2>1. 0 \in 0 .. tp - 1 OBVIOUS
  <2>2. (tp * (L * hpg) + 0) \div tp = L * hpg BY <1>5, <2>1, Unique
  <2> QED BY <1>4, <1>5, <2>2 DEF LocalHeads
<1> QED BY <1>1, <1>2, <1>4, <1>6 DEF hpg, L, G

\* The asserts in the patched attention never fail: a group on a rank has the
\* heads the checkpoint gives it, which the shape of its projection rests on.
THEOREM GroupsKeepTheirHeads ==
    ASSUME NEW groups \in Nat \ {0}, NEW tp \in Nat \ {0}, NEW heads \in Nat \ {0},
           heads % groups = 0
    PROVE  LET padded == PadHeads(heads, groups, tp)
               hpg == LocalHeadsPerGroup(padded, groups, tp)
           IN /\ PadGroups(groups, tp) % tp = 0 /\ padded % tp = 0
              /\ padded % PadGroups(groups, tp) = 0
              /\ hpg = heads \div groups
              /\ LocalHeads(heads, groups, tp) = LocalGroups(groups, tp) * hpg
<1> DEFINE h == heads \div groups
           L == LocalGroups(groups, tp)
           G == PadGroups(groups, tp)
           padded == PadHeads(heads, groups, tp)
<1>1. h \in Nat \ {0} /\ padded = G * h /\ LocalHeads(heads, groups, tp) = L * h
  BY PaddedHeads
<1>2. L \in Nat \ {0} /\ G = tp * L /\ G \in Nat /\ groups <= G
  <2>1. L \in Nat \ {0} /\ G = tp * L /\ groups <= G BY PaddedGroups
  <2> HIDE DEF L, G
  <2>2. tp * L \in Nat BY <2>1, SMT
  <2> QED BY <2>1, <2>2
<1> HIDE DEF h, L, G, padded
<1>3. 0 \in 0 .. tp - 1 /\ 0 \in 0 .. G - 1 /\ G \in Nat \ {0} BY <1>2
<1>4. G % tp = 0
  <2>1. G = tp * L + 0 BY <1>2
  <2> QED BY <2>1, <1>2, <1>3, Unique
<1>5. padded % tp = 0
  <2>1. padded = tp * (L * h) + 0 /\ L * h \in Nat BY <1>1, <1>2, SMT
  <2> QED BY <2>1, <1>3, Unique
<1>6. padded % G = 0 /\ padded \div G = h
  <2>1. padded = G * h + 0 BY <1>1, <1>2, SMT
  <2> QED BY <2>1, <1>1, <1>3, Unique
<1> QED BY <1>1, <1>4, <1>5, <1>6 DEF LocalHeadsPerGroup, h, L, G, padded

\* With ranks that divide the groups nothing is padded.
THEOREM NothingPadded ==
    ASSUME NEW groups \in Nat \ {0}, NEW tp \in Nat \ {0}, NEW heads \in Nat \ {0},
           heads % groups = 0, groups % tp = 0
    PROVE  PadGroups(groups, tp) = groups /\ PadHeads(heads, groups, tp) = heads
<1> DEFINE L == LocalGroups(groups, tp)
           G == PadGroups(groups, tp)
           q == groups \div tp
<1>1. L \in Nat \ {0} /\ G = tp * L /\ groups <= G /\ G < groups + tp BY PaddedGroups
<1>2. groups = tp * q + (groups % tp) /\ q \in Nat BY Division
<1> HIDE DEF L, G, q
<1>3. tp * q \in Nat /\ tp * L \in Nat /\ groups = tp * q BY <1>1, <1>2, SMT
<1>4. ~ (L > q) BY <1>1, <1>2, <1>3, Ordered
<1>5. ~ (q > L) BY <1>1, <1>2, <1>3, Ordered
<1>6. L = q BY <1>1, <1>2, <1>4, <1>5
<1>7. PadGroups(groups, tp) = groups BY <1>1, <1>3, <1>6 DEF G
<1>8. PadHeads(heads, groups, tp) = PadGroups(groups, tp) * (heads \div groups)
      /\ heads = groups * (heads \div groups)
  BY PaddedHeads
<1> QED BY <1>7, <1>8

-----------------------------------------------------------------------------
(* The padded tensors: loading *)

\* What a rank starts from, when the loader does not take a share for a copy.
LEMMA Starts ==
    ASSUME NEW tp \in Nat \ {0}, NEW shard \in Nat \ {0}, NEW real \in Nat,
           shard # real \/ tp = 1, NEW rk \in 0 .. tp - 1
    PROVE  Load(rk, shard, real) = Clamped(shard * rk, shard, real)
<1>1. CASE shard # real BY <1>1, SMT DEF Load
<1>2. CASE tp = 1
  <2>1. rk = 0 BY <1>2
  <2>2. shard * rk = 0 /\ rk * shard = 0 BY <2>1, SMT
  <2> QED BY <2>2 DEF Load
<1> QED BY <1>1, <1>2

\* The ranks together have everything that exists, each part once; where the
\* loader looks for replicated parameters, if no share is as long as the tensor.
THEOREM LoadedOnce ==
    ASSUME NEW tp \in Nat \ {0}, NEW shard \in Nat \ {0}, NEW real \in Nat,
           real <= tp * shard, NEW x \in 0 .. real - 1,
           NEW rk \in 0 .. tp - 1, NEW y \in 0 .. shard - 1
    PROVE  LET here == rk = x \div shard /\ y = x % shard
           IN /\ x \div shard \in 0 .. tp - 1 /\ x % shard \in 0 .. shard - 1
              /\ LoadMerged(rk, shard, real)[y] = x <=> here
              /\ shard # real \/ tp = 1 => (Load(rk, shard, real)[y] = x <=> here)
<1> DEFINE q == x \div shard
           r == x % shard
<1>1. x = shard * q + r /\ r \in 0 .. shard - 1 /\ q \in Nat
  <2>1. x \in Nat OBVIOUS
  <2> QED BY <2>1, Division
<1> HIDE DEF q, r
<1>2. shard * q \in Nat /\ tp * shard = shard * tp /\ shard * tp \in Nat BY <1>1, SMT
<1>3. q \in 0 .. tp - 1
  <2>1. SUFFICES ASSUME q >= tp PROVE FALSE BY <1>1
  <2>2. CASE q = tp BY <2>2, <1>1, <1>2
  <2>3. CASE q > tp BY <2>3, <1>1, <1>2, Ordered
  <2> QED BY <2>1, <2>2, <2>3, <1>1
<1>4. shard * rk \in Nat BY SMT
<1>5. Clamped(shard * rk, shard, real)[y]
      = IF shard * rk + y < real THEN shard * rk + y ELSE Lane
  BY DEF Clamped
<1>6. ASSUME Clamped(shard * rk, shard, real)[y] = x PROVE rk = q /\ y = r
  <2>1. shard * rk + y = x BY <1>5, <1>6 DEF Lane
  <2> QED BY <2>1, Unique DEF q, r
<1>7. ASSUME rk = q, y = r PROVE Clamped(shard * rk, shard, real)[y] = x
  <2>1. shard * rk + y = x BY <1>7, <1>1
  <2> QED BY <2>1, <1>5
<1>8. rk * shard = shard * rk BY SMT
<1>9. LoadMerged(rk, shard, real) = Clamped(shard * rk, shard, real)
  BY <1>8 DEF LoadMerged
<1>10. ASSUME shard # real \/ tp = 1
       PROVE  Load(rk, shard, real) = Clamped(shard * rk, shard, real)
  BY <1>10, Starts
<1>11. Clamped(shard * rk, shard, real)[y] = x <=> rk = q /\ y = r BY <1>6, <1>7
<1> QED BY <1>1, <1>3, <1>9, <1>10, <1>11 DEF q, r

\* A share of two or more groups is never as long as all of them, so that the
\* loaders of wo_a and wo_b, whose slabs have unit rows, do not take it for a copy.
THEOREM NoShareTakenForACopy ==
    ASSUME NEW groups \in Nat, groups >= 2, NEW tp \in Nat \ {0}, NEW unit \in Nat \ {0}
    PROVE  LET shard == LocalGroups(groups, tp) * unit
               real == groups * unit
           IN (shard # real \/ tp = 1) /\ real <= tp * shard
<1> DEFINE L == LocalGroups(groups, tp)
           G == PadGroups(groups, tp)
<1>1. L \in Nat \ {0} /\ G = tp * L /\ groups <= G /\ G < groups + tp
  <2>1. groups \in Nat \ {0} OBVIOUS
  <2> QED BY <2>1, PaddedGroups
<1> HIDE DEF L, G
<1>2. L # groups \/ tp = 1
  <2>1. SUFFICES ASSUME L = groups, tp >= 2 PROVE FALSE BY <1>1
  <2>2. tp * L = L + L + (tp - 2) * L /\ (tp - 2) * L >= (tp - 2) * 2 BY <1>1, <2>1, SMT
  <2>3. tp * L >= groups + 2 + (tp - 2) BY <2>1, <2>2, SMT
  <2> QED BY <2>3, <1>1
<1>3. ASSUME L * unit = groups * unit PROVE L = groups
  <2>1. unit * L = unit * groups /\ unit * L \in Nat /\ unit * groups \in Nat BY <1>1, <1>3, SMT
  <2> QED BY <2>1, <1>1, Ordered
<1>4. groups * unit <= tp * (L * unit)
  <2>1. tp * (L * unit) = (tp * L) * unit BY <1>1, SMT
  <2>2. groups * unit <= G * unit
    <3>1. G \in Nat /\ G - groups \in Nat /\ G = groups + (G - groups) BY <1>1, SMT
    <3>2. G * unit = groups * unit + (G - groups) * unit /\ (G - groups) * unit \in Nat
          /\ groups * unit \in Nat
      BY <3>1, SMT
    <3> QED BY <3>2
  <2> QED BY <2>1, <2>2, <1>1
<1> QED BY <1>2, <1>3, <1>4 DEF L

\* On every rank the sinks are those of the heads whose groups the rank has, lane
\* by lane, and a lane is padding exactly where its group is.
THEOREM SinksFollowGroups ==
    ASSUME NEW groups \in Nat, groups >= 2, NEW tp \in Nat \ {0}, NEW heads \in Nat \ {0},
           heads % groups = 0,
           NEW rk \in 0 .. tp - 1, NEW lane \in 0 .. LocalHeads(heads, groups, tp) - 1
    PROVE  LET hpg == heads \div groups
               group == Load(rk, LocalGroups(groups, tp), groups)[lane \div hpg]
           IN LoadSinks(rk, heads, groups, tp)[lane]
              = IF group = Lane THEN Lane ELSE hpg * group + (lane % hpg)
<1> DEFINE hpg == heads \div groups
           L == LocalGroups(groups, tp)
           a == lane \div hpg
           b == lane % hpg
           first == L * rk + a
<1>1. /\ hpg \in Nat \ {0} /\ heads = groups * hpg
      /\ LocalHeads(heads, groups, tp) = L * hpg
  BY PaddedHeads
<1>2. L \in Nat \ {0} BY PaddedGroups
<1>3. L * 1 = L /\ groups * 1 = groups BY <1>2, SMT
<1>4. L # groups \/ tp = 1 BY <1>3, NoShareTakenForACopy
<1>5. L * hpg \in Nat /\ lane \in Nat BY <1>1, <1>2, SMT
<1>6. lane = hpg * a + b /\ b \in 0 .. hpg - 1 /\ a \in Nat BY <1>1, <1>5, Division
<1> HIDE DEF hpg, L, a, b
<1>7. hpg * a \in Nat /\ L * hpg = hpg * L BY <1>1, <1>2, <1>6, SMT
<1>8. a \in 0 .. L - 1
  <2>1. SUFFICES ASSUME a >= L PROVE FALSE BY <1>2, <1>6
  <2>2. CASE a = L BY <2>2, <1>1, <1>6, <1>7, <1>5
  <2>3. CASE a > L BY <2>3, <1>1, <1>2, <1>5, <1>6, <1>7, Ordered
  <2> QED BY <2>1, <2>2, <2>3, <1>2, <1>6
<1>9. L * rk \in Nat /\ first \in Nat BY <1>2, <1>6, SMT
<1>10. Load(rk, L, groups)[a] = IF first < groups THEN first ELSE Lane
  <2>1. Load(rk, L, groups) = Clamped(L * rk, L, groups) BY <1>2, <1>4, Starts
  <2> QED BY <2>1, <1>8 DEF Clamped
<1>11. (L * hpg) * rk + lane = hpg * first + b
  <2>1. (L * hpg) * rk = hpg * (L * rk) BY <1>1, <1>2, SMT
  <2>2. hpg * first = hpg * (L * rk) + hpg * a BY <1>1, <1>6, <1>9, SMT
  <2>3. hpg * (L * rk) \in Nat BY <1>1, <1>9, SMT
  <2> QED BY <2>1, <2>2, <2>3, <1>6, <1>7
<1>12. LoadSinks(rk, heads, groups, tp)[lane]
       = IF hpg * first + b < heads THEN hpg * first + b ELSE Lane
  BY <1>1, <1>11 DEF LoadSinks, Clamped
<1> HIDE DEF first
<1>13. hpg * first \in Nat /\ hpg * groups = heads BY <1>1, <1>9, SMT
<1>14. hpg * first + b < heads <=> first < groups
  <2>1. CASE first < groups BY <2>1, <1>1, <1>6, <1>9, <1>13, Ordered
  <2>2. CASE first = groups BY <2>2, <1>6, <1>13
  <2>3. CASE first > groups BY <2>3, <1>1, <1>6, <1>9, <1>13, Ordered
  <2> QED BY <2>1, <2>2, <2>3, <1>9
<1>15. first < groups => first # Lane BY <1>9 DEF Lane
<1> QED BY <1>10, <1>12, <1>14, <1>15 DEF hpg, L, a, b

=============================================================================
