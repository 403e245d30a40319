-------------------------- MODULE HotfixBootProofs --------------------------
(***************************************************************************)
(* Proofs about the boot of a container, for every chain of steps, every   *)
(* number of kills and every change of mode: the engine that serves has    *)
(* all the patches and the graph compiled from them, and a rollback that   *)
(* says so has restored the files.                                         *)
(***************************************************************************)
EXTENDS HotfixBoot, TLAPS

How(i) == Chain[i].how

\* f lies between its truncation and its write, forward or in a rollback.
Being(f) ==
    \/ phase = "write" /\ f = Targets(at)[k]
    \/ phase = "rewrite" /\ f = Targets(at)[k - 1]

\* A step that writes over a file in place, going on or going back.
WritesOver(i) ==
    \/ How(i) \in {"copy", "inplace", "overwrite", "edit"}
    \/ How(i) = "publish" /\ Chain[i].undo = "inplace"

\* What a step that has been through f leaves in it: its hunks, or, for an
\* edit, a file that it could not read.
Done(i, c) == Name(i) \in c \/ (How(i) = "edit" /\ c = Torn)

\* The phase suits the step, and k its files.
PhaseFits ==
    /\ engine = "serving" => at = Len(Chain) + 1
    /\ phase # "inspect" =>
         /\ at \in Steps
         /\ k \in 1 .. Len(Targets(at)) + 1
         /\ phase \in {"truncate", "write"} =>
              How(at) \in {"copy", "inplace", "overwrite", "edit", "verdict"}
         /\ phase = "publish" => How(at) = "publish" \/ (How(at) = "ablate" /\ mode # "off")
         /\ phase \in {"restore", "rewrite"} => How(at) \in {"publish", "inplace"}
         /\ phase \in {"sync", "stamp"} =>
              /\ How(at) = "ablate"
              /\ mode # "off" => k = Len(Targets(at)) + 1
    /\ phase = "write" => k <= Len(Targets(at)) /\ ~ Spared(at, k)
    /\ phase = "rewrite" => k > 1 /\ Published(k - 1) /\ Chain[at].undo = "inplace"
    /\ phase = "inspect" => k = 1

\* A program that looked at its files first knew all of them.
Looked ==
    \/ phase \in {"publish", "restore", "rewrite"}
    \/ phase \in {"truncate", "write"} /\ How(at) \in {"inplace", "overwrite", "verdict"}
    => \A n \in DOMAIN Targets(at) : Found(at, n) # "unknown"

\* Files hold hunks of their own steps only.
OwnHunks ==
    \A f \in Files :
        /\ tree[f] = Torn \/ tree[f] \subseteq Hunks(f, mode)
        /\ phase # "inspect" => before[f] = Torn \/ before[f] \subseteq Hunks(f, mode)

\* A file is torn by a step that writes it in place.
TornInPlace ==
    \A f \in Files : tree[f] = Torn \/ (phase # "inspect" /\ before[f] = Torn) =>
        \E i \in Steps : f \in FilesOf(i) /\ WritesOver(i)

\* What the steps below i leave in a file of content c.
Through(i, f, c) ==
    \A j \in 1 .. i - 1 : f \in FilesOf(j) =>
        /\ Changes(j, f, mode) => Done(j, c)
        /\ How(j) = "verdict" => c # Torn

\* The steps before the present one have been through their files.
StepsPassed ==
    \A f \in Files :
        /\ ~ Being(f) => Through(at, f, tree[f])
        /\ phase # "inspect" => Through(at, f, before[f])

\* What the present step has made of the files so far.
Made(f) ==
    \/ tree[f] = before[f]
    \/ /\ f \in FilesOf(at) /\ How(at) # "verdict"
       /\ \/ before[f] # Torn /\ tree[f] = before[f] \cup {Name(at)}
          \/ How(at) = "copy" /\ tree[f] = {Name(at)}

StepMakes ==
    phase # "inspect" =>
        /\ \A f \in Files : Being(f) \/ Made(f)
        /\ phase \notin {"restore", "rewrite"} => \A n \in DOMAIN Targets(at) :
              LET f == Targets(at)[n]
              IN n < k /\ ~ Being(f) /\ Changes(at, f, mode) => Done(at, tree[f])

\* What a rollback still has to restore lies before k.
Undoable == phase \in {"publish", "restore", "rewrite"} \/ (phase # "inspect" /\ How(at) = "inplace")

ToRestore ==
    Undoable =>
        \A f \in Files : tree[f] # before[f] /\ ~ Being(f) =>
            \E n \in DOMAIN Targets(at) : n < k /\ Targets(at)[n] = f /\ Found(at, n) = "stock"

TreeInv ==
    /\ TypeOK /\ PhaseFits /\ Looked /\ OwnHunks /\ TornInPlace
    /\ StepsPassed /\ StepMakes /\ ToRestore

\* The cache was compiled in the mode of the stamp, or in stock mode before
\* there was one; once the ablation has been passed, the stamp is the mode.
CacheInv ==
    /\ cache \in {"none", IF stamp = "none" THEN "off" ELSE stamp}
    /\ phase = "stamp" => cache = "none" \/ (cache = "off" /\ mode = "off")
    /\ (\E i \in 1 .. at - 1 : How(i) = "ablate") => stamp = mode
    /\ engine = "serving" => graph = mode

-----------------------------------------------------------------------------
(* What a step may assume of the chain and of a content *)

LEMMA StepFacts ==
    ASSUME NEW i \in Steps
    PROVE  /\ Len(Chain) \in Nat /\ i \in 1 .. Len(Chain)
           /\ How(i) \in {"copy", "inplace", "overwrite", "edit", "verdict", "publish", "ablate"}
           /\ Chain[i].undo # "none" => How(i) \in {"inplace", "publish"}
           /\ Len(Targets(i)) \in Nat \ {0}
           /\ DOMAIN Targets(i) = 1 .. Len(Targets(i))
           /\ \A n \in DOMAIN Targets(i) : Targets(i)[n] \in Files /\ Targets(i)[n] \in FilesOf(i)
           /\ FilesOf(i) \subseteq Files
           /\ Name(i) \in Names /\ Name(i) # "torn"
<1>1. Targets(i) \in Seq(Files) /\ Targets(i) # <<>> BY BootAssumption
<1> QED BY <1>1, BootAssumption DEF FilesOf, Names, How, Steps

LEMMA CopyFirst ==
    ASSUME NEW i \in Steps, How(i) = "copy", NEW n \in DOMAIN Targets(i), NEW j \in 1 .. i - 1
    PROVE  Targets(i)[n] \notin FilesOf(j)
<1>1. Len(Targets(i)) = 1 BY BootAssumption DEF How
<1>2. n = 1 BY <1>1, StepFacts
<1> QED BY <1>2, BootAssumption DEF How

\* Hunks are never torn, and recognition does not take a torn file for one.
LEMMA Contents ==
    ASSUME NEW i \in Steps, NEW c \in (SUBSET Names) \cup {Torn}
    PROVE  /\ Name(i) \notin Torn
           /\ c # Torn => c \in SUBSET Names
           /\ c \cup {Name(i)} # Torn
           /\ Recognise(i, c) \in {"unknown", "stock", "patched"}
           /\ Recognise(i, c) # "unknown" => c # Torn
           /\ Recognise(i, c) = "patched" => Name(i) \in c
           /\ How(i) = "edit" /\ Recognise(i, c) = "unknown" => c = Torn
<1>1. Name(i) # "torn" BY BootAssumption
<1>2. Chain[i].pinned => \A p \in Chain[i].patched : Name(i) \in p BY BootAssumption
<1>3. How(i) = "edit" => ~ Chain[i].pinned BY BootAssumption DEF How
<1> QED BY <1>1, <1>2, <1>3 DEF Torn, Recognise

-----------------------------------------------------------------------------
(* Cache and stamp *)

LEMMA ModeFacts == "off" \in Modes /\ "none" \notin Modes
<1> QED BY BootAssumption

LEMMA CacheInit == Init => CacheInv
<1> QED BY DEF Init, CacheInv

LEMMA CacheStep ==
    ASSUME TypeOK, PhaseFits, CacheInv, [Next]_vars
    PROVE  CacheInv'
<1> USE ModeFacts DEF TypeOK
<1>0. Len(Chain) \in Nat BY BootAssumption
<1>1. CASE \/ Inspect \/ Truncate \/ Write \/ Publish \/ Restore \/ Restored \/ StepFails
           \/ RestoreTruncates \/ RestoreWrites
  BY <1>1 DEF CacheInv, PhaseFits, InStep, Inspect, Truncate, Write, Publish, Restore, Restored,
              RestoreTruncates, RestoreWrites, StepFails, Fail, cacheVars, FirstPhase
<1>2. CASE StepDone
  <2>1. UNCHANGED <<engine, mode, cacheVars>> /\ InStep(phase) /\ phase # "stamp" BY <1>2 DEF StepDone, InStep
  <2>2. CASE How(at) = "ablate"
    BY <1>2, <2>1, <2>2 DEF CacheInv, StepDone, cacheVars, How
  <2>3. CASE How(at) # "ablate"
    <3>1. at' = at + 1 /\ phase' = "inspect" BY <1>2, <2>3 DEF StepDone, NextStep, How
    <3>2. (\E i \in 1 .. at' - 1 : How(i) = "ablate") => \E i \in 1 .. at - 1 : How(i) = "ablate"
      BY <3>1, <2>3
    <3> QED BY <3>1, <3>2, <2>1 DEF CacheInv, cacheVars
  <2> QED BY <2>2, <2>3
<1>3. CASE SyncCache
  <2>1. CASE stamp = mode
    BY <1>3, <2>1 DEF CacheInv, SyncCache, NextStep, InStep
  <2>2. CASE stamp # mode
    BY <1>3, <2>2 DEF CacheInv, SyncCache, InStep, Stale
  <2> QED BY <2>1, <2>2
<1>4. CASE WriteStamp
  BY <1>4 DEF CacheInv, WriteStamp, NextStep, InStep
<1>5. CASE Serve
  <2>1. \E i \in 1 .. at - 1 : How(i) = "ablate" BY <1>5, BootAssumption DEF Serve, Steps, How
  <2> QED BY <1>0, <2>1, <1>5 DEF CacheInv, Serve, chainVars, PhaseFits, Steps
<1>6. CASE Kill \/ Restart \/ Recreate
  BY <1>6 DEF CacheInv, Kill, Restart, Recreate, chainVars, cacheVars
<1>7. CASE UNCHANGED vars
  BY <1>7 DEF CacheInv, vars, chainVars, cacheVars
<1> QED BY <1>1, <1>2, <1>3, <1>4, <1>5, <1>6, <1>7 DEF Next, Boot

-----------------------------------------------------------------------------
(* Files: steps that write none *)

\* The program and the files as they were.
LEMMA QuietTree ==
    ASSUME TreeInv, TypeOK', UNCHANGED <<mode, tree, at, phase, k, before>>,
           engine' = "serving" => at = Len(Chain) + 1
    PROVE  TreeInv'
<1>1. PhaseFits' /\ Looked' BY DEF TreeInv, PhaseFits, Looked, Spared, Found, Published
<1>2. OwnHunks' /\ TornInPlace' BY DEF TreeInv, OwnHunks, TornInPlace
<1>3. StepsPassed' BY DEF TreeInv, StepsPassed, Being, Through
<1>4. StepMakes' BY DEF TreeInv, StepMakes, Being, Made
<1>5. ToRestore' BY DEF TreeInv, ToRestore, Found, Undoable, Being
<1> QED BY <1>1, <1>2, <1>3, <1>4, <1>5 DEF TreeInv

\* A chain that starts: over sound files, with no step passed.
LEMMA FreshTree ==
    ASSUME TypeOK', at' = 1, phase' = "inspect", k' = 1, engine' = "booting",
           \A f \in Files :
              /\ tree'[f] = Torn \/ tree'[f] \subseteq Hunks(f, mode')
              /\ tree'[f] = Torn =>
                    \E i \in Steps : f \in FilesOf(i) /\ WritesOver(i)
    PROVE  TreeInv'
<1>1. PhaseFits' /\ Looked' BY DEF PhaseFits, Looked
<1>2. OwnHunks' /\ TornInPlace' BY DEF OwnHunks, TornInPlace
<1>3. StepsPassed' BY DEF StepsPassed, Being, Through
<1>4. StepMakes' /\ ToRestore' BY DEF StepMakes, ToRestore, Undoable
<1> QED BY <1>1, <1>2, <1>3, <1>4 DEF TreeInv

\* The next step begins when this one has left its hunks in its files.
LEMMA NextTree ==
    ASSUME TreeInv, TypeOK', at \in Steps, phase \notin {"write", "rewrite"}, NextStep,
           UNCHANGED <<engine, mode, tree>>, engine # "serving",
           \A f \in FilesOf(at) :
              /\ Changes(at, f, mode) => Done(at, tree[f])
              /\ How(at) = "verdict" => tree[f] # Torn
    PROVE  TreeInv'
<1>0. at' = at + 1 /\ phase' = "inspect" /\ k' = 1 /\ at \in Nat BY DEF NextStep, TreeInv, TypeOK
<1>1. PhaseFits' /\ Looked' BY <1>0 DEF PhaseFits, Looked
<1>2. OwnHunks' /\ TornInPlace' BY <1>0 DEF OwnHunks, TornInPlace, TreeInv
<1>3. StepsPassed'
  <2> SUFFICES ASSUME NEW f \in Files PROVE Through(at, f, tree[f])'
    BY <1>0 DEF StepsPassed
  <2>1. Through(at, f, tree[f]) BY DEF TreeInv, StepsPassed, Being
  <2> QED BY <2>1, <1>0 DEF Through
<1>4. StepMakes' /\ ToRestore' BY <1>0 DEF StepMakes, ToRestore, Undoable
<1> QED BY <1>1, <1>2, <1>3, <1>4 DEF TreeInv

LEMMA TreeInit == Init => TreeInv
<1> SUFFICES ASSUME Init PROVE TreeInv OBVIOUS
<1>1. TypeOK BY BootAssumption DEF Init, TypeOK
<1>2. \A f \in Files : tree[f] = {} /\ {} # Torn BY DEF Init, Torn
<1>3. PhaseFits /\ Looked BY DEF Init, PhaseFits, Looked
<1>4. OwnHunks /\ TornInPlace BY <1>2 DEF Init, OwnHunks, TornInPlace
<1>5. StepsPassed BY DEF Init, StepsPassed, Being, Through
<1>6. StepMakes /\ ToRestore BY DEF Init, StepMakes, ToRestore, Undoable
<1> QED BY <1>1, <1>3, <1>4, <1>5, <1>6 DEF TreeInv

LEMMA KillTree == ASSUME TreeInv, Kill PROVE TreeInv'
<1>1. TypeOK' BY BootAssumption DEF TreeInv, TypeOK, Kill, chainVars, cacheVars
<1> QED BY <1>1, QuietTree DEF Kill, chainVars

LEMMA ServeTree == ASSUME TreeInv, Serve PROVE TreeInv'
<1>1. TypeOK' BY DEF TreeInv, TypeOK, Serve, chainVars
<1> QED BY <1>1, QuietTree DEF Serve, chainVars

LEMMA RestoredTree == ASSUME TreeInv, Restored PROVE TreeInv'
<1>1. TypeOK' BY DEF TreeInv, TypeOK, Restored, Fail, cacheVars
<1> QED BY <1>1, QuietTree DEF Restored, Fail

LEMMA RestartTree == ASSUME TreeInv, Restart PROVE TreeInv'
<1>1. TypeOK' BY BootAssumption DEF TreeInv, TypeOK, Restart
<1>2. OwnHunks /\ TornInPlace BY DEF TreeInv
<1> QED BY <1>1, <1>2, FreshTree DEF Restart, OwnHunks, TornInPlace

LEMMA RecreateTree == ASSUME TreeInv, Recreate PROVE TreeInv'
<1>1. TypeOK' BY BootAssumption DEF TreeInv, TypeOK, Recreate
<1>2. \A f \in Files : tree'[f] = {} /\ {} # Torn BY DEF Recreate, Torn
<1> QED BY <1>1, <1>2, FreshTree DEF Recreate

LEMMA StepFailsTree == ASSUME TreeInv, StepFails PROVE TreeInv'
<1>0. /\ phase \in {"publish", "truncate"} /\ phase' = "restore" /\ at \in Steps
      /\ How(at) \in {"publish", "inplace"}
      /\ phase = "truncate" => How(at) = "inplace"
      /\ UNCHANGED <<engine, mode, tree, at, k, before>>
  BY StepFacts DEF StepFails, InStep, TreeInv, PhaseFits
<1>1. TypeOK' BY BootAssumption DEF TreeInv, TypeOK, StepFails, cacheVars
<1>2. PhaseFits' /\ Looked' BY <1>0 DEF TreeInv, PhaseFits, Looked, Found
<1>3. OwnHunks' /\ TornInPlace' BY <1>0 DEF TreeInv, OwnHunks, TornInPlace
<1>4. StepsPassed' BY <1>0 DEF TreeInv, StepsPassed, Being, Through
<1>5. StepMakes' BY <1>0 DEF TreeInv, StepMakes, Being, Made
<1>6. ToRestore' BY <1>0 DEF TreeInv, ToRestore, Found, Undoable, Being
<1> QED BY <1>1, <1>2, <1>3, <1>4, <1>5, <1>6 DEF TreeInv

LEMMA WriteStampTree == ASSUME TreeInv, WriteStamp PROVE TreeInv'
<1>0. at \in Steps /\ phase = "stamp" /\ NextStep /\ UNCHANGED <<engine, mode, tree>> /\ engine # "serving"
  BY DEF WriteStamp, InStep
<1>1. TypeOK' BY <1>0, StepFacts DEF TreeInv, TypeOK, WriteStamp, NextStep, Steps
<1>2. \A f \in FilesOf(at) :
         /\ Changes(at, f, mode) => Done(at, tree[f])
         /\ How(at) = "verdict" => tree[f] # Torn
  BY <1>0, StepFacts DEF TreeInv, PhaseFits, StepMakes, Changes, FilesOf, How, Being
<1> QED BY <1>0, <1>1, <1>2, NextTree

LEMMA SyncCacheTree == ASSUME TreeInv, SyncCache PROVE TreeInv'
<1>0. at \in Steps /\ phase = "sync" /\ UNCHANGED <<engine, mode, tree, before>> /\ engine # "serving"
  BY DEF SyncCache, InStep
<1>1. CASE stamp = mode
  <2>1. NextStep BY <1>1 DEF SyncCache
  <2>2. TypeOK' BY <1>0, <1>1, <2>1, StepFacts DEF TreeInv, TypeOK, SyncCache, NextStep, Steps
  <2>3. \A f \in FilesOf(at) :
           /\ Changes(at, f, mode) => Done(at, tree[f])
           /\ How(at) = "verdict" => tree[f] # Torn
    BY <1>0, StepFacts DEF TreeInv, PhaseFits, StepMakes, Changes, FilesOf, How, Being
  <2> QED BY <1>0, <2>1, <2>2, <2>3, NextTree
<1>2. CASE stamp # mode
  <2>0. phase' = "stamp" /\ UNCHANGED <<at, k>> BY <1>2 DEF SyncCache
  <2>1. TypeOK' BY <1>0, <1>2 DEF TreeInv, TypeOK, SyncCache
  <2>2. PhaseFits' /\ Looked' BY <1>0, <2>0 DEF TreeInv, PhaseFits, Looked
  <2>3. OwnHunks' /\ TornInPlace' BY <1>0, <2>0 DEF TreeInv, OwnHunks, TornInPlace
  <2>4. StepsPassed' BY <1>0, <2>0 DEF TreeInv, StepsPassed, Being, Through
  <2>5. StepMakes' BY <1>0, <2>0 DEF TreeInv, StepMakes, Being, Made
  <2>6. ToRestore' BY <1>0, <2>0 DEF TreeInv, PhaseFits, ToRestore, Undoable
  <2> QED BY <2>1, <2>2, <2>3, <2>4, <2>5, <2>6 DEF TreeInv
<1> QED BY <1>1, <1>2

-----------------------------------------------------------------------------
(* Files: the steps that look and write *)

\* What Inspect finds out before a program writes.
LEMMA LookedAt ==
    ASSUME TypeOK, at \in Steps, ~ Refused(at)
    PROVE  LET first == FirstPhase(at)
           IN /\ first \in {"truncate", "publish", "sync"}
              /\ first = "truncate" <=> How(at) \in {"copy", "inplace", "overwrite", "edit", "verdict"}
              /\ first = "publish" => How(at) = "publish" \/ (How(at) = "ablate" /\ mode # "off")
              /\ first = "sync" => How(at) = "ablate" /\ mode = "off"
              /\ How(at) \notin {"copy", "edit"} /\ first # "sync" =>
                    \A n \in DOMAIN Targets(at) : Recognise(at, tree[Targets(at)[n]]) # "unknown"
<1>1. CASE How(at) \in {"copy", "inplace", "overwrite", "edit", "verdict"}
  <2>1. FirstPhase(at) = "truncate" BY <1>1 DEF FirstPhase, How
  <2>2. How(at) \notin {"copy", "edit"} =>
          \A n \in DOMAIN Targets(at) : Recognise(at, tree[Targets(at)[n]]) # "unknown"
    BY <1>1 DEF Refused, How
  <2> QED BY <1>1, <2>1, <2>2
<1>2. CASE How(at) = "publish" \/ (How(at) = "ablate" /\ mode # "off")
  <2>1. FirstPhase(at) = "publish" BY <1>2 DEF FirstPhase, How
  <2>2. \A n \in DOMAIN Targets(at) : Recognise(at, tree[Targets(at)[n]]) # "unknown"
    BY <1>2 DEF Refused, How
  <2> QED BY <1>2, <2>1, <2>2
<1>3. CASE How(at) = "ablate" /\ mode = "off"
  <2>1. FirstPhase(at) = "sync" BY <1>3 DEF FirstPhase, How
  <2> QED BY <1>3, <2>1
<1> QED BY <1>1, <1>2, <1>3, StepFacts

LEMMA InspectTree == ASSUME TreeInv, Inspect PROVE TreeInv'
<1>0. /\ at \in Steps /\ phase = "inspect" /\ before' = tree
      /\ UNCHANGED <<mode, tree, at, k>> /\ k \in Nat
  BY DEF Inspect, InStep, Fail, TreeInv, TypeOK
<1>1. CASE Refused(at)
  <2>0. engine' = "exited" /\ UNCHANGED phase BY <1>1 DEF Inspect, Fail
  <2>1. TypeOK' BY <1>0, <2>0 DEF TreeInv, TypeOK, Inspect, cacheVars
  <2>2. PhaseFits' /\ Looked' BY <1>0, <2>0 DEF TreeInv, PhaseFits, Looked
  <2>3. OwnHunks' /\ TornInPlace' BY <1>0, <2>0 DEF TreeInv, OwnHunks, TornInPlace
  <2>4. StepsPassed' BY <1>0, <2>0 DEF TreeInv, StepsPassed, Being, Through
  <2>5. StepMakes' /\ ToRestore' BY <1>0, <2>0 DEF StepMakes, ToRestore, Undoable
  <2> QED BY <2>1, <2>2, <2>3, <2>4, <2>5 DEF TreeInv
<1>2. CASE ~ Refused(at)
  <2>0. phase' = FirstPhase(at) /\ UNCHANGED engine BY <1>2 DEF Inspect
  <2>1. /\ phase' \in {"truncate", "publish", "sync"}
        /\ phase' = "truncate" <=> How(at) \in {"copy", "inplace", "overwrite", "edit", "verdict"}
        /\ phase' = "publish" => How(at) = "publish" \/ (How(at) = "ablate" /\ mode # "off")
        /\ phase' = "sync" => How(at) = "ablate" /\ mode = "off"
        /\ How(at) \notin {"copy", "edit"} /\ phase' # "sync" =>
              \A n \in DOMAIN Targets(at) : Recognise(at, tree[Targets(at)[n]]) # "unknown"
    BY <1>0, <1>2, <2>0, LookedAt DEF TreeInv
  <2>2. TypeOK' BY <1>0, <2>0, <2>1 DEF TreeInv, TypeOK, Inspect, cacheVars
  <2>k. k = 1 BY <1>0 DEF TreeInv, PhaseFits
  <2>3. PhaseFits' BY <1>0, <2>0, <2>1, <2>k, StepFacts DEF TreeInv, PhaseFits, TypeOK
  <2>4. Looked' BY <1>0, <2>1, StepFacts DEF Looked, Found
  <2>5. OwnHunks' /\ TornInPlace' BY <1>0 DEF TreeInv, OwnHunks, TornInPlace
  <2>6. StepsPassed'
    <3>1. \A f \in Files : Through(at, f, tree[f]) BY <1>0 DEF TreeInv, StepsPassed, Being
    <3>2. \A f \in Files : Through(at, f, tree[f])' /\ Through(at, f, before[f])'
      BY <1>0, <3>1 DEF Through
    <3> QED BY <3>2 DEF StepsPassed
  <2>7. StepMakes' BY <1>0, <2>1, <2>k, StepFacts DEF StepMakes, Being, Made
  <2>8. ToRestore' BY <1>0 DEF ToRestore, Undoable
  <2> QED BY <2>2, <2>3, <2>4, <2>5, <2>6, <2>7, <2>8 DEF TreeInv
<1> QED BY <1>1, <1>2

\* The content a step gives to a file.
LEMMA NewContent ==
    ASSUME TreeInv, at \in Steps, NEW n \in DOMAIN Targets(at), NEW f, f = Targets(at)[n],
           NEW c, Changes(at, f, mode), phase # "inspect",
           \/ before[f] # Torn /\ c = before[f] \cup {Name(at)}
           \/ How(at) = "copy" /\ c = {Name(at)}
    PROVE  /\ c \in SUBSET Names /\ c # Torn /\ Name(at) \in c
           /\ c \subseteq Hunks(f, mode)
           /\ Through(at, f, c)
<1>0. f \in Files /\ f \in FilesOf(at) /\ Name(at) \in Names BY StepFacts
<1>1. before[f] \in (SUBSET Names) \cup {Torn} /\ mode \in Modes BY <1>0 DEF TreeInv, TypeOK
<1>2. Name(at) \notin Torn BY <1>1, Contents
<1>3. c \in SUBSET Names /\ c # Torn /\ Name(at) \in c BY <1>0, <1>1, <1>2
<1>4. Name(at) \in Hunks(f, mode) BY DEF Hunks
<1>5. c \subseteq Hunks(f, mode) BY <1>0, <1>4 DEF TreeInv, OwnHunks
<1>6. Through(at, f, c)
  <2>1. CASE before[f] # Torn /\ c = before[f] \cup {Name(at)}
    <3>1. Through(at, f, before[f]) BY <1>0 DEF TreeInv, StepsPassed
    <3> QED BY <2>1, <3>1, <1>3 DEF Through, Done
  <2>2. CASE How(at) = "copy"
    <3>1. \A j \in 1 .. at - 1 : f \notin FilesOf(j) BY <2>2, CopyFirst
    <3> QED BY <3>1 DEF Through
  <2> QED BY <2>1, <2>2
<1> QED BY <1>3, <1>5, <1>6

\* A file that the step leaves alone, as it is already patched or, for an edit,
\* unreadable.
LEMMA LeftAlone ==
    ASSUME TreeInv, phase \in {"truncate", "publish"}, k \in DOMAIN Targets(at),
           phase = "truncate" => Spared(at, k),
           phase = "publish" => Found(at, k) = "patched",
           Changes(at, Targets(at)[k], mode)
    PROVE  Done(at, tree[Targets(at)[k]])
<1> DEFINE f == Targets(at)[k]
<1>0. at \in Steps /\ f \in Files /\ How(at) # "verdict"
  <2>1. at \in Steps BY DEF TreeInv, PhaseFits
  <2> QED BY <2>1, StepFacts DEF Changes, How
<1>1. before[f] \in (SUBSET Names) \cup {Torn} BY <1>0 DEF TreeInv, TypeOK
<1>2. Made(f) BY <1>0 DEF TreeInv, StepMakes, Being
<1>3. How(at) # "copy" BY <1>0 DEF Spared, TreeInv, PhaseFits, How
<1>4. CASE Found(at, k) = "patched"
  <2>1. Name(at) \in before[f] BY <1>0, <1>1, <1>4, Contents DEF Found
  <2> QED BY <2>1, <1>2, <1>3 DEF Made, Done
<1>5. CASE Found(at, k) # "patched"
  <2>1. phase = "truncate" /\ Found(at, k) # "stock" /\ How(at) \in {"inplace", "edit"}
    BY <1>5, <1>0 DEF Spared, How
  <2>2. Found(at, k) = "unknown" BY <1>0, <1>1, <1>5, <2>1, Contents DEF Found
  <2>3. How(at) = "edit" BY <2>1, <2>2 DEF TreeInv, Looked
  <2>4. before[f] = Torn BY <1>0, <1>1, <2>2, <2>3, Contents DEF Found
  <2> QED BY <2>3, <2>4, <1>2, <1>3 DEF Made, Done
<1> QED BY <1>4, <1>5

\* The step goes on to its next file.
LEMMA FileDone ==
    ASSUME TreeInv, TypeOK', phase \in {"truncate", "publish"}, k \in DOMAIN Targets(at),
           UNCHANGED <<engine, mode, tree, at, phase, before>>, k' = k + 1,
           Changes(at, Targets(at)[k], mode) => Done(at, tree[Targets(at)[k]])
    PROVE  TreeInv'
<1>0. at \in Steps /\ k \in Nat /\ k <= Len(Targets(at))
  <2>1. at \in Steps BY DEF TreeInv, PhaseFits
  <2> QED BY <2>1, StepFacts DEF TreeInv, TypeOK
<1>1. PhaseFits' /\ Looked' BY <1>0, StepFacts DEF TreeInv, PhaseFits, Looked, Found
<1>2. OwnHunks' /\ TornInPlace' BY DEF TreeInv, OwnHunks, TornInPlace
<1>3. StepsPassed' BY DEF TreeInv, StepsPassed, Being, Through
<1>4. StepMakes'
  <2>1. \A g \in Files : Made(g)' BY DEF TreeInv, StepMakes, Being, Made
  <2>2. ASSUME NEW n \in DOMAIN Targets(at), n < k + 1, Changes(at, Targets(at)[n], mode)
        PROVE  Done(at, tree[Targets(at)[n]])
    <3>1. CASE n = k BY <3>1, <2>2
    <3>2. CASE n < k BY <3>2, <2>2 DEF TreeInv, StepMakes, Being
    <3> QED BY <3>1, <3>2, <1>0, <2>2, StepFacts
  <2> QED BY <2>1, <2>2 DEF StepMakes
<1>5. ToRestore' BY <1>0, StepFacts DEF TreeInv, ToRestore, Found, Undoable, Being
<1> QED BY <1>1, <1>2, <1>3, <1>4, <1>5 DEF TreeInv

LEMMA TruncateTree == ASSUME TreeInv, Truncate PROVE TreeInv'
<1> DEFINE f == Targets(at)[k]
<1>0. /\ at \in Steps /\ phase = "truncate" /\ k \in DOMAIN Targets(at) /\ engine = "booting"
      /\ UNCHANGED <<engine, mode, at, before>> /\ f \in Files /\ f \in FilesOf(at)
  <2>1. at \in Steps /\ phase = "truncate" /\ k <= Len(Targets(at)) /\ engine = "booting"
    BY DEF Truncate, InStep
  <2>2. k \in DOMAIN Targets(at) BY <2>1, StepFacts DEF TreeInv, PhaseFits
  <2> QED BY <2>1, <2>2, StepFacts DEF Truncate
<1>1. CASE Spared(at, k)
  <2>1. k' = k + 1 /\ UNCHANGED <<phase, tree>> BY <1>1 DEF Truncate
  <2>2. TypeOK' BY <1>0, <2>1 DEF TreeInv, TypeOK, Truncate, cacheVars
  <2>3. Changes(at, f, mode) => Done(at, tree[f]) BY <1>0, <1>1, LeftAlone
  <2> QED BY <1>0, <2>1, <2>2, <2>3, FileDone
<1>2. CASE ~ Spared(at, k)
  <2>0. /\ phase' = "write" /\ UNCHANGED k
        /\ tree' = [tree EXCEPT ![f] = Torn]
    BY <1>2 DEF Truncate
  <2>t. /\ tree'[f] = Torn
        /\ \A g \in Files : g # f => tree'[g] = tree[g]
    BY <1>0, <2>0 DEF TreeInv, TypeOK
  <2>1. TypeOK' BY <1>0, <2>0 DEF TreeInv, TypeOK, Truncate, cacheVars
  <2>2. How(at) \in {"copy", "inplace", "overwrite", "edit"}
    BY <1>0, <1>2 DEF TreeInv, PhaseFits, Spared, How
  <2>3. PhaseFits' BY <1>0, <1>2, <2>0, <2>2, StepFacts DEF TreeInv, PhaseFits, Spared, Found
  <2>4. Looked' BY <1>0, <2>0 DEF TreeInv, Looked, Found
  <2>5. OwnHunks' BY <1>0, <2>0, <2>t DEF TreeInv, OwnHunks
  <2>6. TornInPlace' BY <1>0, <2>0, <2>t, <2>2 DEF TreeInv, TornInPlace, WritesOver
  <2>7. StepsPassed' BY <1>0, <2>0, <2>t DEF TreeInv, StepsPassed, Being, Through
  <2>8. StepMakes'
    <3>1. \A g \in Files : (Being(g) \/ Made(g))'
      BY <1>0, <2>0, <2>t DEF TreeInv, StepMakes, Being, Made
    <3>2. ASSUME NEW n \in DOMAIN Targets(at), n < k, Targets(at)[n] # f,
                 Changes(at, Targets(at)[n], mode)
          PROVE  Done(at, tree'[Targets(at)[n]])
      <4>1. Done(at, tree[Targets(at)[n]]) BY <1>0, <3>2 DEF TreeInv, StepMakes, Being
      <4> QED BY <1>0, <4>1, <3>2, <2>t, StepFacts
    <3> QED BY <1>0, <2>0, <3>1, <3>2 DEF StepMakes, Being
  <2>9. ToRestore' BY <1>0, <2>0, <2>t DEF TreeInv, ToRestore, Found, Undoable, Being
  <2> QED BY <2>1, <2>3, <2>4, <2>5, <2>6, <2>7, <2>8, <2>9 DEF TreeInv
<1> QED BY <1>1, <1>2

\* The step gives file k its hunks.
LEMMA FileMade ==
    ASSUME TreeInv, at \in Steps, NEW n \in DOMAIN Targets(at), n = k, NEW f, f = Targets(at)[n],
           NEW c, Changes(at, f, mode), tree' = [tree EXCEPT ![f] = c],
           UNCHANGED <<engine, mode, at, before, cacheVars, faults, recreates>>,
           engine = "booting", k' = k + 1,
           \/ phase = "write" /\ phase' = "truncate"
           \/ phase = "publish" /\ phase' = "publish" /\ Found(at, k) = "stock",
           \/ before[f] # Torn /\ c = before[f] \cup {Name(at)}
           \/ How(at) = "copy" /\ c = {Name(at)}
    PROVE  TreeInv'
<1>0. /\ f \in Files /\ f \in FilesOf(at) /\ k \in Nat /\ k <= Len(Targets(at))
      /\ n \in Nat /\ How(at) # "verdict"
  BY StepFacts DEF TreeInv, TypeOK, Changes, How
<1>1. c \in SUBSET Names /\ c # Torn /\ Name(at) \in c /\ c \subseteq Hunks(f, mode) /\ Through(at, f, c)
  BY NewContent
<1>t. tree'[f] = c /\ \A g \in Files : g # f => tree'[g] = tree[g]
  BY <1>0 DEF TreeInv, TypeOK
<1>2. TypeOK' BY <1>0, <1>1 DEF TreeInv, TypeOK, cacheVars
<1>3. PhaseFits' BY <1>0, StepFacts DEF TreeInv, PhaseFits
<1>4. Looked' BY DEF TreeInv, Looked, Found
<1>5. OwnHunks' BY <1>t, <1>1 DEF TreeInv, OwnHunks
<1>6. TornInPlace' BY <1>t, <1>1 DEF TreeInv, TornInPlace
<1>7. StepsPassed'
  <2>1. \A g \in Files : Through(at, g, tree'[g]) /\ Through(at, g, before[g])
    BY <1>0, <1>1, <1>t DEF TreeInv, StepsPassed, Being
  <2> QED BY <2>1 DEF StepsPassed, Through
<1>8. StepMakes'
  <2>1. \A g \in Files : Made(g)' BY <1>0, <1>t DEF TreeInv, StepMakes, Being, Made
  <2>2. ASSUME NEW m \in DOMAIN Targets(at), m < k + 1, Changes(at, Targets(at)[m], mode)
        PROVE  Done(at, tree'[Targets(at)[m]])
    <3>1. CASE Targets(at)[m] = f BY <3>1, <1>t, <1>1 DEF Done
    <3>2. CASE Targets(at)[m] # f
      <4>1. m < k BY <1>0, <2>2, <3>2, StepFacts
      <4>2. Done(at, tree[Targets(at)[m]]) BY <4>1, <2>2, <3>2 DEF TreeInv, StepMakes, Being
      <4> QED BY <4>2, <3>2, <1>t, StepFacts
    <3> QED BY <3>1, <3>2
  <2> QED BY <2>1, <2>2 DEF StepMakes
<1>9. ToRestore'
  <2> SUFFICES ASSUME phase = "publish" \/ How(at) = "inplace", NEW g \in Files, tree'[g] # before[g]
               PROVE  \E m \in DOMAIN Targets(at) :
                        m < k + 1 /\ Targets(at)[m] = g /\ Found(at, m) = "stock"
    BY DEF ToRestore, Found, Undoable
  <2>0. Found(at, k) = "stock" BY DEF TreeInv, PhaseFits, Spared, How
  <2>1. CASE g = f BY <2>0, <2>1, <1>0
  <2>2. CASE g # f BY <2>2, <1>0, <1>t, StepFacts DEF TreeInv, ToRestore, Undoable, Being
  <2> QED BY <2>1, <2>2
<1> QED BY <1>2, <1>3, <1>4, <1>5, <1>6, <1>7, <1>8, <1>9 DEF TreeInv

LEMMA WriteTree == ASSUME TreeInv, Write PROVE TreeInv'
<1> DEFINE f == Targets(at)[k]
<1>0. /\ at \in Steps /\ phase = "write" /\ k \in DOMAIN Targets(at) /\ engine = "booting"
      /\ f \in Files /\ f \in FilesOf(at) /\ ~ Spared(at, k)
      /\ How(at) \in {"copy", "inplace", "overwrite", "edit"}
      /\ UNCHANGED <<engine, mode, at, before, cacheVars, faults, recreates>>
      /\ phase' = "truncate" /\ k' = k + 1
      /\ tree' = [tree EXCEPT ![f] = Written(at, k)]
  <2>1. at \in Steps /\ phase = "write" /\ engine = "booting" BY DEF Write, InStep
  <2>2. k \in DOMAIN Targets(at) /\ ~ Spared(at, k) BY <2>1, StepFacts DEF TreeInv, PhaseFits
  <2> QED BY <2>1, <2>2, StepFacts DEF Write, TreeInv, PhaseFits, Spared, How
<1>1. Changes(at, f, mode) BY <1>0 DEF Changes, How
<1>2. \/ before[f] # Torn /\ Written(at, k) = before[f] \cup {Name(at)}
      \/ How(at) = "copy" /\ Written(at, k) = {Name(at)}
  <2>1. CASE How(at) = "copy" BY <2>1 DEF Written, How
  <2>2. CASE How(at) # "copy"
    <3>1. Found(at, k) \in {"stock", "patched"}
      BY <2>2, <1>0, Contents DEF Spared, How, TreeInv, TypeOK, Looked, Found
    <3>2. before[f] # Torn BY <3>1, <1>0, Contents DEF Found, TreeInv, TypeOK
    <3> QED BY <2>2, <3>2 DEF Written, How
  <2> QED BY <2>1, <2>2
<1> QED BY <1>0, <1>1, <1>2, FileMade

LEMMA PublishTree == ASSUME TreeInv, Publish PROVE TreeInv'
<1> DEFINE f == Targets(at)[k]
<1>0. /\ at \in Steps /\ phase = "publish" /\ k \in DOMAIN Targets(at) /\ engine = "booting"
      /\ f \in Files /\ f \in FilesOf(at)
      /\ How(at) = "publish" \/ (How(at) = "ablate" /\ mode # "off")
      /\ UNCHANGED <<engine, mode, at, phase, before, cacheVars, faults, recreates>>
      /\ k' = k + 1
  <2>1. at \in Steps /\ phase = "publish" /\ k <= Len(Targets(at)) /\ engine = "booting"
    BY DEF Publish, InStep
  <2>2. k \in DOMAIN Targets(at) BY <2>1, StepFacts DEF TreeInv, PhaseFits
  <2> QED BY <2>1, <2>2, StepFacts DEF Publish, TreeInv, PhaseFits
<1>1. CASE Found(at, k) = "patched"
  <2>1. tree' = tree BY <1>1 DEF Publish
  <2>2. TypeOK' BY <1>0, <2>1 DEF TreeInv, TypeOK, cacheVars
  <2>3. Changes(at, f, mode) => Done(at, tree[f]) BY <1>0, <1>1, LeftAlone
  <2> QED BY <1>0, <2>1, <2>2, <2>3, FileDone
<1>2. CASE Found(at, k) # "patched"
  <2>1. tree' = [tree EXCEPT ![f] = before[f] \cup {Name(at)}] BY <1>2 DEF Publish
  <2>2. before[f] \in (SUBSET Names) \cup {Torn} BY <1>0 DEF TreeInv, TypeOK
  <2>3. Found(at, k) = "stock" /\ before[f] # Torn
    BY <1>0, <1>2, <2>2, Contents DEF TreeInv, Looked, Found
  <2>4. Changes(at, f, mode) BY <1>0 DEF Changes, How
  <2> QED BY <1>0, <2>1, <2>3, <2>4, FileMade
<1> QED BY <1>1, <1>2

\* The rollback is done with one more file: the step found it like this.
LEMMA PutBack ==
    ASSUME TreeInv, at \in Steps, phase \in {"restore", "rewrite"}, phase' = "restore",
           k > 1, k' = k - 1, engine = "booting",
           phase = "rewrite" => Published(k - 1),
           tree' = IF Published(k - 1)
                   THEN [tree EXCEPT ![Targets(at)[k - 1]] = before[Targets(at)[k - 1]]] ELSE tree,
           UNCHANGED <<engine, mode, at, before, cacheVars, faults, recreates>>
    PROVE  TreeInv'
<1> DEFINE n == k - 1
           f == Targets(at)[n]
<1>0. /\ at \in Steps /\ phase \in {"restore", "rewrite"} /\ phase' = "restore" /\ k > 1
      /\ n \in DOMAIN Targets(at) /\ f \in Files /\ f \in FilesOf(at) /\ k \in Nat
      /\ UNCHANGED <<engine, mode, at, before, cacheVars, faults, recreates>>
      /\ k' = n /\ engine = "booting"
      /\ \A g \in Files : Being(g) => g = f /\ Published(n)
  <2>1. n \in DOMAIN Targets(at) BY StepFacts DEF TreeInv, PhaseFits
  <2> QED BY <2>1, StepFacts DEF TreeInv, TypeOK, Being
<1>1. Published(n) <=> Found(at, n) = "stock" BY <1>0 DEF Published
<1>t. \A g \in Files : tree'[g] = IF g = f /\ Published(n) THEN before[g] ELSE tree[g]
  BY <1>0 DEF TreeInv, TypeOK
<1>2. tree' \in [Files -> (SUBSET Names) \cup {Torn}] BY <1>0 DEF TreeInv, TypeOK
<1>3. TypeOK' BY <1>0, <1>2 DEF TreeInv, TypeOK, cacheVars
<1>4. Published(n) => before[f] # Torn
  BY <1>0, <1>1, Contents DEF Found, TreeInv, TypeOK
<1>5. PhaseFits' /\ Looked' BY <1>0, StepFacts DEF TreeInv, PhaseFits, Looked, Found
<1>6. OwnHunks' BY <1>0, <1>t DEF TreeInv, OwnHunks
<1>7. TornInPlace' BY <1>0, <1>t DEF TreeInv, TornInPlace
<1>8. StepsPassed'
  <2>1. \A g \in Files : Through(at, g, tree'[g]) /\ Through(at, g, before[g])
    BY <1>0, <1>t DEF TreeInv, StepsPassed, Being
  <2> QED BY <1>0, <2>1 DEF StepsPassed, Through
<1>9. StepMakes'
  <2>1. \A g \in Files : Made(g)' BY <1>0, <1>t DEF TreeInv, StepMakes, Being, Made
  <2> QED BY <1>0, <2>1 DEF StepMakes
<1>10. ToRestore'
  <2> SUFFICES ASSUME NEW g \in Files, tree'[g] # before[g]
               PROVE  \E m \in DOMAIN Targets(at) :
                        m < n /\ Targets(at)[m] = g /\ Found(at, m) = "stock"
    BY <1>0 DEF ToRestore, Found
  <2>1. tree[g] # before[g] /\ ~ (g = f /\ Published(n)) /\ ~ Being(g) BY <1>0, <1>t
  <2>2. PICK m \in DOMAIN Targets(at) : m < k /\ Targets(at)[m] = g /\ Found(at, m) = "stock"
    BY <1>0, <2>1 DEF TreeInv, ToRestore, Undoable
  <2>3. m # n BY <1>1, <2>1, <2>2
  <2>4. m < n BY <1>0, <2>2, <2>3, StepFacts
  <2> QED BY <2>2, <2>4
<1> QED BY <1>3, <1>5, <1>6, <1>7, <1>8, <1>9, <1>10 DEF TreeInv

LEMMA RestoreTree == ASSUME TreeInv, Restore PROVE TreeInv'
<1> QED BY PutBack DEF Restore, InStep

LEMMA RestoreWritesTree == ASSUME TreeInv, RestoreWrites PROVE TreeInv'
<1> QED BY PutBack DEF RestoreWrites, InStep, TreeInv, PhaseFits

LEMMA RestoreTruncatesTree == ASSUME TreeInv, RestoreTruncates PROVE TreeInv'
<1> DEFINE n == k - 1
           f == Targets(at)[n]
<1>0. /\ at \in Steps /\ phase = "restore" /\ phase' = "rewrite" /\ k > 1 /\ k \in Nat
      /\ n \in DOMAIN Targets(at) /\ f \in Files /\ f \in FilesOf(at)
      /\ Published(n) /\ Chain[at].undo = "inplace" /\ WritesOver(at)
      /\ UNCHANGED <<engine, mode, at, k, before, cacheVars, faults, recreates>>
      /\ tree' = [tree EXCEPT ![f] = Torn]
  <2>1. at \in Steps /\ phase = "restore" /\ k > 1 BY DEF RestoreTruncates, InStep
  <2>2. n \in DOMAIN Targets(at) BY <2>1, StepFacts DEF TreeInv, PhaseFits
  <2> QED BY <2>1, <2>2, StepFacts DEF RestoreTruncates, TreeInv, TypeOK, PhaseFits, WritesOver
<1>t. tree'[f] = Torn /\ \A g \in Files : g # f => tree'[g] = tree[g]
  BY <1>0 DEF TreeInv, TypeOK
<1>1. TypeOK' BY <1>0 DEF TreeInv, TypeOK, cacheVars
<1>2. PhaseFits' BY <1>0 DEF TreeInv, PhaseFits, Published, Found, RestoreTruncates, InStep
<1>3. Looked' BY <1>0 DEF TreeInv, Looked, Found
<1>4. OwnHunks' BY <1>0, <1>t DEF TreeInv, OwnHunks
<1>5. TornInPlace' BY <1>0, <1>t DEF TreeInv, TornInPlace
<1>6. StepsPassed' BY <1>0, <1>t DEF TreeInv, StepsPassed, Being, Through
<1>7. StepMakes' BY <1>0, <1>t DEF TreeInv, StepMakes, Being, Made
<1>8. ToRestore' BY <1>0, <1>t DEF TreeInv, ToRestore, Found, Undoable, Being
<1> QED BY <1>1, <1>2, <1>3, <1>4, <1>5, <1>6, <1>7, <1>8 DEF TreeInv

LEMMA StepDoneTree == ASSUME TreeInv, StepDone PROVE TreeInv'
<1>0. /\ at \in Steps /\ phase \in {"truncate", "publish"} /\ k > Len(Targets(at))
      /\ k = Len(Targets(at)) + 1 /\ engine = "booting"
      /\ UNCHANGED <<engine, mode, tree, before, cacheVars, faults, recreates>>
  <2>1. at \in Steps /\ phase \in {"truncate", "publish"} /\ k > Len(Targets(at)) /\ engine = "booting"
    BY DEF StepDone, InStep
  <2> QED BY <2>1, StepFacts DEF StepDone, TreeInv, PhaseFits
<1>1. \A n \in DOMAIN Targets(at) : Changes(at, Targets(at)[n], mode) => Done(at, tree[Targets(at)[n]])
  BY <1>0, StepFacts DEF TreeInv, StepMakes, Being
<1>2. CASE How(at) = "ablate"
  <2>0. phase' = "sync" /\ UNCHANGED <<at, k>> /\ phase = "publish" /\ mode # "off"
    BY <1>0, <1>2 DEF StepDone, How, TreeInv, PhaseFits
  <2>1. TypeOK' BY <1>0, <2>0 DEF TreeInv, TypeOK, cacheVars
  <2>2. PhaseFits' /\ Looked' BY <1>0, <1>2, <2>0 DEF TreeInv, PhaseFits, Looked
  <2>3. OwnHunks' /\ TornInPlace' BY <1>0, <2>0 DEF TreeInv, OwnHunks, TornInPlace
  <2>4. StepsPassed' BY <1>0, <2>0 DEF TreeInv, StepsPassed, Being, Through
  <2>5. StepMakes' BY <1>0, <2>0 DEF TreeInv, StepMakes, Being, Made
  <2>6. ToRestore' BY <1>0, <2>0 DEF TreeInv, PhaseFits, ToRestore, Undoable
  <2> QED BY <2>1, <2>2, <2>3, <2>4, <2>5, <2>6 DEF TreeInv
<1>3. CASE How(at) # "ablate"
  <2>1. NextStep BY <1>3 DEF StepDone, How
  <2>2. TypeOK' BY <1>0, <2>1, StepFacts DEF TreeInv, TypeOK, cacheVars, NextStep, Steps
  <2>3. ASSUME NEW f \in FilesOf(at)
        PROVE  /\ Changes(at, f, mode) => Done(at, tree[f])
               /\ How(at) = "verdict" => tree[f] # Torn
    <3>1. PICK n \in DOMAIN Targets(at) : Targets(at)[n] = f BY DEF FilesOf
    <3>2. f \in Files BY <1>0, <3>1, StepFacts
    <3>3. ASSUME How(at) = "verdict" PROVE tree[f] # Torn
      <4>1. Found(at, n) # "unknown" BY <1>0, <3>3 DEF TreeInv, Looked, PhaseFits
      <4>2. before[f] # Torn BY <1>0, <3>1, <3>2, <4>1, Contents DEF Found, TreeInv, TypeOK
      <4>3. tree[f] = before[f] BY <1>0, <3>2, <3>3 DEF TreeInv, StepMakes, Being, Made
      <4> QED BY <4>2, <4>3
    <3> QED BY <1>1, <3>1, <3>3
  <2> QED BY <1>0, <2>1, <2>2, <2>3, NextTree
<1> QED BY <1>2, <1>3

LEMMA TreeStep == TreeInv /\ [Next]_vars => TreeInv'
<1> SUFFICES ASSUME TreeInv, [Next]_vars PROVE TreeInv' OBVIOUS
<1>1. CASE UNCHANGED vars
  <2>1. TypeOK' BY <1>1 DEF TreeInv, TypeOK, vars, chainVars, cacheVars
  <2> QED BY <1>1, <2>1, QuietTree DEF vars, chainVars, TreeInv, PhaseFits
<1>2. CASE Boot
  BY <1>2, InspectTree, TruncateTree, WriteTree, PublishTree, RestoreTree, RestoreTruncatesTree,
     RestoreWritesTree, RestoredTree, StepDoneTree,
     SyncCacheTree, WriteStampTree, ServeTree DEF Boot
<1>3. CASE StepFails \/ Kill \/ Restart \/ Recreate
  BY <1>3, StepFailsTree, KillTree, RestartTree, RecreateTree
<1> QED BY <1>1, <1>2, <1>3 DEF Next

-----------------------------------------------------------------------------
(* Results *)

LEMMA BootInvariant == Spec => [](TreeInv /\ CacheInv)
<1>1. Init => TreeInv /\ CacheInv BY TreeInit, CacheInit
<1>2. TreeInv /\ CacheInv /\ [Next]_vars => (TreeInv /\ CacheInv)'
  BY TreeStep, CacheStep DEF TreeInv
<1> QED BY <1>1, <1>2, PTL DEF Spec

\* Every variable has its type: in particular no hunk is ever written into a
\* torn file.
THEOREM BootTypeCorrect == Spec => []TypeOK
<1>1. TreeInv /\ CacheInv => TypeOK BY DEF TreeInv
<1> QED BY <1>1, BootInvariant, PTL

\* Whatever chain of steps is run, and however often it is killed, fails, is
\* rolled back and run again, an engine that serves has every file with the
\* hunks of exactly the steps that patch it (main() of the hotfix programs).
THEOREM ServesWhole == Spec => []EngineWhole
<1>1. ASSUME TreeInv, engine = "serving", NEW f \in Files PROVE tree[f] = Hunks(f, mode)
  <2>0. at = Len(Chain) + 1 /\ phase = "inspect" /\ Len(Chain) \in Nat /\ Steps = 1 .. at - 1
    BY <1>1, BootAssumption DEF TreeInv, PhaseFits, Steps
  <2>1. \A j \in Steps : f \in FilesOf(j) =>
           /\ Changes(j, f, mode) => Done(j, tree[f])
           /\ How(j) = "verdict" => tree[f] # Torn
    BY <1>1, <2>0 DEF TreeInv, StepsPassed, Being, Through
  <2>2. tree[f] # Torn
    <3> SUFFICES ASSUME tree[f] = Torn PROVE FALSE OBVIOUS
    <3>1. PICK j \in Steps : f \in FilesOf(j) /\ WritesOver(j)
      BY <1>1 DEF TreeInv, TornInPlace
    <3>2. Done(j, Torn) BY <2>1, <3>1 DEF Changes, How, WritesOver
    <3>3. How(j) = "edit" BY <3>2, StepFacts DEF Done, Torn
    <3>4. \E v \in Steps : How(v) = "verdict" /\ f \in FilesOf(v)
      BY <3>1, <3>3, BootAssumption DEF How
    <3> QED BY <2>1, <3>4
  <2>3. tree[f] \subseteq Hunks(f, mode) BY <1>1, <2>2 DEF TreeInv, OwnHunks
  <2>4. Hunks(f, mode) \subseteq tree[f] BY <2>1, <2>2 DEF Hunks, Changes, Done
  <2> QED BY <2>3, <2>4
<1>2. TreeInv /\ CacheInv => EngineWhole BY <1>1 DEF EngineWhole
<1> QED BY <1>2, BootInvariant, PTL

\* An engine that serves runs a graph compiled in its own mode, for any number
\* of modes and of containers that leave their cache to the next one
\* (sync_compile_cache_stamp).
THEOREM CacheFollowsMode == Spec => []CacheMatchesMode
<1>1. TreeInv /\ CacheInv => CacheMatchesMode BY DEF CacheInv, CacheMatchesMode
<1> QED BY <1>1, BootInvariant, PTL

\* A rollback that has come to its end has restored every file that the step
\* found, in transactions of any number of files.
THEOREM RollbackComplete == Spec => UndoneIsUndone
<1>1. ASSUME TreeInv, [Next]_vars, phase = "restore", engine' = "exited", k = 1
      PROVE  tree' = before
  <2>1. \A f \in Files : tree[f] = before[f]
    <3> SUFFICES ASSUME NEW f \in Files, tree[f] # before[f] PROVE FALSE OBVIOUS
    <3>1. at \in Steps BY <1>1 DEF TreeInv, PhaseFits
    <3>2. PICK n \in DOMAIN Targets(at) : n < 1
      BY <1>1 DEF TreeInv, ToRestore, Undoable, Being
    <3> QED BY <3>1, <3>2, StepFacts
  <2>2. tree = before BY <1>1, <2>1 DEF TreeInv, TypeOK
  <2>3. tree' = tree
    BY <1>1 DEF Next, Boot, vars, Inspect, Truncate, Write, Publish, Restore, RestoreTruncates,
                RestoreWrites, Restored, StepDone, SyncCache, WriteStamp, Serve, StepFails, Kill, Restart, Recreate, InStep
  <2> QED BY <2>2, <2>3
<1>2. TreeInv /\ CacheInv /\ [Next]_vars =>
        [phase = "restore" /\ engine' = "exited" /\ k = 1 => tree' = before]_vars
  BY <1>1
<1> QED BY <1>2, BootInvariant, PTL DEF Spec, UndoneIsUndone
=============================================================================
