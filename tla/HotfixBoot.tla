----------------------------- MODULE HotfixBoot -----------------------------
(***************************************************************************)
(* One container: the command of the compose file patches the installed    *)
(* vLLM step by step and then becomes the engine.                          *)
(*                                                                         *)
(* Every step is a program of its own that recognises what it finds, and   *)
(* that fails closed (|| exit 1).  A kill may fall between any two file     *)
(* operations; dockerd starts the container again with the files as they   *)
(* are and the chain runs from its beginning.  Recreating it brings back   *)
(* the files of the image; the compile cache, on the host, stays.          *)
(*                                                                         *)
(* The content of a file is the set of steps whose hunks it holds, or Torn *)
(* between the truncation and the write of a file written in place.        *)
(***************************************************************************)
EXTENDS Integers, Sequences

CONSTANTS Chain,        \* the steps in the order of the command
          Files,        \* files of the installation
          Modes,        \* values of ABLATE and its settings; one is "off"
          MaxFaults,    \* bound: kills and failing operations
          MaxRecreates  \* bound: containers after the first

\* The content of a truncated file.
Torn == {"torn"}

(* A step: name; how it writes ("copy"; "inplace"; "overwrite", which     *)
(* writes also what it finds patched; "edit", which leaves a file it does  *)
(* not know for the "verdict" of its program, that writes nothing;         *)
(* "publish"; "ablate"); files, in the order it writes them; pinned: it    *)
(* compares whole contents with those of stock and patched, otherwise it   *)
(* looks for its own hunks; undo: how it restores what it wrote when it    *)
(* fails ("none", "replace", or "inplace").                                *)
Steps == 1 .. Len(Chain)
Name(i) == Chain[i].name
Names == {Name(i) : i \in Steps}
Targets(i) == Chain[i].files
FilesOf(i) == {Targets(i)[n] : n \in DOMAIN Targets(i)}

\* The step changes f in mode m: the ablation only when it is on.
Changes(i, f, m) ==
    f \in FilesOf(i) /\ Chain[i].how # "verdict" /\ (Chain[i].how = "ablate" => m # "off")

Hunks(f, m) == {Name(i) : i \in {j \in Steps : Changes(j, f, m)}}

ASSUME BootAssumption ==
    /\ Len(Chain) \in Nat
    /\ \A i \in Steps :
         /\ Chain[i].how \in {"copy", "inplace", "overwrite", "edit", "verdict",
                              "publish", "ablate"}
         /\ Targets(i) \in Seq(Files) /\ Targets(i) # <<>>
         /\ Chain[i].how \in {"copy", "ablate"} => Len(Targets(i)) = 1
         /\ Chain[i].pinned \in BOOLEAN
         /\ Chain[i].undo \in {"none", "replace", "inplace"}
         /\ Chain[i].undo # "none" => Chain[i].how \in {"inplace", "publish"}
         /\ \A j \in Steps : Name(i) = Name(j) => i = j
         \* A file that is copied is copied first.
         /\ Chain[i].how = "copy" => \A j \in 1 .. (i - 1) : Targets(i)[1] \notin FilesOf(j)
         \* An edit looks for its own hunks, and its program gives its verdict
         \* on all its files later.
         /\ Chain[i].how = "edit" =>
              /\ ~ Chain[i].pinned
              /\ \A f \in FilesOf(i) : \E j \in Steps :
                    j > i /\ Chain[j].how = "verdict" /\ f \in FilesOf(j)
         \* What a step takes for its result holds its hunks.
         /\ Chain[i].pinned => \A c \in Chain[i].patched : Name(i) \in c
    \* The ablation, on or off, is always in the command.
    /\ \E i \in Steps : Chain[i].how = "ablate"
    /\ "off" \in Modes /\ "none" \notin Modes
    /\ \A i \in Steps : Name(i) # "torn"
    /\ MaxFaults \in Nat /\ MaxRecreates \in Nat

VARIABLES
    engine,     \* "booting", "exited", "serving"
    mode,       \* ABLATE of this container
    tree,       \* content of every file
    at, phase,  \* step of the chain, and what it does
    k,          \* file of the step that is next
    before,     \* the tree as the step found it
    cache,      \* torch_compile_cache: mode it was compiled in, or "none"
    stamp,      \* .dsv4_ablate_stamp, or "none"
    graph,      \* mode of the graph the engine runs
    faults, recreates

chainVars == <<at, phase, k, before>>
cacheVars == <<cache, stamp, graph>>
vars == <<engine, mode, tree, chainVars, cacheVars, faults, recreates>>

\* A host may hold the cache of a stock engine from before there was a stamp.
Init ==
    /\ engine = "booting"
    /\ mode \in Modes
    /\ tree = [f \in Files |-> {}]
    /\ at = 1 /\ phase = "inspect" /\ k = 1
    /\ before = tree
    /\ cache \in {"none", "off"}
    /\ stamp = "none"
    /\ graph = "none"
    /\ faults = 0 /\ recreates = 0

-----------------------------------------------------------------------------
(* What a step makes of a content *)

\* Fault: the hunks of later steps are not expected.
RecogniseAlone(i, c) ==
    IF c = Torn THEN "unknown"
    ELSE IF c = {} THEN "stock"
    ELSE IF Name(i) \in c /\ \A j \in Steps : Name(j) \in c => j <= i THEN "patched"
    ELSE IF Name(i) \notin c THEN "stock" ELSE "unknown"

\* Fault: a torn file that still holds the mark passes.
RecogniseMark(i, c) ==
    IF c = Torn THEN "patched" ELSE IF Name(i) \in c THEN "patched" ELSE "stock"

\* Digest of the whole file, or presence of the step's own hunks.
Recognise(i, c) ==
    IF c = Torn THEN "unknown"
    ELSE IF Chain[i].pinned
    THEN IF c \in Chain[i].patched THEN "patched"
         ELSE IF c \in Chain[i].stock THEN "stock" ELSE "unknown"
    ELSE IF Name(i) \in c THEN "patched" ELSE "stock"

Found(i, n) == Recognise(i, before[Targets(i)[n]])

InStep(p) == engine = "booting" /\ at \in Steps /\ phase = p

NextStep == at' = at + 1 /\ phase' = "inspect" /\ k' = 1

\* || exit 1: the command ends.
Fail == engine' = "exited" /\ UNCHANGED <<at, phase, k>>

\* Everything the step is about to touch is looked at before the first write;
\* a copy looks at nothing, an edit does not end its program, and the ablation,
\* when off, looks only for its mark.
Refused(i) ==
    \E n \in DOMAIN Targets(i) :
      CASE Chain[i].how \in {"copy", "edit"} -> FALSE
        [] Chain[i].how = "ablate" /\ mode = "off" -> Name(i) \in tree[Targets(i)[n]]
        [] OTHER -> Recognise(i, tree[Targets(i)[n]]) = "unknown"

FirstPhase(i) ==
    CASE Chain[i].how \in {"copy", "inplace", "overwrite", "edit", "verdict"} -> "truncate"
      [] Chain[i].how = "ablate" /\ mode = "off" -> "sync"
      [] OTHER -> "publish"

Inspect ==
    /\ InStep("inspect")
    /\ before' = tree
    /\ IF Refused(at) THEN Fail
       ELSE phase' = FirstPhase(at) /\ UNCHANGED <<engine, at, k>>
    /\ UNCHANGED <<mode, tree, cacheVars, faults, recreates>>

-----------------------------------------------------------------------------
(* cp and Path.write_text: the file is truncated, then written *)

Spared(i, n) ==
    \/ Chain[i].how = "verdict"
    \/ Chain[i].how \in {"inplace", "edit"} /\ Found(i, n) # "stock"

Truncate ==
    /\ InStep("truncate") /\ k <= Len(Targets(at))
    /\ IF Spared(at, k)
       THEN k' = k + 1 /\ UNCHANGED <<phase, tree>>
       ELSE /\ tree' = [tree EXCEPT ![Targets(at)[k]] = Torn]
            /\ phase' = "write"
            /\ UNCHANGED k
    /\ UNCHANGED <<engine, mode, at, before, cacheVars, faults, recreates>>

\* A copy has none of the hunks of later steps.
Written(i, n) ==
    IF Chain[i].how = "copy" THEN {Name(i)} ELSE before[Targets(i)[n]] \cup {Name(i)}

Write ==
    /\ InStep("write")
    /\ tree' = [tree EXCEPT ![Targets(at)[k]] = Written(at, k)]
    /\ phase' = "truncate" /\ k' = k + 1
    /\ UNCHANGED <<engine, mode, at, before, cacheVars, faults, recreates>>

-----------------------------------------------------------------------------
(* Staging, os.replace, verification, rollback *)

\* The next file that is still stock is replaced by its staged image.
Publish ==
    /\ InStep("publish") /\ k <= Len(Targets(at))
    /\ tree' = IF Found(at, k) = "patched" THEN tree
               ELSE [tree EXCEPT ![Targets(at)[k]] = before[Targets(at)[k]] \cup {Name(at)}]
    /\ k' = k + 1
    /\ UNCHANGED <<engine, mode, at, phase, before, cacheVars, faults, recreates>>

\* Staging, replacement or verification of a file fails in a step that undoes:
\* the files before k are written.
StepFails ==
    /\ InStep("publish") \/ (InStep("truncate") /\ k > Len(Targets(at)))
    /\ Chain[at].undo # "none" /\ faults < MaxFaults
    /\ faults' = faults + 1
    /\ phase' = "restore"
    /\ UNCHANGED <<engine, mode, tree, at, k, before, cacheVars, recreates>>

\* Fault: the file published last, whose verification failed, is not among
\* those to be restored.
RestoredVerified(n) == n < k - 1 /\ Found(at, n) = "stock"

\* A file joins the rollback when it has been replaced or written.
Published(n) == n < k /\ Found(at, n) = "stock"

\* In reverse order, from the bytes read at the beginning.
Restore ==
    /\ InStep("restore") /\ k > 1
    /\ ~ (Published(k - 1) /\ Chain[at].undo = "inplace")
    /\ tree' = IF Published(k - 1)
               THEN [tree EXCEPT ![Targets(at)[k - 1]] = before[Targets(at)[k - 1]]] ELSE tree
    /\ k' = k - 1
    /\ UNCHANGED <<engine, mode, at, phase, before, cacheVars, faults, recreates>>

\* write_bytes() or write_text() over the file itself is no replacement: it is
\* truncated first.
RestoreTruncates ==
    /\ InStep("restore") /\ k > 1
    /\ Published(k - 1) /\ Chain[at].undo = "inplace"
    /\ tree' = [tree EXCEPT ![Targets(at)[k - 1]] = Torn]
    /\ phase' = "rewrite"
    /\ UNCHANGED <<engine, mode, at, k, before, cacheVars, faults, recreates>>

RestoreWrites ==
    /\ InStep("rewrite")
    /\ tree' = [tree EXCEPT ![Targets(at)[k - 1]] = before[Targets(at)[k - 1]]]
    /\ phase' = "restore" /\ k' = k - 1
    /\ UNCHANGED <<engine, mode, at, before, cacheVars, faults, recreates>>

Restored ==
    /\ InStep("restore") /\ k = 1
    /\ Fail
    /\ UNCHANGED <<mode, tree, before, cacheVars, faults, recreates>>

\* All files are written and verified.
StepDone ==
    /\ InStep("truncate") \/ InStep("publish")
    /\ k > Len(Targets(at))
    /\ IF Chain[at].how = "ablate" THEN phase' = "sync" /\ UNCHANGED <<at, k>> ELSE NextStep
    /\ UNCHANGED <<engine, mode, tree, before, cacheVars, faults, recreates>>

-----------------------------------------------------------------------------
(* The compile cache and its stamp *)

\* Fault: a first ablated boot inherits the cache like a stock one.
StaleKnownOnly == stamp # "none"

\* The first boot in stock mode inherits a cache known to be stock; any change
\* of mode after that, and a first ablated boot, discards it.
Stale == stamp # "none" \/ mode # "off"

\* sync_compile_cache_stamp(), up to the removal of the cache.
SyncCache ==
    /\ InStep("sync")
    /\ IF stamp = mode THEN NextStep /\ UNCHANGED cache
       ELSE /\ phase' = "stamp" /\ UNCHANGED <<at, k>>
            /\ cache' = IF Stale THEN "none" ELSE cache
    /\ UNCHANGED <<engine, mode, tree, before, stamp, graph, faults, recreates>>

\* Then the stamp is replaced.
WriteStamp ==
    /\ InStep("stamp")
    /\ stamp' = mode
    /\ NextStep
    /\ UNCHANGED <<engine, mode, tree, before, cache, graph, faults, recreates>>

-----------------------------------------------------------------------------
(* The container *)

\* exec vllm serve: the graph is the cached one, or compiled and cached.
Serve ==
    /\ engine = "booting" /\ at = Len(Chain) + 1
    /\ engine' = "serving"
    /\ graph' = IF cache = "none" THEN mode ELSE cache
    /\ cache' = graph'
    /\ UNCHANGED <<mode, tree, chainVars, stamp, faults, recreates>>

\* The container dies, anywhere.  This is also what an operation comes to that
\* fails with nothing to undo it, a rollback that fails among them.
Kill ==
    /\ engine # "exited" /\ faults < MaxFaults
    /\ engine' = "exited"
    /\ faults' = faults + 1
    /\ UNCHANGED <<mode, tree, chainVars, cacheVars, recreates>>

\* restart: unless-stopped
Restart ==
    /\ engine = "exited"
    /\ engine' = "booting"
    /\ at' = 1 /\ phase' = "inspect" /\ k' = 1
    /\ graph' = "none"
    /\ UNCHANGED <<mode, tree, before, cache, stamp, faults, recreates>>

\* A new container from the image, with the environment of the day.
Recreate ==
    /\ recreates < MaxRecreates
    /\ recreates' = recreates + 1
    /\ engine' = "booting"
    /\ mode' \in Modes
    /\ tree' = [f \in Files |-> {}]
    /\ at' = 1 /\ phase' = "inspect" /\ k' = 1
    /\ graph' = "none"
    /\ UNCHANGED <<before, cache, stamp, faults>>

Boot ==
    \/ Inspect \/ Truncate \/ Write \/ Publish
    \/ Restore \/ RestoreTruncates \/ RestoreWrites \/ Restored
    \/ StepDone \/ SyncCache \/ WriteStamp \/ Serve

Next == Boot \/ StepFails \/ Kill \/ Restart \/ Recreate

Spec == Init /\ [][Next]_vars

\* The command runs on, and dockerd restarts what has exited.
FairSpec == Spec /\ WF_vars(Boot) /\ WF_vars(Restart)

-----------------------------------------------------------------------------
(* Properties *)

\* Every variable has its type.
TypeOK ==
    /\ engine \in {"booting", "exited", "serving"}
    /\ mode \in Modes
    /\ tree \in [Files -> (SUBSET Names) \cup {Torn}]
    /\ at \in 1 .. Len(Chain) + 1
    /\ phase \in {"inspect", "truncate", "write", "publish", "restore", "rewrite", "sync", "stamp"}
    /\ k \in Nat
    /\ before \in [Files -> (SUBSET Names) \cup {Torn}]
    /\ cache \in Modes \cup {"none"} /\ stamp \in Modes \cup {"none"}
    /\ graph \in Modes \cup {"none"}
    /\ faults \in 0 .. MaxFaults /\ recreates \in 0 .. MaxRecreates

\* The engine runs only a complete installation: every file holds the hunks of
\* exactly the steps that patch it, whatever was killed, failed, rolled back
\* and run again before.
EngineWhole == engine = "serving" => \A f \in Files : tree[f] = Hunks(f, mode)

\* The graph that runs was compiled from the code and the settings that run,
\* although cache and stamp are changed one after the other and outlive the
\* container.
CacheMatchesMode == engine = "serving" => graph = mode

\* A step that fails and says that it restored the files has restored them,
\* whether it puts them back by replacement or writes over them in place.
UndoneIsUndone == [][phase = "restore" /\ engine' = "exited" /\ k = 1 => tree' = before]_vars

\* The files that a restart writes anew.
Copied == UNION {FilesOf(i) : i \in {j \in Steps : Chain[j].how = "copy"}}

\* A file that no step copies is torn: only a new container helps.
Lost == \E f \in Files \ Copied : tree[f] = Torn

\* When containers stop dying, restarts alone lead to a serving engine, unless
\* a kill tore a file written in place: every step accepts what its own earlier
\* run and the later steps have left.
ServesUnlessLost == <>[](engine = "serving") \/ <>[]Lost

=============================================================================
