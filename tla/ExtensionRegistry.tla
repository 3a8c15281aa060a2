-------------------------- MODULE ExtensionRegistry --------------------------
(***************************************************************************)
(* The extensions the host knows: the registry file, the directories of    *)
(* packages and of development sources, the snapshot built from both, and  *)
(* the viewers that follow it (extension-host/src/registry.rs and          *)
(* server/src/routes/extensions.rs).                                       *)
(*                                                                         *)
(* Nothing is locked between reading the registry file and writing it, nor *)
(* between building a snapshot and publishing it.  Writing the file first  *)
(* empties it, and an empty file reads as a registry without entries.      *)
(*                                                                         *)
(* The id of an extension is the name of its directory.  What differs in   *)
(* two snapshots is the mode and the health of the extensions; what they   *)
(* contribute is in Contributions.                                         *)
(***************************************************************************)
EXTENDS Integers, Sequences, FiniteSets, SequencesExt

CONSTANTS
    ExtIds,           \* extensions
    InstalledIds,     \* those that are there as packages at first
    Operators,        \* requests, the refresh loop and the command line
    EventLimit,       \* events that are kept
    MaxAdminCalls,    \* bound on the calls
    MaxChanges        \* bound on the changes of directories and restarts of the server

ASSUME RegistryAssumption ==
    /\ {MaxAdminCalls, MaxChanges} \subseteq Nat
    /\ EventLimit \in Nat \ {0}
    /\ IsFiniteSet(ExtIds) /\ InstalledIds \subseteq ExtIds

VARIABLES
    regFile,   \* the registry file: entries of packages, and development sources
    sources,   \* what is in the directories
    graph,     \* the published snapshot
    extLog,    \* the events, by generation and extension
    admins,    \* calls under way
    workerOf,  \* the worker pool of each extension
    viewer,    \* a client of the event stream
    used      \* calls and changes so far

registryVars == <<regFile, sources, graph, extLog, admins, workerOf, viewer, used>>

Contents  == {"none", "good", "warn", "bad"}
Flags     == {"none", "on", "off"}
Nobody    == [mode |-> "none", health |-> "none"]
Resolved  == [mode : {"package", "dev"}, health : {"ready", "degraded", "failed"}]
EmptyFile == [entries |-> [x \in ExtIds |-> "none"], dev |-> [x \in ExtIds |-> "none"]]
NoGraph   == [x \in ExtIds |-> Nobody]
NoPool    == [mode |-> "none", late |-> FALSE]
AtRest    == [step |-> "idle", op |-> "none", ext |-> "none", file |-> EmptyFile, next |-> NoGraph,
              gen |-> 0, swapped |-> FALSE, clean |-> FALSE]

(* Type correctness; the events are never more than are kept, and there is   *)
(* always the one of a snapshot.                                             *)
RegistryTypeOK ==
    /\ regFile \in [entries : [ExtIds -> Flags], dev : [ExtIds -> Flags]]
    /\ sources \in [ExtIds -> [package : Contents, dev : Contents]]
    /\ graph.gen \in Nat \ {0} /\ graph.exts \in [ExtIds -> Resolved \cup {Nobody}]
    /\ Len(extLog) \in 1..EventLimit
    /\ DOMAIN admins = Operators
    /\ workerOf \in [ExtIds -> [mode : {"package", "dev", "none"}, late : BOOLEAN]]
    /\ viewer \in [on : BOOLEAN, told : BOOLEAN, gen : Nat, missed : BOOLEAN]

-----------------------------------------------------------------------------
(* The snapshot *)

(* resolve_source: without a manifest it has failed, with a warning it is    *)
(* degraded.                                                                 *)
HealthOf(content) ==
    CASE content = "good" -> "ready" [] content = "warn" -> "degraded" [] OTHER -> "failed"

(* discover_sources and source_priority: a package that is not switched off, *)
(* also one that has no entry, and before it a development source.           *)
Resolve(reg, src, x) ==
    IF reg.dev[x] = "on" THEN [mode |-> "dev", health |-> HealthOf(src[x].dev)]
    ELSE IF src[x].package # "none" /\ reg.entries[x] # "off"
    THEN [mode |-> "package", health |-> HealthOf(src[x].package)]
    ELSE Nobody

(* build_snapshot *)
BuildSnapshot == [x \in ExtIds |-> Resolve(regFile, sources, x)]

Diagnosed(exts) == \E x \in ExtIds : exts[x].health \in {"degraded", "failed"}

(* equivalent_snapshots: a diagnostic has the time at which it was made.     *)
Equivalent(exts, next, sameSecond) == exts = next /\ (sameSecond \/ ~Diagnosed(next))

(* An event for each extension, and one for the snapshot. *)
NewEvents(gen, exts) ==
    LET seen == SetToSeq({x \in ExtIds : exts[x] # Nobody}) IN
    [i \in DOMAIN seen |-> [gen |-> gen, ext |-> seen[i]]] \o <<[gen |-> gen, ext |-> "graph"]>>

(* push_replace: the oldest events are dropped. *)
LogSwap(log, gen, exts) ==
    LET all == log \o NewEvents(gen, exts) IN
    SubSeq(all, IF Len(all) > EventLimit THEN Len(all) - EventLimit + 1 ELSE 1, Len(all))

(* bootstrap *)
RegistryInit ==
    /\ regFile = [EmptyFile EXCEPT !.entries = [x \in ExtIds |->
                                                  IF x \in InstalledIds THEN "on" ELSE "none"]]
    /\ sources = [x \in ExtIds |-> [package |-> IF x \in InstalledIds THEN "good" ELSE "none",
                                    dev |-> "good"]]
    /\ graph = [gen |-> 1, exts |-> [x \in ExtIds |-> Resolve(regFile, sources, x)]]
    /\ extLog = LogSwap(<<>>, 1, graph.exts)
    /\ admins = [a \in Operators |-> AtRest]
    /\ workerOf = [x \in ExtIds |-> NoPool]
    /\ viewer = [on |-> FALSE, told |-> FALSE, gen |-> 0, missed |-> FALSE]
    /\ used = [calls |-> 0, changes |-> 0]

-----------------------------------------------------------------------------
(* Calls *)

(* A call that is alone, from its beginning to its answer, is clean. *)
StartsCall(a, call) ==
    /\ admins[a].step = "idle" /\ used.calls < MaxAdminCalls
    /\ used' = [used EXCEPT !.calls = @ + 1]
    /\ admins' = [b \in Operators |->
                    IF b = a
                    THEN [call EXCEPT !.clean = \A c \in Operators : admins[c].step = "idle"]
                    ELSE [admins[b] EXCEPT !.clean = FALSE]]
GoesTo(a, step) == admins' = [admins EXCEPT ![a].step = step]

(* The refresh loop, and reload and restart of an extension.                 *)
Refresh(a) ==
    /\ \/ StartsCall(a, [AtRest EXCEPT !.op = "tick", !.step = "build"])
       \/ \E x \in ExtIds :
             StartsCall(a, [AtRest EXCEPT !.op = "reload", !.ext = x, !.step = "build"])
    /\ UNCHANGED <<regFile, sources, graph, extLog, workerOf, viewer>>

(* An edit of the registry that has been read. *)
Edits(a, op, x, file) ==
    /\ StartsCall(a, [AtRest EXCEPT !.op = op, !.ext = x, !.step = "empty", !.file = file])
    /\ UNCHANGED <<regFile, sources, graph, extLog, workerOf, viewer>>

(* attach_dev_source: of a directory with a manifest. *)
AttachDevSource(a, x) ==
    /\ sources[x].dev \in {"good", "warn"}
    /\ Edits(a, "attach", x, [regFile EXCEPT !.dev[x] = "on"])

(* detach_dev_source *)
DetachDevSource(a, x) ==
    /\ regFile.dev[x] # "none"
    /\ Edits(a, "detach", x, [regFile EXCEPT !.dev[x] = "none"])

(* set_extension_enabled: of the entries there are. *)
SetExtensionEnabled(a, x, flag) ==
    LET Flagged(f) == IF f = "none" THEN f ELSE flag IN
    /\ "none" # regFile.entries[x] \/ "none" # regFile.dev[x]
    /\ Edits(a, flag, x, [entries |-> [regFile.entries EXCEPT ![x] = Flagged(@)],
                          dev |-> [regFile.dev EXCEPT ![x] = Flagged(@)]])

(* write_registry_file: the file is emptied, and then written. *)
WriteRegistryFile(a) ==
    /\ \/ admins[a].step = "empty" /\ regFile' = EmptyFile /\ GoesTo(a, "write")
       \/ admins[a].step = "write" /\ regFile' = admins[a].file
          /\ admins' = [admins EXCEPT ![a].step = "build", ![a].file = EmptyFile]
    /\ UNCHANGED <<sources, graph, extLog, workerOf, viewer, used>>

(* refresh_from_disk up to the comparison with the snapshot it began with.   *)
Build(a) ==
    /\ admins[a].step = "build"
    /\ \E sameSecond \in BOOLEAN :
          IF Equivalent(graph.exts, BuildSnapshot, sameSecond) THEN GoesTo(a, "answer")
          ELSE admins' = [admins EXCEPT ![a].step = "invalidate", ![a].next = BuildSnapshot,
                                        ![a].gen = graph.gen + 1]
    /\ UNCHANGED <<regFile, sources, graph, extLog, workerOf, viewer, used>>

(* A mutant: only the pools of other entries are closed. *)
InvalidateChanged(a) ==
    LET Stale(x) == admins[a].next[x].mode \notin {workerOf[x].mode, "none"} IN
    /\ admins[a].step = "invalidate" /\ GoesTo(a, "swap")
    /\ workerOf' = [x \in ExtIds |-> IF Stale(x) THEN NoPool ELSE workerOf[x]]
    /\ UNCHANGED <<regFile, sources, graph, extLog, viewer, used>>

(* invalidate_missing_or_changed: pools of extensions that are not there,    *)
(* have no worker, or another entry.                                         *)
Invalidate(a) ==
    LET Stale(x) == \/ admins[a].next[x].mode # workerOf[x].mode
                    \/ admins[a].next[x].health = "failed"
    IN
    /\ admins[a].step = "invalidate" /\ GoesTo(a, "swap")
    /\ workerOf' = [x \in ExtIds |-> IF Stale(x) THEN NoPool ELSE workerOf[x]]
    /\ UNCHANGED <<regFile, sources, graph, extLog, viewer, used>>

(* The snapshot is published, whatever has been published since it was built.*)
Swap(a) ==
    /\ admins[a].step = "swap"
    /\ graph' = [gen |-> admins[a].gen, exts |-> admins[a].next]
    /\ extLog' = LogSwap(extLog, admins[a].gen, admins[a].next)
    /\ admins' = [admins EXCEPT ![a].step = "answer", ![a].swapped = TRUE, ![a].next = NoGraph,
                                ![a].gen = 0]
    /\ UNCHANGED <<regFile, sources, workerOf, viewer, used>>

(* The answer of the handler: extensions_changed is sent to the viewers if   *)
(* the loop has published something, or else unless the extension to be      *)
(* reloaded or attached is not found then.                                   *)
Announced(a) ==
    CASE admins[a].op = "tick" -> admins[a].swapped
      [] admins[a].op \in {"reload", "attach"} -> graph.exts[admins[a].ext] # Nobody
      [] OTHER -> TRUE

AnswerAdmin(a) ==
    /\ admins[a].step = "answer"
    /\ admins' = [admins EXCEPT ![a] = AtRest]
    /\ viewer' = IF Announced(a) THEN [viewer EXCEPT !.told = viewer.on]
                 ELSE [viewer EXCEPT !.missed = @ \/
                         (admins[a].swapped /\ admins[a].op \in {"reload", "attach"})]
    /\ UNCHANGED <<regFile, sources, graph, extLog, workerOf, used>>

-----------------------------------------------------------------------------
(* Workers, viewers, directories *)

(* dispatch_rpc takes the extension from the snapshot... *)
DispatchRpc(a, x) ==
    /\ graph.exts[x] # Nobody /\ graph.exts[x].health # "failed"
    /\ StartsCall(a, [AtRest EXCEPT !.op = graph.exts[x].mode, !.ext = x, !.step = "dispatch"])
    /\ UNCHANGED <<regFile, sources, graph, extLog, workerOf, viewer>>

(* ...and starts a worker for it, in a pool of its own if the entry differs. *)
StartWorker(a) ==
    LET x    == admins[a].ext
        late == \/ graph.exts[x].mode # admins[a].op
                \/ graph.exts[x].health = "failed"
                \/ \E b \in Operators : admins[b].step = "swap"
    IN
    /\ admins[a].step = "dispatch"
    /\ workerOf' = [workerOf EXCEPT ![x] = IF @.mode = admins[a].op THEN @
                                           ELSE [mode |-> admins[a].op, late |-> late]]
    /\ admins' = [admins EXCEPT ![a] = AtRest]
    /\ UNCHANGED <<regFile, sources, graph, extLog, viewer, used>>

(* extension_events_stream: a viewer subscribes, gets the generation, and    *)
(* gets it again whenever extensions_changed has been sent, or when it has   *)
(* fallen behind.                                                            *)
Subscribe ==
    /\ ~viewer.on
    /\ viewer' = [on |-> TRUE, told |-> FALSE, gen |-> graph.gen, missed |->
                    \E a \in Operators : admins[a].step = "answer" /\ admins[a].swapped]
    /\ UNCHANGED <<regFile, sources, graph, extLog, admins, workerOf, used>>
Receive ==
    /\ viewer.told
    /\ viewer' = [viewer EXCEPT !.told = FALSE, !.gen = graph.gen, !.missed = FALSE]
    /\ UNCHANGED <<regFile, sources, graph, extLog, admins, workerOf, used>>

(* Someone edits a directory. *)
SourceChanges ==
    /\ used.changes < MaxChanges
    /\ used' = [used EXCEPT !.changes = @ + 1]
    /\ \E x \in ExtIds, content \in Contents :
          \/ sources' = [sources EXCEPT ![x].package = content]
          \/ sources' = [sources EXCEPT ![x].dev = content]
    /\ admins' = [a \in Operators |-> [admins[a] EXCEPT !.clean = FALSE]]
    /\ UNCHANGED <<regFile, graph, extLog, workerOf, viewer>>

(* The server stops, and bootstraps from what is there. *)
RestartHost ==
    /\ used.changes < MaxChanges
    /\ used' = [used EXCEPT !.changes = @ + 1]
    /\ admins' = [a \in Operators |-> AtRest]
    /\ graph' = [gen |-> 1, exts |-> BuildSnapshot]
    /\ extLog' = LogSwap(<<>>, 1, BuildSnapshot)
    /\ workerOf' = [x \in ExtIds |-> NoPool]
    /\ viewer' = [on |-> FALSE, told |-> FALSE, gen |-> 0, missed |-> FALSE]
    /\ UNCHANGED <<regFile, sources>>

RegistryNext ==
    \/ \E a \in Operators :
          \/ Refresh(a) \/ WriteRegistryFile(a) \/ Build(a) \/ Invalidate(a) \/ Swap(a)
          \/ AnswerAdmin(a) \/ StartWorker(a)
          \/ \E x \in ExtIds :
                \/ AttachDevSource(a, x) \/ DetachDevSource(a, x) \/ DispatchRpc(a, x)
                \/ \E flag \in {"on", "off"} : SetExtensionEnabled(a, x, flag)
    \/ Subscribe \/ Receive \/ SourceChanges \/ RestartHost

RegistrySpec == RegistryInit /\ [][RegistryNext]_registryVars

-----------------------------------------------------------------------------
(* Properties *)

(* What a call has done is what the snapshot shows when it answers, if it    *)
(* was alone: an attached source goes before the package, a detached one     *)
(* leaves it, and an extension that is switched off is gone, except for a    *)
(* package that no entry of the registry knows.                              *)
AnswersAreShown ==
    \A a \in Operators :
       LET x == admins[a].ext IN
       (admins[a].step = "answer" /\ admins[a].clean) =>
          CASE admins[a].op = "attach" -> graph.exts[x].mode = "dev"
            [] admins[a].op = "detach" -> graph.exts[x].mode # "dev"
            [] admins[a].op = "off" ->
                  \/ graph.exts[x] = Nobody
                  \/ regFile.entries[x] = "none" /\ graph.exts[x].mode = "package"
            [] OTHER -> TRUE

(* The newest event is the one of the snapshot that is shown. *)
LogEndsWithGraph == Last(extLog) = [gen |-> graph.gen, ext |-> "graph"]

(* A viewer that has seen everything it was told of shows the generation of  *)
(* the snapshot, unless a reload or an attachment that published a snapshot  *)
(* answered that there is no such extension.                                 *)
ViewersAreTold ==
    \/ ~viewer.on \/ viewer.told \/ viewer.missed
    \/ viewer.gen = graph.gen
    \/ \E a \in Operators : admins[a].step = "answer" /\ admins[a].swapped

(* Once nobody publishes, a worker runs for an extension that is not there,  *)
(* or from a source that is not the one shown, only if it was started while  *)
(* a snapshot was being published.                                           *)
LeakedWorkersStartedLate ==
    \A x \in ExtIds :
       \/ workerOf[x].mode \in {"none", graph.exts[x].mode} \/ workerOf[x].late
       \/ \E a \in Operators : admins[a].step \in {"swap", "invalidate"}

(* What the host shows of its extensions is what was asked for, logged, told *)
(* and running, with calls, refreshes and edits of the directories under way *)
(* at once. *)
RegistryIsTruthful ==
    /\ AnswersAreShown
    /\ LogEndsWithGraph
    /\ ViewersAreTold
    /\ LeakedWorkersStartedLate
=============================================================================
