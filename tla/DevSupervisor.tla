---------------------------- MODULE DevSupervisor ----------------------------
(***************************************************************************)
(* The supervisor of `ennoia dev` (cli/src/main.rs): it keeps one API      *)
(* process running, from a copy of its binary, rebuilds and restarts it    *)
(* when the code of the host or of the builtin workers changes, goes back  *)
(* to the copy before when the new one does not start, and restarts one    *)
(* that has exited or hangs.                                               *)
(*                                                                         *)
(* First it builds and installs the workers, builds the host and launches  *)
(* it, and only then starts to watch the files.  From then on its loop     *)
(* does one thing at a time: each tick looks after the API, then collects  *)
(* the changes the watchers have sent, then reloads what has been quiet    *)
(* for long enough.  Files, the API process and its port change meanwhile. *)
(* Versions of the code are the number of edits made to it.  The host      *)
(* binary embeds the files of the builtin extensions and skills: those     *)
(* whose change does not rebuild it have versions of their own.            *)
(***************************************************************************)
EXTENDS Integers, FiniteSets

CONSTANTS
    MaxEdits,   \* bound on the edits of each part of the code
    MaxMishaps  \* bound on crashes, failing builds, installs and launches, stuck ports

ASSUME DevAssumption == {MaxEdits, MaxMishaps} \subseteq Nat

VARIABLES
    devTree,    \* the version of the code
    devEvents,  \* the parts a watcher has sent a change of
    devPending, \* the parts with a change that waits to be quiet
    devWatching,\* the parts whose watcher has started
    devUnseen,  \* what was edited and not built since, and no watcher told of it
    devApi,     \* what the supervisor takes for the current API, and how its process is
    devPort,    \* whether something else holds the port of the API
    devBuilt,   \* the versions of the workers built and installed
    devTask,    \* what the supervisor is doing
    devFailed,  \* the parts whose last reload failed, and whether a launch did last
    devMishaps  \* mishaps so far

(* What the files and the watchers have brought. *)
devChanges == <<devTree, devEvents, devPending, devWatching>>

devVars == <<devChanges, devUnseen, devApi, devPort, devBuilt, devTask, devFailed, devMishaps>>

-----------------------------------------------------------------------------
Parts    == {"host", "workers"}
Streams  == Parts \cup {"packages"}
Versions == 0..MaxEdits
Trees    == [Streams -> Versions]
Snaps    == [host : Versions, packages : Versions]

Untouched == [k \in Streams |-> 0]
NoSnap    == [host |-> 0, packages |-> 0]
NoApi     == [is |-> "none", snap |-> NoSnap, process |-> "dead", slow |-> FALSE]
ApiOf(v)  == [is |-> "some", snap |-> v, process |-> "up", slow |-> FALSE]
RestingSupervisor == [at |-> "health", why |-> "none", snap |-> NoSnap, prev |-> NoApi,
                      from |-> Untouched, parts |-> {}]

DevTypeOK ==
    /\ devTree \in Trees
    /\ devEvents \subseteq devWatching /\ devPending \subseteq devWatching
    /\ devWatching \subseteq Parts /\ devUnseen \subseteq Streams
    /\ devApi \in [is : {"none", "some"}, snap : Snaps, process : {"up", "hung", "dead"},
                   slow : BOOLEAN]
    /\ devApi.is = "none" => devApi = NoApi
    /\ devPort \in BOOLEAN
    /\ devBuilt \in [built : Versions, installed : Versions]
    /\ devTask.at \in {"workers", "host", "release", "install", "launch", "watch", "health",
                       "drain", "ended"}
    /\ devTask.why \in {"none", "initial", "exited", "unhealthy", "rebuild", "refresh",
                        "rollback", "failed"}
    /\ devTask.at \in {"health", "drain"} => devTask = [RestingSupervisor EXCEPT !.at = devTask.at]
    /\ devTask.why # "initial" /\ devTask.at # "ended" => devWatching = Parts
    /\ devFailed \subseteq Parts \cup {"launch"}
    /\ devMishaps \in 0..MaxMishaps

(* The supervisor begins to build the workers; no API holds the port.        *)
DevInit ==
    /\ devTree = Untouched /\ devEvents = {} /\ devPending = {}
    /\ devWatching = {} /\ devUnseen = {}
    /\ devApi = NoApi /\ devPort = FALSE
    /\ devBuilt = [built |-> 0, installed |-> 0]
    /\ devTask = [RestingSupervisor EXCEPT !.at = "workers", !.why = "initial", !.parts = Parts]
    /\ devFailed = {} /\ devMishaps = 0

Mishap == devMishaps < MaxMishaps /\ devMishaps' = devMishaps + 1

-----------------------------------------------------------------------------
(* What happens around the supervisor. *)

(* Files: of a crate, Cargo.toml and Cargo.lock, SKILL.md and config.toml of *)
(* a skill, other assets, the sources of a builtin worker, and the rest of an*)
(* extension or a skill. *)
FileKinds == {"crate", "manifest", "skill", "asset", "worker", "other"}

(* What is built from a file: the workers use the crates too, and the host   *)
(* binary takes in every file of the extensions and skills.                  *)
BuiltFrom(kind) ==
    CASE kind \in {"crate", "manifest"} -> Parts
      [] kind \in {"skill", "asset"}    -> {"host"}
      [] kind = "worker"                -> {"workers", "packages"}
      [] OTHER                          -> {"packages"}

(* is_host_reload_path and is_builtin_worker_reload_path: which watcher sends*)
(* its change. *)
WatchedBy(kind) ==
    CASE kind \in {"crate", "manifest", "skill", "asset"} -> {"host"}
      [] kind = "worker"                                  -> {"workers"}
      [] OTHER                                            -> {}

(* What is edited before its watcher has started is not sent later either,   *)
(* and no watcher tells the host of a package. *)
Untold(kind) ==
    IF WatchedBy(kind) \cap devWatching # {} THEN BuiltFrom(kind) \ Parts
    ELSE BuiltFrom(kind)

EditFile(kind) ==
    /\ \A k \in BuiltFrom(kind) : devTree[k] < MaxEdits
    /\ devTree' = [k \in Streams |-> devTree[k] + IF k \in BuiltFrom(kind) THEN 1 ELSE 0]
    /\ devEvents' = devEvents \cup (WatchedBy(kind) \cap devWatching)
    /\ devUnseen' = devUnseen \cup Untold(kind)
    /\ UNCHANGED <<devPending, devWatching, devApi, devPort, devBuilt, devTask, devFailed,
                   devMishaps>>

ApiFails(how) ==
    /\ devApi.process = "up" /\ devTask.at # "ended" /\ Mishap
    /\ devApi' = [devApi EXCEPT !.process = how]
    /\ UNCHANGED <<devChanges, devUnseen, devPort, devBuilt, devTask, devFailed>>

ApiRecovers ==
    /\ devApi.process = "hung" /\ devApi' = [devApi EXCEPT !.process = "up"]
    /\ UNCHANGED <<devChanges, devUnseen, devPort, devBuilt, devTask, devFailed,
                   devMishaps>>

PortIsFreed ==
    /\ devPort /\ devPort' = FALSE
    /\ UNCHANGED <<devChanges, devUnseen, devApi, devBuilt, devTask, devFailed,
                   devMishaps>>

-----------------------------------------------------------------------------
(* stop_child_process ends with the process; its port may stay held.         *)
StopApi ==
    /\ devApi' = [devApi EXCEPT !.process = "dead"]
    /\ \/ UNCHANGED <<devPort, devMishaps>>
       \/ devApi.process # "dead" /\ Mishap /\ devPort' = TRUE

(* What the loop turns to after looking after the API and after a reload.    *)
Afterwards(why) ==
    [RestingSupervisor EXCEPT !.at = IF why \in {"exited", "unhealthy"} THEN "drain" ELSE "health"]

(* A reload that ends with an error is not taken up again; nor is its change.*)
GiveUp ==
    /\ devTask' = Afterwards(devTask.why)
    /\ devFailed' = devFailed \cup devTask.parts

-----------------------------------------------------------------------------
(* ensure_healthy *)

(* It is not time for a probe yet, or there is no API. *)
SkipProbe ==
    /\ devTask.at = "health" /\ devTask' = [devTask EXCEPT !.at = "drain"]
    /\ UNCHANGED <<devChanges, devUnseen, devApi, devPort, devBuilt, devFailed,
                   devMishaps>>

(* The process has exited: its copy is launched again. *)
FindExited ==
    /\ devTask.at = "health" /\ devApi.is = "some" /\ devApi.process = "dead"
    /\ devTask' = [devTask EXCEPT !.at = "launch", !.why = "exited", !.snap = devApi.snap]
    /\ UNCHANGED <<devChanges, devUnseen, devApi, devPort, devBuilt, devFailed,
                   devMishaps>>

FindHealthy ==
    /\ devTask.at = "health" /\ devApi.process = "up"
    /\ devApi' = [devApi EXCEPT !.slow = FALSE]
    /\ devTask' = [devTask EXCEPT !.at = "drain"]
    /\ UNCHANGED <<devChanges, devUnseen, devPort, devBuilt, devFailed, devMishaps>>

(* A probe without an answer only starts the time of grace. *)
FindSlow ==
    /\ devTask.at = "health" /\ devApi.process = "hung"
    /\ devApi' = [devApi EXCEPT !.slow = TRUE]
    /\ devTask' = [devTask EXCEPT !.at = "drain"]
    /\ UNCHANGED <<devChanges, devUnseen, devPort, devBuilt, devFailed, devMishaps>>

(* When it is over the process is stopped. *)
FindHung ==
    /\ devTask.at = "health" /\ devApi.process = "hung" /\ devApi.slow
    /\ StopApi
    /\ devTask' = [devTask EXCEPT !.at = "release", !.why = "unhealthy", !.snap = devApi.snap]
    /\ UNCHANGED <<devChanges, devUnseen, devBuilt, devFailed>>

-----------------------------------------------------------------------------
(* next_dev_reload_action: the host comes first. *)
NextReload(ready) == IF "host" \in ready THEN "rebuild" ELSE "refresh"

(* The parts a reload brings up to date. *)
Reloads(why) ==
    CASE why = "rebuild" -> Parts [] why = "refresh" -> {"workers"} [] OTHER -> {}

(* A mutant: a reload clears what waits for both parts. *)
DrainForgetting ==
    /\ devTask.at = "drain" /\ devEvents' = {}
    /\ \E ready \in SUBSET (devPending \ devEvents) :
          /\ devPending' = IF ready = {} THEN devPending \cup devEvents ELSE devEvents \ ready
          /\ devTask' = IF ready = {} THEN RestingSupervisor
                        ELSE [devTask EXCEPT !.at = "workers", !.why = NextReload(ready),
                                             !.parts = Reloads(NextReload(ready)),
                                             !.from = devTree]
          /\ devUnseen' = IF ready = {} THEN devUnseen ELSE devUnseen \ {"workers"}
    /\ UNCHANGED <<devTree, devWatching, devApi, devPort, devBuilt, devFailed, devMishaps>>

(* The changes that came are waited on; a part that came to rest is reloaded *)
(* and its change counts as seen to before it is. *)
Drain ==
    /\ devTask.at = "drain" /\ devEvents' = {}
    /\ \E ready \in SUBSET (devPending \ devEvents) :
          /\ devPending' = (devPending \cup devEvents) \ ready
          /\ devTask' = IF ready = {} THEN RestingSupervisor
                        ELSE [devTask EXCEPT !.at = "workers", !.why = NextReload(ready),
                                             !.parts = Reloads(NextReload(ready)),
                                             !.from = devTree]
          /\ devUnseen' = IF ready = {} THEN devUnseen ELSE devUnseen \ {"workers"}
    /\ UNCHANGED <<devTree, devWatching, devApi, devPort, devBuilt, devFailed, devMishaps>>

(* The host is built next: what no watcher has told of is taken in. *)
BuildHostNext ==
    /\ devTask' = [devTask EXCEPT !.at = "host", !.from = devTree]
    /\ devUnseen' = devUnseen \ {"host", "packages"}

(* build_builtin_process_workers: cargo takes the code as it was at some     *)
(* time while it built. *)
WorkersBuilt ==
    /\ devTask.at = "workers"
    /\ \E v \in devTask.from["workers"]..devTree["workers"] :
          devBuilt' = [devBuilt EXCEPT !.built = v]
    /\ CASE devTask.why = "initial" ->
              /\ devTask' = [devTask EXCEPT !.at = "install"]
              /\ UNCHANGED <<devUnseen, devApi, devPort, devFailed, devMishaps>>
         [] devTask.why = "rebuild" ->
              BuildHostNext /\ UNCHANGED <<devApi, devPort, devFailed, devMishaps>>
         [] devTask.why = "refresh" /\ devApi.is = "none" ->
              GiveUp /\ UNCHANGED <<devUnseen, devApi, devPort, devMishaps>>
         [] OTHER ->
              /\ StopApi
              /\ devTask' = [devTask EXCEPT !.at = "release", !.snap = devApi.snap]
              /\ UNCHANGED <<devUnseen, devFailed>>
    /\ UNCHANGED devChanges

(* build_api_binary and stage_api_binary, after which the API is stopped.    *)
HostBuilt ==
    /\ devTask.at = "host"
    /\ \E v \in devTask.from["host"]..devTree["host"],
         p \in devTask.from["packages"]..devTree["packages"] :
          devTask' = [devTask EXCEPT !.at = IF devTask.why = "initial" THEN "launch" ELSE "release",
                                     !.snap = [host |-> v, packages |-> p], !.prev = devApi]
    /\ IF devApi.is = "some" THEN StopApi ELSE UNCHANGED <<devApi, devPort, devMishaps>>
    /\ UNCHANGED <<devChanges, devUnseen, devBuilt, devFailed>>

(* A build that fails leaves the API alone. *)
BuildFails ==
    /\ devTask.at \in {"workers", "host"} /\ devTask.why # "initial" /\ Mishap
    /\ GiveUp
    /\ UNCHANGED <<devChanges, devUnseen, devApi, devPort, devBuilt>>

(* clear_api_current_after_port_release *)
ApiAfterRelease(released) == IF released THEN NoApi ELSE devApi

(* wait_for_api_port_release; while the port is held the stopped process     *)
(* stays the current one, for the next probe to find. *)
PortReleased ==
    /\ devTask.at = "release" /\ ~devPort
    /\ devApi' = ApiAfterRelease(TRUE)
    /\ devTask' = [devTask EXCEPT !.at = IF devTask.why = "unhealthy" THEN "launch" ELSE "install"]
    /\ UNCHANGED <<devChanges, devUnseen, devPort, devBuilt, devFailed, devMishaps>>

PortIsNotReleased ==
    /\ devTask.at = "release" /\ devPort
    /\ devApi' = ApiAfterRelease(FALSE)
    /\ GiveUp
    /\ UNCHANGED <<devChanges, devUnseen, devPort, devBuilt, devMishaps>>

(* install_builtin_process_workers *)
Installed ==
    /\ devTask.at = "install"
    /\ devBuilt' = [devBuilt EXCEPT !.installed = devBuilt.built]
    /\ IF devTask.why = "initial" THEN BuildHostNext
       ELSE devTask' = [devTask EXCEPT !.at = "launch"] /\ UNCHANGED devUnseen
    /\ UNCHANGED <<devChanges, devApi, devPort, devFailed, devMishaps>>

(* The API before is launched again, if there was one, and the reload has    *)
(* failed. *)
InstallFails ==
    /\ devTask.at = "install" /\ devTask.why # "initial" /\ Mishap
    /\ IF devTask.why = "rebuild" /\ devTask.prev.is = "none" THEN GiveUp
       ELSE /\ devTask' = [devTask EXCEPT !.at = "launch", !.why = "failed",
                              !.snap = IF devTask.why = "rebuild" THEN devTask.prev.snap ELSE @]
            /\ UNCHANGED devFailed
    /\ UNCHANGED <<devChanges, devUnseen, devApi, devPort, devBuilt>>

-----------------------------------------------------------------------------
(* launch_snapshot: the process answers in time. *)
Launched ==
    /\ devTask.at = "launch" /\ ~devPort
    /\ devApi' = ApiOf(devTask.snap)
    /\ devFailed' = ((devFailed \cup IF devTask.why \in {"rollback", "failed"}
                                     THEN devTask.parts ELSE {})
                     \ Reloads(devTask.why)) \ {"launch"}
    /\ devTask' = IF devTask.why = "initial" THEN [devTask EXCEPT !.at = "watch"]
                  ELSE Afterwards(devTask.why)
    /\ UNCHANGED <<devChanges, devUnseen, devPort, devBuilt, devMishaps>>

(* It cannot while something else holds the port. *)
NotReady == IF devPort THEN UNCHANGED devMishaps ELSE Mishap

(* It does not, and is stopped: a rebuild goes back to the copy before.      *)
RollBack ==
    /\ devTask.at = "launch" /\ NotReady
    /\ devTask.why = "rebuild" /\ devTask.prev.is = "some"
    /\ devTask' = [devTask EXCEPT !.why = "rollback", !.snap = devTask.prev.snap]
    /\ UNCHANGED <<devChanges, devUnseen, devApi, devPort, devBuilt, devFailed>>

(* Otherwise nothing is launched any more. *)
LaunchFails ==
    /\ devTask.at = "launch" /\ NotReady
    /\ devTask.why # "initial" /\ ~(devTask.why = "rebuild" /\ devTask.prev.is = "some")
    /\ devTask' = Afterwards(devTask.why)
    /\ devFailed' = devFailed \cup devTask.parts \cup {"launch"}
    /\ UNCHANGED <<devChanges, devUnseen, devApi, devPort, devBuilt>>

-----------------------------------------------------------------------------
(* The web server runs and the watchers are started, of the host first; then *)
(* the loop begins. *)
StartWatcher ==
    /\ devTask.at = "watch"
    /\ IF "host" \notin devWatching
       THEN devWatching' = devWatching \cup {"host"} /\ UNCHANGED devTask
       ELSE devWatching' = Parts /\ devTask' = RestingSupervisor
    /\ UNCHANGED <<devTree, devEvents, devPending, devUnseen, devApi, devPort, devBuilt,
                   devFailed, devMishaps>>

Ended == devTask' = [RestingSupervisor EXCEPT !.at = "ended"] /\ devApi' = NoApi

(* Whatever fails before that ends it. *)
StartingFails ==
    /\ devTask.why = "initial" /\ Mishap
    /\ Ended
    /\ UNCHANGED <<devChanges, devUnseen, devPort, devBuilt, devFailed>>

(* Ctrl-C, or the web server or the watcher of the UI has exited.            *)
EndSupervisor ==
    /\ devTask.at = "health"
    /\ Ended
    /\ UNCHANGED <<devChanges, devUnseen, devPort, devBuilt, devFailed, devMishaps>>

DevNext ==
    \/ \E kind \in FileKinds : EditFile(kind)
    \/ \E how \in {"hung", "dead"} : ApiFails(how)
    \/ ApiRecovers \/ PortIsFreed
    \/ SkipProbe \/ FindExited \/ FindHealthy \/ FindSlow \/ FindHung
    \/ Drain \/ WorkersBuilt \/ HostBuilt \/ BuildFails
    \/ PortReleased \/ PortIsNotReleased \/ Installed \/ InstallFails
    \/ Launched \/ RollBack \/ LaunchFails
    \/ StartWatcher \/ StartingFails \/ EndSupervisor

DevSpec == DevInit /\ [][DevNext]_devVars

-----------------------------------------------------------------------------
NothingToSeeTo == devTask.at \in {"health", "drain"} /\ devEvents = {} /\ devPending = {}

(* With no change left to see to, what runs is built from the code as it is  *)
(* unless the last reload of it failed, or it was edited since and no watcher*)
(* tells of it: before there was one, or in a package that the host embeds.  *)
(* An edit made while a build ran is not lost, nor is a package that was     *)
(* edited before the last build of the host. *)
EditsAreReloaded ==
    NothingToSeeTo =>
        /\ "host" \notin devFailed /\ devApi.is = "some" =>
              /\ "host" \notin devUnseen => devApi.snap.host = devTree["host"]
              /\ "packages" \notin devUnseen => devApi.snap.packages = devTree["packages"]
        /\ "workers" \notin devFailed \cup devUnseen => devBuilt.installed = devTree["workers"]

(* The supervisor is without an API only when a launch failed last: a port   *)
(* that is not released in time leaves it with one to restart. *)
ApiIsNotForgotten ==
    devTask.at \in {"health", "drain"} /\ devApi.is = "none" => "launch" \in devFailed

(* A process is launched only when the one before is dead. *)
OneApiProcess == devTask.at \in {"install", "launch"} => devApi.process = "dead"

(* The development supervisor runs one API, made of the code as it is now    *)
(* but for what was edited since the last build with no watcher to tell of   *)
(* it, through edits during builds, failing builds and ports that stay taken. *)
SupervisorKeepsUp ==
    /\ EditsAreReloaded
    /\ ApiIsNotForgotten
    /\ OneApiProcess
=============================================================================
