------------------------------ MODULE MCServer ------------------------------
(* Small instances of the components of the server and of its supervisor,    *)
(* checked in one run: each behavior moves one component, which part names,  *)
(* and the others are still.                                                 *)
EXTENDS PermissionGate, MCScheduler, ExtensionRegistry, Contributions,
        InstanceConfig, ResourceFiles, SkillPackages, SkillRuns, DevSupervisor, TLC

VARIABLE part    \* the component that moves

Asks(conversation, message) ==
    [agent |-> "a1", action |-> "command.exec", target |-> "ls", place |-> "home",
     conversation |-> conversation, message |-> message]

Searches == [agent |-> "a1", action |-> "skill.search", target |-> "search", place |-> "net",
             conversation |-> "conv1", message |-> Absent]

\* What an agent asks for: the asked requests differ in the conversation or the
\* message only, so that what a grant covers decides some evaluation.
GateAsked    == {Asks("conv1", "msg1"), Asks("conv2", "msg1"), Asks("conv1", "msg2")}
GateRequests == GateAsked \cup {Searches}

TwoExtensions == <<"x", "y">>
NamesRanked   == "h1" :> 1 @@ "h2" :> 2 @@ "memory.list" :> 3 @@ "workflow.default" :> 4

\* The forms of the skill's package: its check comes and goes, and so does a
\* required setting.
SkillForms == {[check |-> FALSE, required |-> {"r"}], [check |-> TRUE, required |-> {"r"}],
               [check |-> TRUE, required |-> {"r", "o"}]}

\* The requests to every component, and the resolvers of the gate.
CONSTANTS p1, p2, q1, q2
Symmetry == Permutations({p1, p2}) \cup Permutations({q1, q2})

-----------------------------------------------------------------------------
ServerParts ==
    {"gate", "scheduler", "registry", "contributions", "configuration",
     "resources", "packages", "skills", "supervisor"}

(* A component that does not move holds this in its variables; the permission *)
(* store and the scheduler, whose properties are stated of every state and   *)
(* step, stay where they begin.                                              *)
Still == "still"

ServerInit ==
    /\ part \in ServerParts
    /\ GateInit /\ SchedulerInit
    /\ IF part = "registry" THEN RegistryInit ELSE
            regFile = Still /\ sources = Still /\ graph = Still /\ extLog = Still
            /\ admins = Still /\ workerOf = Still /\ viewer = Still /\ used = Still
    /\ IF part = "contributions" THEN ContribInit ELSE
            manifests = Still /\ fields = Still /\ settingFile = Still
            /\ settingPuts = Still /\ putCount = Still /\ redeclared = Still
    /\ IF part = "configuration" THEN ConfInit ELSE
            confFiles = Still /\ startup = Still /\ up = Still /\ desk = Still
            /\ confCalls = Still /\ setups = Still /\ versions = Still
            /\ disrupted = Still /\ boots = Still
    /\ IF part = "resources" THEN ResInit ELSE
            resOld = Still /\ resFiles = Still /\ resServer = Still /\ resDesk = Still
            /\ resAsked = Still /\ resMixed = Still /\ resSaves = Still
            /\ resHalts = Still
    /\ IF part = "packages" THEN PkInit ELSE
            pkRegistry = Still /\ pkFiles = Still /\ pkHost = Still /\ pkCommand = Still
            /\ pkDesk = Still
            /\ pkAsked = Still /\ pkMixed = Still /\ pkCalls = Still /\ pkStarts = Still
    /\ IF part = "skills" THEN SkInit ELSE
            skSettings = Still /\ skVerdict = Still /\ skPackage = Still /\ skWork = Still
            /\ skSaved = Still /\ skLost = Still /\ skCalls = Still
    /\ IF part = "supervisor" THEN DevInit ELSE
            devTree = Still /\ devEvents = Still /\ devPending = Still
            /\ devWatching = Still /\ devUnseen = Still /\ devApi = Still
            /\ devPort = Still /\ devBuilt = Still /\ devTask = Still
            /\ devFailed = Still /\ devMishaps = Still

GatePart ==
    /\ part = "gate" /\ GateNext
    /\ UNCHANGED <<part, schedulerVars, registryVars, contribVars, confVars, resVars, pkVars,
                   skVars, devVars>>

SchedulerPart ==
    /\ part = "scheduler" /\ SchedulerNext
    /\ UNCHANGED <<part, gateVars, registryVars, contribVars, confVars, resVars, pkVars,
                   skVars, devVars>>

RegistryPart ==
    /\ part = "registry" /\ RegistryNext
    /\ UNCHANGED <<part, gateVars, schedulerVars, contribVars, confVars, resVars, pkVars,
                   skVars, devVars>>

ContributionsPart ==
    /\ part = "contributions" /\ ContribNext
    /\ UNCHANGED <<part, gateVars, schedulerVars, registryVars, confVars, resVars, pkVars,
                   skVars, devVars>>

ConfigurationPart ==
    /\ part = "configuration" /\ ConfNext
    /\ UNCHANGED <<part, gateVars, schedulerVars, registryVars, contribVars, resVars, pkVars,
                   skVars, devVars>>

ResourcesPart ==
    /\ part = "resources" /\ ResNext
    /\ UNCHANGED <<part, gateVars, schedulerVars, registryVars, contribVars, confVars, pkVars,
                   skVars, devVars>>

PackagesPart ==
    /\ part = "packages" /\ PkNext
    /\ UNCHANGED <<part, gateVars, schedulerVars, registryVars, contribVars, confVars,
                   resVars, skVars, devVars>>

SkillsPart ==
    /\ part = "skills" /\ SkNext
    /\ UNCHANGED <<part, gateVars, schedulerVars, registryVars, contribVars, confVars,
                   resVars, pkVars, devVars>>

SupervisorPart ==
    /\ part = "supervisor" /\ DevNext
    /\ UNCHANGED <<part, gateVars, schedulerVars, registryVars, contribVars, confVars,
                   resVars, pkVars, skVars>>

ServerNext ==
    \/ GatePart \/ SchedulerPart \/ RegistryPart \/ ContributionsPart
    \/ ConfigurationPart \/ ResourcesPart \/ PackagesPart \/ SkillsPart
    \/ SupervisorPart

serverVars == <<part, gateVars, schedulerVars, registryVars, contribVars, confVars,
                resVars, pkVars, skVars, devVars>>

ServerSpec == ServerInit /\ [][ServerNext]_serverVars

-----------------------------------------------------------------------------
(* Every component stays within its types: no request that is cut, repeated  *)
(* or overtaken leaves a record its next reader has no case for.             *)
ServerTypesOK ==
    /\ part = "gate" => GateTypeOK
    /\ part = "registry" => RegistryTypeOK
    /\ part = "contributions" => ContribTypeOK
    /\ part = "configuration" => ConfTypeOK
    /\ part = "resources" => ResTypeOK
    /\ part = "packages" => PackagesTypeOK
    /\ part = "skills" => SkTypeOK
    /\ part = "supervisor" => DevTypeOK

(* What the routes have saved in the files of the server is what is found    *)
(* there later, over restarts, migrations and requests of other records: the *)
(* documents of agents and endpoints, and skills and their settings.         *)
FilesKeepWhatWasSaved ==
    /\ part = "resources" => SavedResourcesAreKept /\ MovingLosesNoAgent
    /\ part = "packages" => DeletedSkillsStayAway /\ SavedFlagsAreKept /\ BlockedEditsAreKept
    /\ part = "skills" => SavedSettingsAreKept

(* The properties of the components, each while it moves. *)

(* What is shown of extensions is what was asked for, logged, told and       *)
(* running, with calls, refreshes and edits of the directories at once.      *)
SnapshotsAreTruthful == part = "registry" => RegistryIsTruthful

(* What the host makes of manifests and stored settings can be called, has   *)
(* one order and is complete.                                                *)
MergedContributionsAreLawful == part = "contributions" => ContributionsAreLawful

(* An instance is set up once, its server can start again and preferences    *)
(* can be told apart, over overlapping requests and a server that dies.      *)
InstanceStaysSetUp == part = "configuration" => SetupIsSound

(* A skill that has a check is shown as ready only after a check or a        *)
(* preparation said so, of the package as it was then.                       *)
ShownReadyWasVerified == part = "skills" => ReadyWasVerified

(* The supervisor runs one API, made of the code as it is now but for what   *)
(* was edited since the last build with no watcher to tell of it: before the *)
(* watchers started, or in a package that the host embeds.                   *)
OneCurrentApiRuns == part = "supervisor" => SupervisorKeepsUp
=============================================================================
