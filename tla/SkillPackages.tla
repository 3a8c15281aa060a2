---------------------------- MODULE SkillPackages ----------------------------
(***************************************************************************)
(* The skills of an instance: a directory for each with SKILL.md and       *)
(* config.toml, and a registry that says which are enabled and which       *)
(* builtin ones are not to be brought back (server/src/app.rs).  Most      *)
(* commands of the program first add the builtin skills to the registry    *)
(* and write their packages (cli/src/main.rs): `start` before its server   *)
(* runs, and `start` again, `init`, `ext` and `skill prepare` also while a *)
(* server runs and serves requests.                                        *)
(*                                                                         *)
(* Saving writes the package, then reads the registry, edits it and writes *)
(* it; deleting reads it first.  A command reads and writes the registry,  *)
(* reads it again for what is blocked, and then writes the packages.       *)
(* Nothing excludes another request or the command, and the server and the *)
(* command may stop in between.  A file is truncated and then written: what*)
(* is not written yet reads as an empty registry, as a config.toml of      *)
(* defaults, or as a SKILL.md that does not parse.  Sources under          *)
(* development, the mixture two writes of one file may leave, and two      *)
(* commands at once (nothing would be said of what they leave) are left    *)
(* out.                                                                    *)
(***************************************************************************)
EXTENDS Integers, Sequences, FiniteSets, SequencesExt

CONSTANTS
    SkillIds,     \* skills
    BuiltinIds,   \* those that come with the program
    Keepers,      \* requests that may be served at once
    MaxPkCalls,   \* bound on the requests
    MaxStarts     \* bound on the commands

ASSUME PackagesAssumption ==
    BuiltinIds \subseteq SkillIds /\ {MaxPkCalls, MaxStarts} \subseteq Nat \ {0}

VARIABLES
    pkRegistry, \* the registry file
    pkFiles,    \* the packages
    pkHost,     \* whether the server runs
    pkCommand,  \* what a command of the program is doing
    pkDesk,     \* what each request is doing
    pkAsked,    \* what the last request about a skill that went through asked for
    pkMixed,    \* skills whose requests overlapped, or what was written of them was lost
    pkCalls, pkStarts

pkVars == <<pkRegistry, pkFiles, pkHost, pkCommand, pkDesk, pkAsked, pkMixed, pkCalls, pkStarts>>

-----------------------------------------------------------------------------
PackageFiles == {"md", "config"}
NoPackage    == [f \in PackageFiles |-> "none"]
Package(v)   == [f \in PackageFiles |-> v]

(* is_skill_package_root *)
IsPackage(p) == "none" \notin {p[f] : f \in PackageFiles}

EmptyRegistry == [on |-> [id \in SkillIds |-> "none"], blocked |-> {}]
Unasked       == [what |-> "none", block |-> FALSE]
IdleKeeper    == [op |-> "none", id |-> CHOOSE id \in SkillIds : TRUE, asks |-> Unasked,
                  files |-> <<>>, open |-> FALSE, seen |-> EmptyRegistry]
NoCommand     == [by |-> "none", step |-> "none", open |-> FALSE, seen |-> EmptyRegistry,
                  left |-> {}, at |-> CHOOSE id \in SkillIds : TRUE]
Pieces        == BuiltinIds \X {"package", "md", "config"}

PackagesTypeOK ==
    /\ pkRegistry \in [on : [SkillIds -> {"none", "on", "off"}], blocked : SUBSET SkillIds]
    /\ pkFiles \in [SkillIds -> [PackageFiles -> {"none", "torn", "builtin", "saved"}]]
    /\ pkHost \in {"down", "written", "up"}
    /\ pkCommand \in [by : {"none", "start", "other"}, step : {"none", "read", "registry", "look", "packages"},
                       open : BOOLEAN, left : SUBSET Pieces, at : SkillIds \cup {NoCommand.at},
                       seen : [on : [SkillIds -> {"none", "on", "off"}], blocked : SUBSET SkillIds]]
    /\ pkCommand.by = "none" => pkCommand = NoCommand
    /\ pkCommand.by = "start" => pkHost = "down"
    /\ \A k \in Keepers :
          /\ pkDesk[k].op \in {"none", "save", "delete"}
          /\ pkDesk[k].op = "none" => pkDesk[k] = IdleKeeper
          /\ pkDesk[k].op # "none" => pkHost = "up"
    /\ pkAsked \in [SkillIds -> [what : {"none", "on", "off", "deleted"}, block : BOOLEAN]]
    /\ pkMixed \subseteq SkillIds
    /\ pkCalls \in 0..MaxPkCalls /\ pkStarts \in 0..MaxStarts

(* A new home. *)
PkInit ==
    /\ pkRegistry = EmptyRegistry
    /\ pkFiles = [id \in SkillIds |-> NoPackage]
    /\ pkHost = "down" /\ pkCommand = NoCommand
    /\ pkDesk = [k \in Keepers |-> IdleKeeper]
    /\ pkAsked = [id \in SkillIds |-> Unasked] /\ pkMixed = {}
    /\ pkCalls = 0 /\ pkStarts = 0

-----------------------------------------------------------------------------
(* sync_builtin_registries: a builtin skill that has no entry gets one.      *)
Synced(r) ==
    [r EXCEPT !.on = [id \in SkillIds |->
                         IF id \in BuiltinIds /\ @[id] = "none" THEN "on" ELSE @[id]]]

(* load_skill_configs fails when the SKILL.md of a package does not parse.   *)
Listable == \A id \in SkillIds : IsPackage(pkFiles[id]) => pkFiles[id].md # "torn"

(* Who has truncated the registry and has not written it yet: a request, or  *)
(* the command. *)
Truncates(k)     == pkDesk[k].open /\ Head(pkDesk[k].files) = "registry"
CommandTruncates == pkCommand.open /\ pkCommand.step = "registry"
Truncating       == CommandTruncates \/ \E k \in Keepers : Truncates(k)

(* The skills that requests are about now. *)
InHand == {pkDesk[k].id : k \in {j \in Keepers : pkDesk[j].op # "none"}}

-----------------------------------------------------------------------------
(* init_home_template, step by step.  A command begins: `start`, or another  *)
(* one while the server comes up or runs; a second `start` finds the process *)
(* of the server only after all this.  Requests that overlap it are mixed.   *)
BeginCommand ==
    /\ pkCommand.by = "none" /\ pkStarts < MaxStarts /\ pkStarts' = pkStarts + 1
    /\ pkCommand' = [NoCommand EXCEPT !.by = IF pkHost = "down" THEN "start" ELSE "other",
                                      !.step = "read"]
    /\ pkMixed' = pkMixed \cup InHand
    /\ UNCHANGED <<pkRegistry, pkFiles, pkHost, pkDesk, pkAsked, pkCalls>>

(* sync_builtin_registries reads the registry, *)
CommandReads ==
    /\ pkCommand.step = "read"
    /\ pkCommand' = [pkCommand EXCEPT !.seen = pkRegistry, !.step = "registry"]
    /\ UNCHANGED <<pkRegistry, pkFiles, pkHost, pkDesk, pkAsked, pkMixed, pkCalls, pkStarts>>

(* and writes it; edits made since it was read are lost. *)
CommandOpens ==
    /\ pkCommand.step = "registry" /\ ~pkCommand.open
    /\ pkRegistry' = EmptyRegistry
    /\ pkCommand' = [pkCommand EXCEPT !.open = TRUE]
    /\ pkMixed' = IF pkRegistry # pkCommand.seen \/ Truncating THEN SkillIds ELSE pkMixed
    /\ UNCHANGED <<pkFiles, pkHost, pkDesk, pkAsked, pkCalls, pkStarts>>

CommandWrites ==
    /\ CommandTruncates
    /\ pkRegistry' = Synced(pkCommand.seen)
    /\ pkCommand' = [pkCommand EXCEPT !.open = FALSE, !.step = "look"]
    /\ UNCHANGED <<pkFiles, pkHost, pkDesk, pkAsked, pkMixed, pkCalls, pkStarts>>

(* What materialize_builtin_packages removes and writes: the packages of the *)
(* builtin skills that are not blocked. *)
Unblocked(r) == (BuiltinIds \ r.blocked) \X {"package", "md", "config"}

(* It reads the registry for this once, before it writes anything.  While a  *)
(* request writes the registry nothing reads as blocked. *)
CommandLooks ==
    /\ pkCommand.step = "look"
    /\ pkCommand' = [pkCommand EXCEPT !.step = "packages", !.seen = EmptyRegistry,
                                      !.left = Unblocked(pkRegistry)]
    /\ pkMixed' = IF Truncating THEN SkillIds ELSE pkMixed
    /\ UNCHANGED <<pkRegistry, pkFiles, pkHost, pkDesk, pkAsked, pkCalls, pkStarts>>

(* All of these packages are removed, *)
CommandRemoves(id) ==
    /\ <<id, "package">> \in pkCommand.left
    /\ pkFiles' = [pkFiles EXCEPT ![id] = NoPackage]
    /\ pkCommand' = [pkCommand EXCEPT !.left = @ \ {<<id, "package">>}]
    /\ UNCHANGED <<pkRegistry, pkHost, pkDesk, pkAsked, pkMixed, pkCalls, pkStarts>>

(* and then their files are written, each in the directory of its package,   *)
(* made again if it is gone: truncated first, *)
NextToWrite(id, f) ==
    /\ <<id, f>> \in pkCommand.left
    /\ \A other \in BuiltinIds : <<other, "package">> \notin pkCommand.left
    /\ f = "config" => <<id, "md">> \notin pkCommand.left

CommandOpensFile(id, f) ==
    /\ NextToWrite(id, f) /\ ~pkCommand.open
    /\ pkFiles' = [pkFiles EXCEPT ![id][f] = "torn"]
    /\ pkCommand' = [pkCommand EXCEPT !.open = TRUE, !.at = id]
    /\ UNCHANGED <<pkRegistry, pkHost, pkDesk, pkAsked, pkMixed, pkCalls, pkStarts>>

(* then filled, unless a request removed it meanwhile. *)
CommandWritesFile(id, f) ==
    /\ NextToWrite(id, f) /\ pkCommand.open /\ pkCommand.at = id
    /\ pkFiles' = [pkFiles EXCEPT ![id][f] = IF @ = "none" THEN @ ELSE "builtin"]
    /\ pkCommand' = [pkCommand EXCEPT !.open = FALSE, !.left = @ \ {<<id, f>>}]
    /\ UNCHANGED <<pkRegistry, pkHost, pkDesk, pkAsked, pkMixed, pkCalls, pkStarts>>

CommandIsDone ==
    /\ pkCommand.step = "packages" /\ pkCommand.left = {}
    /\ pkCommand' = NoCommand
    /\ pkHost' = IF pkCommand.by = "start" THEN "written" ELSE pkHost
    /\ UNCHANGED <<pkRegistry, pkFiles, pkDesk, pkAsked, pkMixed, pkCalls, pkStarts>>

(* It fails or is killed anywhere; the registry may be left empty.           *)
CommandIsCut ==
    /\ pkCommand.by # "none" /\ pkCommand' = NoCommand
    /\ pkMixed' = IF CommandTruncates THEN SkillIds ELSE pkMixed
    /\ UNCHANGED <<pkRegistry, pkFiles, pkHost, pkDesk, pkAsked, pkCalls, pkStarts>>

-----------------------------------------------------------------------------
(* bootstrap_app_state reads every skill. *)
BootHost ==
    /\ pkHost = "written" /\ Listable /\ pkHost' = "up"
    /\ UNCHANGED <<pkRegistry, pkFiles, pkCommand, pkDesk, pkAsked, pkMixed, pkCalls, pkStarts>>

BootFails ==
    /\ pkHost = "written" /\ ~Listable /\ pkHost' = "down"
    /\ UNCHANGED <<pkRegistry, pkFiles, pkCommand, pkDesk, pkAsked, pkMixed, pkCalls, pkStarts>>

(* The server stops: what is being done is cut, and the registry may be left *)
(* empty. *)
HostStops ==
    /\ pkHost = "up" /\ pkHost' = "down"
    /\ pkMixed' = IF \E k \in Keepers : Truncates(k) THEN SkillIds ELSE pkMixed \cup InHand
    /\ pkDesk' = [k \in Keepers |-> IdleKeeper]
    /\ UNCHANGED <<pkRegistry, pkFiles, pkCommand, pkAsked, pkCalls, pkStarts>>

-----------------------------------------------------------------------------
(* A request arrives; it is mixed if the command is under way.               *)
Take(k, op, id, asks, files, seen) ==
    /\ pkHost = "up" /\ pkDesk[k].op = "none"
    /\ pkCalls < MaxPkCalls /\ pkCalls' = pkCalls + 1
    /\ pkDesk' = [pkDesk EXCEPT ![k] = [IdleKeeper EXCEPT !.op = op, !.id = id, !.asks = asks,
                                                          !.files = files, !.seen = seen]]
    /\ pkMixed' = IF pkCommand.by # "none" \/ id \in InHand THEN pkMixed \cup {id} ELSE pkMixed
    /\ UNCHANGED <<pkRegistry, pkFiles, pkHost, pkCommand, pkAsked, pkStarts>>

(* upsert_skill_package *)
StartSaving(k, id, flag, block) ==
    Take(k, "save", id, [what |-> flag, block |-> block], <<"md", "config", "read", "registry">>,
         EmptyRegistry)

(* delete_skill_package reads the registry before anything else.             *)
StartDeleting(k, id) ==
    Take(k, "delete", id, [what |-> "deleted", block |-> FALSE], <<"package", "registry">>,
         pkRegistry)

(* A request that fails leaves what it has done. *)
SavingFails(k) ==
    /\ pkDesk' = [pkDesk EXCEPT ![k] = IdleKeeper]
    /\ pkAsked' = [pkAsked EXCEPT ![pkDesk[k].id] = Unasked]

RemovePackage(k) ==
    LET d == pkDesk[k] IN
    /\ d.op = "delete" /\ Head(d.files) = "package"
    /\ pkFiles' = [pkFiles EXCEPT ![d.id] = NoPackage]
    /\ pkDesk' = [pkDesk EXCEPT ![k].files = Tail(@)]
    /\ UNCHANGED <<pkRegistry, pkHost, pkCommand, pkAsked, pkMixed, pkCalls, pkStarts>>

(* A file of the package is truncated; the second one only when its          *)
(* directory is still there. *)
OpenFile(k) ==
    LET d == pkDesk[k]
        f == Head(d.files) IN
    /\ d.op = "save" /\ f \in PackageFiles /\ ~d.open
    /\ IF f = "md" \/ pkFiles[d.id] # NoPackage
       THEN /\ pkFiles' = [pkFiles EXCEPT ![d.id][f] = "torn"]
            /\ pkDesk' = [pkDesk EXCEPT ![k].open = TRUE]
            /\ UNCHANGED pkAsked
       ELSE SavingFails(k) /\ UNCHANGED pkFiles
    /\ UNCHANGED <<pkRegistry, pkHost, pkCommand, pkMixed, pkCalls, pkStarts>>

(* And written, unless it was removed meanwhile. *)
WriteFile(k) ==
    LET d == pkDesk[k]
        f == Head(d.files) IN
    /\ d.op = "save" /\ f \in PackageFiles /\ d.open
    /\ pkFiles' = [pkFiles EXCEPT ![d.id][f] = IF @ = "none" THEN @ ELSE "saved"]
    /\ pkDesk' = [pkDesk EXCEPT ![k].open = FALSE, ![k].files = Tail(@)]
    /\ UNCHANGED <<pkRegistry, pkHost, pkCommand, pkAsked, pkMixed, pkCalls, pkStarts>>

(* load_skill_registry of a save. *)
ReadRegistry(k) ==
    /\ pkDesk[k].op = "save" /\ Head(pkDesk[k].files) = "read"
    /\ pkDesk' = [pkDesk EXCEPT ![k].seen = pkRegistry, ![k].files = Tail(@)]
    /\ UNCHANGED <<pkRegistry, pkFiles, pkHost, pkCommand, pkAsked, pkMixed, pkCalls, pkStarts>>

(* A mutant: a deleted builtin skill is not blocked. *)
EditedUnblocked(d) ==
    [d.seen EXCEPT !.on[d.id] = IF d.op = "delete" THEN "none" ELSE d.asks.what,
                   !.blocked = IF d.asks.block THEN @ \cup {d.id} ELSE @ \ {d.id}]

(* The registry as the request edits it. *)
EditedRegistry(d) ==
    [d.seen EXCEPT !.on[d.id] = IF d.op = "delete" THEN "none" ELSE d.asks.what,
                   !.blocked = IF d.asks.block \/ (d.op = "delete" /\ d.id \in BuiltinIds)
                               THEN @ \cup {d.id} ELSE @ \ {d.id}]

(* write_skill_registry: edits made since the registry was read are lost.    *)
OpenRegistry(k) ==
    LET d == pkDesk[k] IN
    /\ d.op # "none" /\ Head(d.files) = "registry" /\ ~d.open
    /\ pkRegistry' = EmptyRegistry
    /\ pkDesk' = [pkDesk EXCEPT ![k].open = TRUE]
    /\ pkMixed' = IF pkRegistry # d.seen \/ Truncating THEN SkillIds ELSE pkMixed
    /\ UNCHANGED <<pkFiles, pkHost, pkCommand, pkAsked, pkCalls, pkStarts>>

WriteRegistry(k) ==
    LET d == pkDesk[k] IN
    /\ d.op # "none" /\ Head(d.files) = "registry" /\ d.open
    /\ pkRegistry' = EditedRegistry(d)
    /\ pkDesk' = [pkDesk EXCEPT ![k] = IdleKeeper]
    /\ pkAsked' = [pkAsked EXCEPT ![d.id] = d.asks]
    /\ UNCHANGED <<pkFiles, pkHost, pkCommand, pkMixed, pkCalls, pkStarts>>

PkNext ==
    \/ BeginCommand \/ CommandReads \/ CommandOpens \/ CommandWrites \/ CommandLooks
    \/ \E id \in BuiltinIds :
          \/ CommandRemoves(id)
          \/ \E f \in PackageFiles : CommandOpensFile(id, f) \/ CommandWritesFile(id, f)
    \/ CommandIsDone \/ CommandIsCut
    \/ BootHost \/ BootFails \/ HostStops
    \/ \E k \in Keepers :
          \/ \E id \in SkillIds :
                \/ \E flag \in {"on", "off"}, block \in BOOLEAN : StartSaving(k, id, flag, block)
                \/ StartDeleting(k, id)
          \/ RemovePackage(k) \/ OpenFile(k) \/ WriteFile(k)
          \/ ReadRegistry(k) \/ OpenRegistry(k) \/ WriteRegistry(k)

PkSpec == PkInit /\ [][PkNext]_pkVars

-----------------------------------------------------------------------------
(* Nothing is being done about a skill, and nothing that was done about it   *)
(* overlapped, was cut or was lost. *)
Settled(id) ==
    /\ id \notin pkMixed
    /\ \A k \in Keepers : pkDesk[k].op = "none" \/ pkDesk[k].id # id

(* A builtin skill that was deleted is not brought back by any start of the  *)
(* program, with the server running or not. *)
DeletedSkillsStayAway ==
    \A id \in SkillIds :
        Settled(id) /\ pkAsked[id].what = "deleted" => pkFiles[id] = NoPackage

(* A skill that was saved stays enabled or disabled as it was saved, whatever*)
(* happens to others. *)
SavedFlagsAreKept ==
    \A id \in SkillIds :
        Settled(id) /\ pkAsked[id].what \in {"on", "off"}
            /\ ~Truncating => pkRegistry.on[id] = pkAsked[id].what

(* A builtin skill that was saved so as to be left alone stays as saved.     *)
BlockedEditsAreKept ==
    \A id \in SkillIds :
        Settled(id) /\ pkAsked[id].what \in {"on", "off"} /\ pkAsked[id].block =>
            pkFiles[id] = Package("saved")
=============================================================================
