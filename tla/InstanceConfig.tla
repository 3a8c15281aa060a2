---------------------------- MODULE InstanceConfig ----------------------------
(***************************************************************************)
(* The files an instance is configured by (server/src/routes/runtime.rs):  *)
(* server.toml with the bootstrap state, the profile, and the preferences  *)
(* of the instance and of a space.                                         *)
(*                                                                         *)
(* A handler reads what it needs, and writes a file by truncating it and   *)
(* writing it out; nothing excludes another handler, and the server may    *)
(* stop in between.  A file that is truncated does not parse.  Contents    *)
(* are the number of the call they come from.  An administrator changes    *)
(* server.toml by sending back the configuration the server gave, edited.  *)
(***************************************************************************)
EXTENDS Integers, Sequences, FiniteSets, SequencesExt

CONSTANTS
    Clerks,       \* requests that may be served at once
    MaxConfCalls, \* bound on the requests
    MaxBoots      \* bound on the restarts

ASSUME ConfAssumption ==
    /\ {MaxConfCalls, MaxBoots} \subseteq Nat \ {0}
    /\ IsFiniteSet(Clerks)

VARIABLES
    confFiles,  \* the files
    startup,    \* the server configuration read when the server started
    up,         \* whether the server runs
    desk,       \* what each request is doing
    confCalls,  \* requests so far
    setups,     \* how often the instance was set up
    versions,   \* the versions preferences were saved with since a setup, and by whom
    disrupted,  \* files that two requests were at once about, or whose writing was cut
    boots       \* restarts so far

confVars == <<confFiles, startup, up, desk, confCalls, setups, versions, disrupted, boots>>

-----------------------------------------------------------------------------
Preferences == {"instance", "space"}
ConfNames   == {"server", "profile"} \cup Preferences
CallNumbers    == 0..MaxConfCalls

(* The content of a file: whether it says that the instance is initialized,  *)
(* the settings or the time of creation, the version. *)
File(is, init, mark, version) ==
    [is |-> is, init |-> init, mark |-> mark, version |-> version]
NoFile == File("missing", FALSE, 0, 0)
Torn   == File("torn", FALSE, 0, 0)

FreeDesk == [op |-> "none", files |-> <<>>, open |-> FALSE, next |-> NoFile, call |-> 0,
             fresh |-> FALSE]
Ops      == {"none", "setup", "profile", "preference", "config"}

ConfTypeOK ==
    /\ confFiles \in [ConfNames ->
          [is : {"missing", "torn", "whole"}, init : BOOLEAN,
           mark : CallNumbers, version : CallNumbers]]
    /\ startup \in [init : BOOLEAN, mark : CallNumbers]
    /\ up \in BOOLEAN /\ {confCalls, setups} \subseteq CallNumbers /\ boots \in 0..MaxBoots
    /\ \A a \in Clerks :
          /\ desk[a].op \in Ops /\ desk[a].files \in Seq(ConfNames)
          /\ desk[a].open => confFiles[Head(desk[a].files)].is # "missing"
          /\ desk[a].op = "none" => desk[a] = FreeDesk
    /\ versions \in [Preferences -> SUBSET (CallNumbers \X CallNumbers)]
    /\ disrupted \subseteq ConfNames

ConfInit ==
    /\ confFiles = [f \in ConfNames |-> NoFile]
    /\ startup = [init |-> FALSE, mark |-> 0] /\ up = TRUE
    /\ desk = [a \in Clerks |-> FreeDesk]
    /\ confCalls = 0 /\ setups = 0 /\ boots = 0
    /\ versions = [p \in Preferences |-> {}] /\ disrupted = {}

-----------------------------------------------------------------------------
(* live_server_config: what the server started with when the file does not   *)
(* parse, the defaults when there is none. *)
LiveServerConfig ==
    CASE confFiles["server"].is = "whole"   -> [init |-> confFiles["server"].init,
                                                mark |-> confFiles["server"].mark]
      [] confFiles["server"].is = "missing" -> [init |-> FALSE, mark |-> 0]
      [] OTHER                              -> startup

(* merge_ui_preference counts from the version on disk. *)
NextVersion(file) == IF file.is = "whole" THEN file.version + 1 ELSE 1

(* A mutant: the instance counts as initialized before it is. *)
SetupFilesServerFirst == <<"server", "profile", "instance">>

(* What bootstrap_setup writes, one after the other. *)
SetupFiles == <<"profile", "instance", "server">>

Disrupted(a, fs) ==
    disrupted \cup {f \in fs : \E b \in Clerks \ {a} : f \in ToSet(desk[b].files)}

(* A request arrives; it has read what the file was to write it anew.        *)
Arrives(a, op, files, next) ==
    /\ up /\ desk[a].op = "none"
    /\ confCalls < MaxConfCalls /\ confCalls' = confCalls + 1
    /\ desk' = [desk EXCEPT ![a] = [op |-> op, files |-> files, open |-> FALSE, next |-> next,
                                    call |-> confCalls', fresh |-> TRUE]]
    /\ disrupted' = Disrupted(a, ToSet(files))
    /\ UNCHANGED <<confFiles, startup, up, setups, versions, boots>>

(* bootstrap_setup, refused once the instance is initialized. *)
StartSetup(a) ==
    /\ ~LiveServerConfig.init
    /\ Arrives(a, "setup", SetupFiles, File("whole", TRUE, confCalls + 1, 1))

(* runtime_profile_put keeps when the profile was created. *)
StartProfile(a) ==
    LET p == confFiles["profile"] IN
    Arrives(a, "profile", <<"profile">>,
            File("whole", FALSE, IF p.is = "whole" THEN p.mark ELSE confCalls + 1, 0))

(* runtime_preferences_put and space_ui_preferences_put *)
StartPreference(a, p) ==
    Arrives(a, "preference", <<p>>,
            File("whole", FALSE, confCalls + 1, NextVersion(confFiles[p])))

(* runtime_server_config gives the configuration that comes back by          *)
(* runtime_server_config_put. *)
StartConfig(a) ==
    Arrives(a, "config", <<"server">>,
            File("whole", LiveServerConfig.init, confCalls + 1, 0))

(* The last file of a setup is the configuration as it is then. *)
ReadConfigAgain(a) ==
    LET d == desk[a] IN
    /\ up /\ d.op = "setup" /\ d.fresh /\ ~d.open /\ Head(d.files) = "server"
    /\ desk' = [desk EXCEPT ![a].fresh = FALSE, ![a].next.mark = LiveServerConfig.mark]
    /\ UNCHANGED <<confFiles, startup, up, confCalls, setups, versions, disrupted, boots>>

(* fs::write truncates the file, *)
Truncate(a) ==
    LET d == desk[a] IN
    /\ up /\ d.op # "none" /\ ~d.open
    /\ d.op = "setup" /\ Head(d.files) = "server" => ~d.fresh
    /\ confFiles' = [confFiles EXCEPT ![Head(d.files)] = Torn]
    /\ desk' = [desk EXCEPT ![a].open = TRUE]
    /\ UNCHANGED <<startup, up, confCalls, setups, versions, disrupted, boots>>

(* A request ends with its last file. *)
AfterFile(d) ==
    IF Len(d.files) = 1 THEN FreeDesk ELSE [d EXCEPT !.files = Tail(@), !.open = FALSE]

(* and writes it.  When another request has written it since it was          *)
(* truncated, the rest of the longer text may stay. *)
WriteOut(a) ==
    LET d == desk[a]
        f == Head(d.files)
        text == IF f = "profile" THEN [d.next EXCEPT !.init = FALSE, !.version = 0]
                ELSE IF f = "server" THEN [d.next EXCEPT !.version = 0]
                ELSE [d.next EXCEPT !.init = FALSE, !.mark = d.call] IN
    /\ up /\ d.open
    /\ \/ confFiles' = [confFiles EXCEPT ![f] = text]
       \/ confFiles[f].is = "whole" /\ confFiles' = [confFiles EXCEPT ![f] = Torn]
    /\ desk' = [desk EXCEPT ![a] = AfterFile(d)]
    /\ setups' = IF d.op = "setup" /\ Len(d.files) = 1 THEN setups + 1 ELSE setups
    /\ versions' = IF f \in Preferences
                   THEN [versions EXCEPT ![f] =
                            {<<d.next.version, d.call>>} \cup IF d.op = "setup" THEN {} ELSE @]
                   ELSE versions
    /\ UNCHANGED <<startup, up, confCalls, disrupted, boots>>

(* The server stops in the middle of it all. *)
ServerDies ==
    /\ up /\ boots < MaxBoots /\ up' = FALSE
    /\ desk' = [a \in Clerks |-> FreeDesk]
    /\ disrupted' = disrupted \cup
          {Head(desk[a].files) : a \in {b \in Clerks : desk[b].open}}
    /\ UNCHANGED <<confFiles, startup, confCalls, setups, versions, boots>>

(* bootstrap_app_state: the server does not start on a file that does not    *)
(* parse. *)
CanBoot == confFiles["server"].is # "torn"

Boot ==
    /\ ~up /\ CanBoot /\ up' = TRUE /\ boots' = boots + 1
    /\ startup' = LiveServerConfig
    /\ UNCHANGED <<confFiles, desk, confCalls, setups, versions, disrupted>>

ConfNext ==
    \/ \E a \in Clerks :
          \/ StartSetup(a) \/ StartProfile(a) \/ StartConfig(a)
          \/ \E p \in Preferences : StartPreference(a, p)
          \/ ReadConfigAgain(a) \/ Truncate(a) \/ WriteOut(a)
    \/ ServerDies \/ Boot

ConfSpec == ConfInit /\ [][ConfNext]_confVars

-----------------------------------------------------------------------------
(* An instance that counts as initialized has a profile and preferences,     *)
(* wherever its setup was cut and whatever overlapped it. *)
InitializedHasProfile ==
    confFiles["server"].is = "whole" /\ confFiles["server"].init =>
        confFiles["profile"].is # "missing" /\ confFiles["instance"].is # "missing"

(* An instance is set up once and stays so, as long as no two requests are   *)
(* about server.toml at once and no write of it is cut. *)
SetupIsFinal ==
    setups > 0 /\ "server" \notin disrupted =>
        /\ setups = 1
        /\ confFiles["server"].is = "whole" => confFiles["server"].init

(* No two savings of a preference have the same version, by which a client   *)
(* tells whether it has the last one, unless they overlapped or a write was  *)
(* cut; a setup begins anew at 1. *)
PreferenceVersionsDiffer ==
    \A p \in Preferences \ disrupted :
        \A v, w \in versions[p] : v[1] = w[1] => v = w

(* The server can start again, unless a write of server.toml was cut or two  *)
(* overlapped. *)
ServerCanStart == up \/ "server" \in disrupted \/ CanBoot

(* An instance is set up once and for all, its server can start again and a  *)
(* client can tell its preferences apart, over overlapping requests and a    *)
(* server that dies between two files or in the middle of one. *)
SetupIsSound ==
    /\ InitializedHasProfile
    /\ SetupIsFinal
    /\ PreferenceVersionsDiffer
    /\ ServerCanStart
=============================================================================
