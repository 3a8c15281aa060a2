------------------------------ MODULE SkillRuns ------------------------------
(***************************************************************************)
(* One skill at work (server/src/skills.rs): its settings are saved, its   *)
(* check and its prepare command are run and their verdict is kept in a    *)
(* status file, which is what everybody is shown, and agents call its      *)
(* actions.                                                                *)
(*                                                                         *)
(* Both files are read, truncated and written with nothing that excludes   *)
(* another request; a file that is truncated reads as if it were missing.  *)
(* A command that runs out of its time is left running and its verdict is  *)
(* not written.  The package itself may be saved anew at any moment, with  *)
(* or without a check and with other required settings: a request goes on  *)
(* with the package it began with, and a verdict says which one it is of.  *)
(* The values of the settings are numbers of calls.                        *)
(***************************************************************************)
EXTENDS Integers, Sequences, FiniteSets

CONSTANTS
    SettingNames,  \* the settings the skill declares: texts without a default
    PackageForms,  \* the forms the package may take: whether it defines a check, and
                   \* the settings it requires
    Assistants,    \* requests that may be served at once
    MaxAssists     \* bound on the requests

ASSUME SkillRunsAssumption ==
    /\ PackageForms \subseteq [check : BOOLEAN, required : SUBSET SettingNames]
    /\ SettingNames # {} /\ MaxAssists \in Nat \ {0}

VARIABLES
    skSettings, \* the settings file
    skVerdict,  \* the status file
    skPackage,  \* the package
    skWork,     \* what each request is doing
    skSaved,    \* what was last saved of each setting
    skLost,     \* whether saves overlapped, or one was cut
    skCalls

skVars == <<skSettings, skVerdict, skPackage, skWork, skSaved, skLost, skCalls>>

-----------------------------------------------------------------------------
Unset     == [s \in SettingNames |-> 0]
Verdicts  == {"ready", "error", "partial", "missing_config", "unknown"}
Bare      == [check |-> FALSE, required |-> {}]
NoVerdict == [status |-> "none", from |-> "none", with |-> Unset, package |-> Bare]
Unmanned  == [op |-> "none", step |-> "none", package |-> Bare, with |-> Unset,
              put |-> {}, verdict |-> NoVerdict]

(* missing_required_items, config_missing_result *)
Missing(package, values) == {s \in package.required : values[s] = 0}

SkTypeOK ==
    /\ skSettings \in [SettingNames -> 0..MaxAssists]
    /\ skVerdict.status \in Verdicts \cup {"none"}
    /\ skVerdict.status = "none" => skVerdict = NoVerdict
    /\ \A a \in Assistants :
          /\ skWork[a].op \in {"none", "save", "check", "prepare", "action"}
          /\ skWork[a].op = "none" => skWork[a] = Unmanned
          /\ skWork[a].step = "running" => Missing(skWork[a].package, skWork[a].with) = {}
    /\ skSaved \in [SettingNames -> 0..MaxAssists]
    /\ skPackage \in PackageForms /\ skLost \in BOOLEAN /\ skCalls \in 0..MaxAssists

SkInit ==
    /\ skSettings = Unset /\ skVerdict = NoVerdict /\ skPackage \in PackageForms
    /\ skWork = [a \in Assistants |-> Unmanned]
    /\ skSaved = Unset /\ skLost = FALSE /\ skCalls = 0

-----------------------------------------------------------------------------
(* A request takes a call, with the package as it is now. *)
Assist(a, work) ==
    /\ skWork[a].op = "none" /\ skCalls < MaxAssists /\ skCalls' = skCalls + 1
    /\ skWork' = [skWork EXCEPT ![a] = work]

(* skill_settings_put: what is not declared or lacks a required setting is   *)
(* refused; the stored settings are read. *)
StartSettingsPut(a, put) ==
    /\ skPackage.required \subseteq put
    /\ Assist(a, [Unmanned EXCEPT !.op = "save", !.step = "open", !.with = skSettings,
                                  !.put = put, !.verdict.with =
                                      [s \in SettingNames |-> IF s \in put THEN skCalls + 1
                                                              ELSE 0]])
    /\ skLost' = (skLost \/ \E b \in Assistants : skWork[b].op = "save")
    /\ UNCHANGED <<skSettings, skVerdict, skPackage, skSaved>>

OpenSettings(a) ==
    /\ skWork[a].op = "save" /\ skWork[a].step = "open"
    /\ skSettings' = Unset
    /\ skWork' = [skWork EXCEPT ![a].step = "write"]
    /\ UNCHANGED <<skVerdict, skPackage, skSaved, skLost, skCalls>>

(* save_skill_settings puts what is sent over what was stored. *)
MergedSettings(work) ==
    [s \in SettingNames |-> IF s \in work.put THEN work.verdict.with[s] ELSE work.with[s]]

WriteSettings(a) ==
    LET work == skWork[a] IN
    /\ work.op = "save" /\ work.step = "write"
    /\ skSettings' = MergedSettings(work)
    /\ skSaved' = [s \in SettingNames |->
                      IF s \in work.put THEN work.verdict.with[s] ELSE skSaved[s]]
    /\ skWork' = [skWork EXCEPT ![a] = Unmanned]
    /\ UNCHANGED <<skVerdict, skPackage, skLost, skCalls>>

-----------------------------------------------------------------------------
Concludes(work, status, from) ==
    [work EXCEPT !.step = "open",
                 !.verdict = [status |-> status, from |-> from, with |-> work.with,
                              package |-> work.package]]

(* run_skill_check: the settings are read; then the command is run, unless   *)
(* one is missing or there is no command. *)
Checked(work) ==
    LET w == [work EXCEPT !.op = "check", !.with = skSettings] IN
    IF Missing(w.package, skSettings) # {} THEN Concludes(w, "missing_config", "settings")
    ELSE IF ~w.package.check THEN Concludes(w, "ready", "settings")
    ELSE [w EXCEPT !.step = "running"]

StartCheck(a) ==
    /\ Assist(a, Checked([Unmanned EXCEPT !.package = skPackage]))
    /\ UNCHANGED <<skSettings, skVerdict, skPackage, skSaved, skLost>>

(* run_skill_prepare *)
StartPrepare(a) ==
    LET w == [Unmanned EXCEPT !.op = "prepare", !.package = skPackage, !.with = skSettings] IN
    /\ Assist(a, IF Missing(skPackage, skSettings) # {}
                 THEN Concludes(w, "missing_config", "settings") ELSE [w EXCEPT !.step = "running"])
    /\ UNCHANGED <<skSettings, skVerdict, skPackage, skSaved, skLost>>

(* run_skill_action, which an agent asks for; it leaves no status. *)
StartAction(a) ==
    /\ Missing(skPackage, skSettings) = {}
    /\ Assist(a, [Unmanned EXCEPT !.op = "action", !.step = "running", !.package = skPackage,
                                  !.with = skSettings])
    /\ UNCHANGED <<skSettings, skVerdict, skPackage, skSaved, skLost>>

(* parse_skill_check_output: the verdict the output states, or else what the *)
(* exit status says. *)
Parsed(said, success) ==
    IF said # "none" THEN said ELSE IF success THEN "ready" ELSE "error"

(* A mutant: a command that prepares is not followed by the check. *)
AfterPreparingUnchecked(work, said, success) ==
    IF ~success THEN Concludes(work, Parsed(said, FALSE), "prepare")
    ELSE Concludes(work, "ready", "prepared")

(* A failed prepare leaves its own verdict; the check follows one that went  *)
(* well, with the settings of that time. *)
AfterPreparing(work, said, success) ==
    IF ~success THEN Concludes(work, Parsed(said, FALSE), "prepare")
    ELSE IF work.package.check THEN Checked(work)
    ELSE Concludes(work, "ready", "prepared")

CommandEnds(a) ==
    LET work == skWork[a] IN
    /\ work.step = "running"
    /\ \E said \in Verdicts \cup {"none"}, success \in BOOLEAN :
          skWork' = [skWork EXCEPT ![a] =
              CASE work.op = "check"   -> Concludes(work, Parsed(said, success), "check")
                [] work.op = "prepare" -> AfterPreparing(work, said, success)
                [] OTHER               -> Unmanned]
    /\ UNCHANGED <<skSettings, skVerdict, skPackage, skSaved, skLost, skCalls>>

(* The command cannot be started, or runs out of its time: the status stays. *)
CommandFails(a) ==
    /\ skWork[a].step = "running"
    /\ skWork' = [skWork EXCEPT ![a] = Unmanned]
    /\ UNCHANGED <<skSettings, skVerdict, skPackage, skSaved, skLost, skCalls>>

(* write_skill_status_file *)
OpenStatus(a) ==
    /\ skWork[a].op \in {"check", "prepare"} /\ skWork[a].step = "open"
    /\ skVerdict' = NoVerdict
    /\ skWork' = [skWork EXCEPT ![a].step = "write"]
    /\ UNCHANGED <<skSettings, skPackage, skSaved, skLost, skCalls>>

WriteStatus(a) ==
    /\ skWork[a].op \in {"check", "prepare"} /\ skWork[a].step = "write"
    /\ skVerdict' = skWork[a].verdict
    /\ skWork' = [skWork EXCEPT ![a] = Unmanned]
    /\ UNCHANGED <<skSettings, skPackage, skSaved, skLost, skCalls>>

(* The package is saved anew, or comes with another program: the settings    *)
(* and the status stay as they are.                                          *)
ChangePackage(package) ==
    /\ package # skPackage /\ skPackage' = package
    /\ UNCHANGED <<skSettings, skVerdict, skWork, skSaved, skLost, skCalls>>

(* The server stops and is started again: a save in progress is cut. *)
SkillServerRestarts ==
    /\ \E a \in Assistants : skWork[a].op # "none"
    /\ skWork' = [a \in Assistants |-> Unmanned]
    /\ skLost' = (skLost \/ \E a \in Assistants : skWork[a].op = "save")
    /\ UNCHANGED <<skSettings, skVerdict, skPackage, skSaved, skCalls>>

SkNext ==
    \/ \E package \in PackageForms : ChangePackage(package)
    \/ SkillServerRestarts
    \/ \E a \in Assistants :
          \/ \E put \in SUBSET SettingNames : StartSettingsPut(a, put)
          \/ OpenSettings(a) \/ WriteSettings(a)
          \/ StartCheck(a) \/ StartPrepare(a) \/ StartAction(a)
          \/ CommandEnds(a) \/ CommandFails(a) \/ OpenStatus(a) \/ WriteStatus(a)

SkSpec == SkInit /\ [][SkNext]_skVars

-----------------------------------------------------------------------------
(* load_skill_status: what everybody is shown. *)
ShownStatus ==
    IF Missing(skPackage, skSettings) # {} THEN "missing_config"
    ELSE IF skVerdict # NoVerdict THEN skVerdict.status
    ELSE IF skPackage.check THEN "unknown" ELSE "ready"

(* A skill is shown as ready without a verdict only when its package has no  *)
(* check; a verdict that says so comes from a command of the skill if the    *)
(* package it was made for has a check, run with everything that package     *)
(* required: neither the end of a prepare nor complete settings are enough.  *)
(* (A verdict stays when the package is saved with another check: the next   *)
(* request to check is what replaces it.)                                    *)
ReadyWasVerified ==
    ShownStatus = "ready" =>
        IF skVerdict = NoVerdict THEN ~skPackage.check
        ELSE /\ skVerdict.package.check => skVerdict.from \in {"check", "prepare"}
             /\ Missing(skVerdict.package, skVerdict.with) = {}

(* What was saved of a setting is kept by the saves of the others, unless    *)
(* two overlap or one is cut. *)
SavedSettingsAreKept ==
    (~skLost /\ \A a \in Assistants : skWork[a].op # "save") => skSettings = skSaved
=============================================================================
