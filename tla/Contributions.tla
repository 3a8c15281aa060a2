---------------------------- MODULE Contributions ----------------------------
(***************************************************************************)
(* What extensions contribute: the manifest of an extension, what is       *)
(* derived from it for the snapshot, what is found there for an event, a   *)
(* slot or a provider, the methods its worker may be called with, and its  *)
(* settings (extension-host/src/registry.rs, worker.rs, kernel/extension.rs*)
(* and server/src/routes/extensions.rs).                                   *)
(*                                                                         *)
(* Titles, icons, schemas and file names are left out.  A method is a name *)
(* without the path that may follow it.                                    *)
(***************************************************************************)
EXTENDS Integers, Sequences, FiniteSets, SequencesExt

CONSTANTS
    ExtOrder,        \* the extensions, in the order of their ids
    OperationNames,  \* names of operations
    HandlerNames,    \* names of pipeline handlers
    WorkflowName,    \* the one of a behavior, workflow.default
    MemoryNames,     \* those that begin with memory.
    NameRank,        \* where a name of an operation or a handler stands among them
    ProviderKinds,   \* kinds of model providers
    SettingKeys,     \* keys of settings
    SettingTypes,    \* their types
    MaxDeclarations, \* bound on what the manifests declare
    MaxPuts          \* bound on the writing of settings and on their redeclaration

ASSUME ContributionsAssumption ==
    /\ ExtOrder \in Seq(Range(ExtOrder))
    /\ NameRank \in [OperationNames \cup HandlerNames -> Nat]
    /\ WorkflowName \in OperationNames /\ MemoryNames \subseteq OperationNames
    /\ SettingTypes \subseteq {"text", "select", "number", "boolean"}
    /\ {MaxDeclarations, MaxPuts} \subseteq Nat

VARIABLES
    manifests,   \* the manifest of each extension
    fields,      \* the declared settings of one of them
    settingFile, \* the values stored for it
    settingPuts, \* requests that have read the file and not yet written it
    putCount,    \* requests and redeclarations so far
    redeclared   \* whether settings were declared anew over stored values

contribVars == <<manifests, fields, settingFile, settingPuts, putCount, redeclared>>

-----------------------------------------------------------------------------
(* Manifests *)

HookStages == {"tap", "prepare", "drive", "after"}

OperationSpecs == [name : OperationNames, provider : ProviderKinds \cup {"none"},
                   schedule : BOOLEAN]
EventSpecs     == [on : {"event"}, operation : OperationNames, priority : 0..1]
HandlerSpecs   == [name : HandlerNames, on : {"event"}, stage : {"drive", "after"},
                   slot : {"none", "slot"}, priority : 0..1, operation : OperationNames]
Manifests      == [operations : Seq(OperationSpecs), events : Seq(EventSpecs),
                   handlers : Seq(HandlerSpecs)]
EmptyManifest  == [operations |-> <<>>, events |-> <<>>, handlers |-> <<>>]
Extensions     == Range(ExtOrder)

Names(specs) == [i \in DOMAIN specs |-> specs[i].name]

(* derive_providers: an operation with a provider; its interfaces are those  *)
(* a model needs. *)
DeriveProviders(m) ==
    LET specs == SelectSeq(m.operations, LAMBDA o : o.provider # "none") IN
    [i \in DOMAIN specs |-> [id |-> specs[i].name, kind |-> specs[i].provider]]

(* derive_behaviors *)
DeriveBehaviors(m) == Names(SelectSeq(m.operations, LAMBDA o : o.name = WorkflowName))

(* derive_memories: one, with the names of its operations and no entry.      *)
DeriveMemories(m) ==
    LET interfaces == Names(SelectSeq(m.operations, LAMBDA o : o.name \in MemoryNames)) IN
    IF interfaces = <<>> THEN <<>> ELSE << [interfaces |-> interfaces, entry |-> "none"] >>

(* derive_actions: an operation is called by its name, unless it is a        *)
(* provider.                                                                 *)
DeriveActions(m) == Names(SelectSeq(m.operations, LAMBDA o : o.provider = "none"))

(* derive_schedule_actions: also of a provider. *)
DeriveScheduleActions(m) == Names(SelectSeq(m.operations, LAMBDA o : o.schedule))

(* derive_hooks *)
DeriveHooks(m) == [i \in DOMAIN m.events |->
                     [event |-> m.events[i].on, name |-> m.events[i].operation,
                      priority |-> m.events[i].priority]]

(* What extensions contribute of a kind: a row says whose it is and where it  *)
(* stands in its manifest.                                                   *)
Contributed(of) ==
    UNION {{[ext |-> i, at |-> j, row |-> of[ExtOrder[i]][j]] : j \in DOMAIN of[ExtOrder[i]]} :
           i \in DOMAIN ExtOrder}

-----------------------------------------------------------------------------
(* Lookups *)

(* A mutant: the order of the extensions goes first. *)
GoesBeforeByExt(a, b) ==
    IF a.ext # b.ext THEN a.ext < b.ext ELSE a.row.priority > b.row.priority

(* By priority, then by the extension, then by the name of the handler.      *)
GoesBefore(a, b) ==
    IF a.row.priority # b.row.priority THEN a.row.priority > b.row.priority
    ELSE IF a.ext # b.ext THEN a.ext < b.ext
    ELSE NameRank[a.row.name] < NameRank[b.row.name]

(* A stable sort: rows of which neither goes before stay as they are          *)
(* contributed. *)
Precedes(a, b) ==
    \/ GoesBefore(a, b)
    \/ /\ ~GoesBefore(b, a)
       /\ a.ext < b.ext \/ (a.ext = b.ext /\ a.at < b.at)

SortedRows(rows) ==
    [k \in 1..Cardinality(rows) |->
       CHOOSE r \in rows : Cardinality({q \in rows : Precedes(q, r)}) = k - 1]

AllHooks     == [x \in Extensions |-> DeriveHooks(manifests[x])]
AllHandlers  == [x \in Extensions |-> manifests[x].handlers]
AllProviders == [x \in Extensions |-> DeriveProviders(manifests[x])]

(* hooks_for_event *)
HooksForEvent(event) ==
    SortedRows({r \in Contributed(AllHooks) : r.row.event = event})

(* pipeline_handlers_for, of a stage and, if one is asked for, a slot.       *)
PipelineHandlersFor(event, stage, slot) ==
    SortedRows({r \in Contributed(AllHandlers) :
                  /\ r.row.on = event /\ r.row.stage = stage
                  /\ slot # "any" => r.row.slot = slot})

(* resolve_provider_contribution: by kind or id, and only if it is the only  *)
(* one. *)
ResolveProvider(kind) ==
    LET matches == {p \in Contributed(AllProviders) : kind \in {p.row.kind, p.row.id}} IN
    IF Cardinality(matches) = 1 THEN matches ELSE {}

(* method_prefixes: a provider's entry is a file, a memory has none.         *)
MethodPrefixes(m) ==
    Range(DeriveBehaviors(m)) \cup Range(DeriveActions(m)) \cup Range(DeriveScheduleActions(m))
        \cup {DeriveHooks(m)[i].name : i \in DOMAIN m.events}

(* is_method_authorized: everything, if nothing is contributed. *)
IsMethodAuthorized(m, method) == MethodPrefixes(m) = {} \/ method \in MethodPrefixes(m)

-----------------------------------------------------------------------------
(* Settings *)

NoValue  == "unset"
Fitting == [text |-> {"words", "blank"}, select |-> {"option", "blank"}, number |-> {"digits"},
            boolean |-> {"flag"}]
Values == {"words", "option", "blank", "digits", "flag"}
Undeclared == [type |-> "none", required |-> FALSE, default |-> NoValue]
Fields == {f \in [type : SettingTypes, required : BOOLEAN, default : Values \cup {NoValue}] :
             f.default = NoValue \/ f.default \in Fitting[f.type]}
NoValues == [k \in SettingKeys |-> NoValue]

(* The value of a key fits the field: a text that is required is not blank,  *)
(* and a choice is one of the options.                                       *)
Fits(field, value) ==
    /\ field.type # "none" /\ value \in Fitting[field.type]
    /\ value = "blank" => ~field.required /\ field.type # "select"

(* validate_extension_settings_payload *)
Validate(declared, payload) ==
    \A k \in SettingKeys :
       /\ payload[k] # NoValue => Fits(declared[k], payload[k])
       /\ declared[k].required => payload[k] # NoValue \/ declared[k].default # NoValue

Merge(stored, payload) ==
    [k \in SettingKeys |-> IF payload[k] # NoValue THEN payload[k] ELSE stored[k]]

(* load_effective_extension_settings *)
Effective(declared, stored) ==
    [k \in SettingKeys |-> IF declared[k].type = "none" THEN NoValue
                           ELSE IF stored[k] # NoValue THEN stored[k] ELSE declared[k].default]

-----------------------------------------------------------------------------
ContribTypeOK ==
    /\ manifests \in [Extensions -> Manifests]
    /\ fields \in [SettingKeys -> Fields \cup {Undeclared}]
    /\ settingFile \in [SettingKeys -> Values \cup {NoValue}]
    /\ settingPuts \subseteq [SettingKeys -> Values \cup {NoValue}]
    /\ putCount \in 0..MaxPuts /\ redeclared \in BOOLEAN

ContribInit ==
    /\ manifests = [x \in Extensions |-> EmptyManifest]
    /\ fields = [k \in SettingKeys |-> Undeclared]
    /\ settingFile = NoValues
    /\ settingPuts = {}
    /\ putCount = 0
    /\ redeclared = FALSE

Declared == Len(FlattenSeq([i \in DOMAIN ExtOrder |->
                LET m == manifests[ExtOrder[i]] IN m.operations \o m.events \o m.handlers]))

(* An extension declares something more. *)
Declare ==
    /\ Declared < MaxDeclarations /\ putCount = 0 /\ fields = [k \in SettingKeys |-> Undeclared]
    /\ \E x \in Extensions :
          \/ \E o \in OperationSpecs :
                manifests' = [manifests EXCEPT ![x].operations = Append(@, o)]
          \/ \E v \in EventSpecs : manifests' = [manifests EXCEPT ![x].events = Append(@, v)]
          \/ \E h \in HandlerSpecs : manifests' = [manifests EXCEPT ![x].handlers = Append(@, h)]
    /\ UNCHANGED <<fields, settingFile, settingPuts, putCount, redeclared>>

(* An extension declares a setting, also over one that has been stored.      *)
DeclareSetting ==
    /\ Declared = 0 /\ putCount < MaxPuts
    /\ \E k \in SettingKeys, f \in Fields : f # fields[k] /\ fields' = [fields EXCEPT ![k] = f]
    /\ putCount' = putCount + 1
    /\ redeclared' = (settingFile # NoValues \/ settingPuts # {})
    /\ UNCHANGED <<manifests, settingFile, settingPuts>>

(* extension_settings_put: the payload is validated and merged into what is  *)
(* stored... *)
PutSettings ==
    /\ Declared = 0 /\ putCount < MaxPuts /\ ~redeclared
    /\ \E payload \in [SettingKeys -> Values \cup {NoValue}] :
          /\ payload # NoValues /\ Validate(fields, payload)
          /\ settingPuts' = settingPuts \cup {Merge(settingFile, payload)}
    /\ putCount' = putCount + 1
    /\ UNCHANGED <<manifests, fields, settingFile, redeclared>>

(* ...and the whole file is written. *)
WriteSettingFile ==
    /\ \E values \in settingPuts :
          settingFile' = values /\ settingPuts' = settingPuts \ {values}
    /\ UNCHANGED <<manifests, fields, putCount, redeclared>>

ContribNext == Declare \/ DeclareSetting \/ PutSettings \/ WriteSettingFile

ContribSpec == ContribInit /\ [][ContribNext]_contribVars

-----------------------------------------------------------------------------
(* Properties *)

(* Whatever the host derives from a manifest to call the worker with passes  *)
(* its own check of the method, although the two lists are made in different *)
(* places.                                                                   *)
ContributionsAreAuthorized ==
    \A x \in Extensions :
       LET m == manifests[x] IN
       /\ \A n \in Range(DeriveActions(m)) \cup Range(DeriveScheduleActions(m)) :
             IsMethodAuthorized(m, n)
       /\ \A i \in DOMAIN m.events : IsMethodAuthorized(m, m.events[i].operation)

(* Handlers and hooks have one order, whatever the order in which they were  *)
(* declared: nobody goes before one of a higher priority.                    *)
HandlersAreOrdered ==
    LET Down(rows) ==
          \A i, j \in DOMAIN rows : i < j => rows[i].row.priority >= rows[j].row.priority
    IN
    /\ Down(HooksForEvent("event"))
    /\ \A stage \in HookStages, slot \in {"any", "slot"} :
          Down(PipelineHandlersFor("event", stage, slot))

(* As long as its settings are not declared anew, an extension has a value   *)
(* for each required one once anything is stored, although of two requests   *)
(* that overlap the second throws away what the first has written.           *)
RequiredSettingsAreSet ==
    (~redeclared /\ settingFile # NoValues) =>
       \A k \in SettingKeys : fields[k].required => Effective(fields, settingFile)[k] # NoValue

(* What the host makes of a manifest and of the settings that are stored can *)
(* be called, has one order and is complete. *)
ContributionsAreLawful ==
    /\ ContributionsAreAuthorized
    /\ HandlersAreOrdered
    /\ RequiredSettingsAreSet
=============================================================================
