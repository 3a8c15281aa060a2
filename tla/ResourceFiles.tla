---------------------------- MODULE ResourceFiles ----------------------------
(***************************************************************************)
(* The agents and the model endpoints of an instance: one file each, which *)
(* the server reads whenever it needs them (server/src/app.rs,             *)
(* routes/resources.rs).  Before agents are loaded those an older version  *)
(* kept elsewhere are moved over, with default permissions: the document   *)
(* is written, then the old file is removed.  The server starts only when  *)
(* every file parses.                                                      *)
(*                                                                         *)
(* A file is truncated and then written, and what is truncated does not    *)
(* parse.  What the requests answer and announce is left out.              *)
(***************************************************************************)
EXTENDS Integers, Sequences, FiniteSets

CONSTANTS
    AgentIds,     \* agents
    EndpointIds,  \* model endpoints
    OldAgentIds,  \* the agents an older version has left
    Editors,      \* requests that may be served at once
    MaxSaves,     \* bound on the saves and deletions
    MaxHalts      \* bound on the times the server stops

ASSUME ResourcesAssumption ==
    /\ AgentIds \cap EndpointIds = {} /\ OldAgentIds \subseteq AgentIds
    /\ "none" \notin AgentIds \cup EndpointIds
    /\ {MaxSaves, MaxHalts} \subseteq Nat

VARIABLES
    resOld,    \* the files of the older version
    resFiles,  \* the files: the number of the save that wrote them
    resServer, \* the server: down, moving an agent, up
    resDesk,   \* what each request is doing
    resAsked,  \* what is to be found in each file
    resMixed,  \* files whose requests overlapped, or were cut
    resSaves, resHalts

resVars == <<resOld, resFiles, resServer, resDesk, resAsked, resMixed, resSaves, resHalts>>

-----------------------------------------------------------------------------
Resources == AgentIds \cup EndpointIds
NoDocument      == 0
Cut       == -1
MovedDocument     == -2 \* the document made of an old agent
NoId      == "none"

DownServer == [is |-> "down", old |-> NoId, todo |-> {}]
Unused     == [op |-> "none", id |-> NoId, save |-> 0, open |-> FALSE]

ResTypeOK ==
    /\ resOld \subseteq OldAgentIds
    /\ \A id \in Resources : resFiles[id] \in {NoDocument, Cut, MovedDocument} \cup 1..MaxSaves
    /\ resServer.is \in {"down", "loading", "writing", "removing", "up"}
    /\ resServer.is \in {"writing", "removing"} <=> resServer.old # NoId
    /\ resServer.todo \subseteq resOld
    /\ \A e \in Editors :
          /\ resDesk[e].op \in {"none", "put", "delete"}
          /\ resDesk[e].op = "none" => resDesk[e] = Unused
          /\ resDesk[e].op # "none" => resServer.is = "up"
    /\ resMixed \subseteq Resources
    /\ resSaves \in 0..MaxSaves /\ resHalts \in 0..MaxHalts

ResInit ==
    /\ resOld = OldAgentIds
    /\ resFiles = [id \in Resources |-> NoDocument]
    /\ resServer = DownServer
    /\ resDesk = [e \in Editors |-> Unused]
    /\ resAsked = [id \in Resources |-> IF id \in OldAgentIds THEN MovedDocument ELSE NoDocument]
    /\ resMixed = {}
    /\ resSaves = 0 /\ resHalts = 0

-----------------------------------------------------------------------------
(* The next old agent, when one is done.                                     *)
AfterOld == [resServer EXCEPT !.is = "loading", !.old = NoId, !.todo = @ \ {resServer.old}]

(* bootstrap_app_state loads the agents, which moves the old ones first.     *)
StartLoading ==
    /\ resServer.is = "down" /\ resServer' = [DownServer EXCEPT !.is = "loading", !.todo = resOld]
    /\ UNCHANGED <<resOld, resFiles, resDesk, resAsked, resMixed, resSaves, resHalts>>

(* migrate_legacy_agent_layout: the document is truncated ... *)
OpenMoved(id) ==
    /\ resServer.is = "loading" /\ id \in resServer.todo
    /\ resFiles' = [resFiles EXCEPT ![id] = Cut]
    /\ resServer' = [resServer EXCEPT !.is = "writing", !.old = id]
    /\ UNCHANGED <<resOld, resDesk, resAsked, resMixed, resSaves, resHalts>>

(* ... written ... *)
WriteMoved ==
    /\ resServer.is = "writing"
    /\ resFiles' = [resFiles EXCEPT ![resServer.old] = MovedDocument]
    /\ resServer' = [resServer EXCEPT !.is = "removing"]
    /\ UNCHANGED <<resOld, resDesk, resAsked, resMixed, resSaves, resHalts>>

(* ... and the old file is removed. *)
RemoveOld ==
    /\ resServer.is = "removing" /\ resServer' = AfterOld
    /\ resOld' = resOld \ {resServer.old}
    /\ UNCHANGED <<resFiles, resDesk, resAsked, resMixed, resSaves, resHalts>>

(* load_agent_documents and load_model_endpoint_configs end the start when a *)
(* file does not parse. *)
FinishLoading ==
    /\ resServer.is = "loading" /\ resServer.todo = {}
    /\ resServer' = IF \E id \in Resources : resFiles[id] = Cut THEN DownServer
                    ELSE [DownServer EXCEPT !.is = "up"]
    /\ UNCHANGED <<resOld, resFiles, resDesk, resAsked, resMixed, resSaves, resHalts>>

Halt ==
    /\ resServer.is # "down" /\ resHalts < MaxHalts /\ resHalts' = resHalts + 1
    /\ resServer' = DownServer
    /\ resMixed' = resMixed \cup
          {resDesk[e].id : e \in {f \in Editors : resDesk[f].op # "none"}}
    /\ resDesk' = [e \in Editors |-> Unused]
    /\ UNCHANGED <<resOld, resFiles, resAsked, resSaves>>

-----------------------------------------------------------------------------
(* A request begins; when another is at the same file there is no telling    *)
(* what it will hold. *)
Edit(e, op, id) ==
    /\ resServer.is = "up" /\ resDesk[e].op = "none"
    /\ resSaves < MaxSaves /\ resSaves' = resSaves + 1
    /\ resDesk' = [resDesk EXCEPT ![e] = [op |-> op, id |-> id, save |-> resSaves + 1,
                                          open |-> FALSE]]
    /\ resMixed' = IF \E f \in Editors : resDesk[f].op # "none" /\ resDesk[f].id = id
                   THEN resMixed \cup {id} ELSE resMixed
    /\ UNCHANGED <<resOld, resFiles, resServer, resAsked, resHalts>>

(* agent_create, agent_update, model_endpoint_create, model_endpoint_update: *)
(* each writes the file whether it is there or not. *)
OpenResource(e) ==
    LET d == resDesk[e] IN
    /\ d.op = "put" /\ ~d.open
    /\ resFiles' = [resFiles EXCEPT ![d.id] = Cut]
    /\ resDesk' = [resDesk EXCEPT ![e].open = TRUE]
    /\ UNCHANGED <<resOld, resServer, resAsked, resMixed, resSaves, resHalts>>

(* What was deleted in between is not brought back by the write. *)
WriteResource(e) ==
    LET d == resDesk[e] IN
    /\ d.op = "put" /\ d.open
    /\ resFiles' = [resFiles EXCEPT ![d.id] = IF @ = NoDocument THEN @ ELSE d.save]
    /\ resAsked' = [resAsked EXCEPT ![d.id] = d.save]
    /\ resDesk' = [resDesk EXCEPT ![e] = Unused]
    /\ UNCHANGED <<resOld, resServer, resMixed, resSaves, resHalts>>

(* delete_agent_config, delete_config_from_dir *)
DeleteResource(e) ==
    LET d == resDesk[e] IN
    /\ d.op = "delete"
    /\ resFiles' = [resFiles EXCEPT ![d.id] = NoDocument]
    /\ resAsked' = [resAsked EXCEPT ![d.id] = NoDocument]
    /\ resDesk' = [resDesk EXCEPT ![e] = Unused]
    /\ UNCHANGED <<resOld, resServer, resMixed, resSaves, resHalts>>

ResNext ==
    \/ StartLoading \/ WriteMoved \/ RemoveOld \/ FinishLoading \/ Halt
    \/ \E id \in OldAgentIds : OpenMoved(id)
    \/ \E e \in Editors :
          \/ \E id \in Resources, op \in {"put", "delete"} : Edit(e, op, id)
          \/ OpenResource(e) \/ WriteResource(e) \/ DeleteResource(e)

ResSpec == ResInit /\ [][ResNext]_resVars

-----------------------------------------------------------------------------
(* An agent of the older version is not lost by the move, wherever it is     *)
(* cut: its old file is there, or its document is complete, until it is      *)
(* saved or deleted. *)
MovingLosesNoAgent ==
    \A id \in OldAgentIds :
        resAsked[id] = MovedDocument /\ id \notin resMixed
        /\ (\A e \in Editors : resDesk[e].id # id) =>
            id \in resOld \/ resFiles[id] = MovedDocument

(* What was saved or deleted is what is found, also by later starts of the   *)
(* server, unless two requests for the file overlapped or one was cut.       *)
SavedResourcesAreKept ==
    \A id \in Resources \ resMixed :
        (\A e \in Editors : resDesk[e].id # id) /\ resServer.is = "up" =>
            resFiles[id] = resAsked[id]
=============================================================================
