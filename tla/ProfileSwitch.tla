---------------------------- MODULE ProfileSwitch ----------------------------
(***************************************************************************)
(* Switching the running web application between servers:                  *)
(* adapters/http_server.py (Runtime, build and the /api/connections        *)
(* handlers), over serverconf/service.py and the table of ConnectionStore. *)
(*                                                                         *)
(* The handlers are plain functions, so FastAPI runs them on the threads   *)
(* of a pool: a client's request advances one SQL statement, one network   *)
(* probe or one assignment to the shared Runtime at a time, and requests   *)
(* of different clients interleave between any two of those.  A client     *)
(* waits for its answer before it asks again.                              *)
(***************************************************************************)
EXTENDS ConnectionStore

CONSTANTS
    Clients,    \* clients, each with at most one request in flight
    Reachable,  \* the servers that answer a probe
    EnvServer,  \* the server the environment variables name
    Faults      \* which failures happen: "db", "build", "crash"

ASSUME ProfileAssumption ==
    /\ Reachable \subseteq Servers
    /\ Faults \subseteq {"db", "build", "crash"}
    /\ Servers # {}

VARIABLES
    up,         \* the process serves requests
    store,      \* the profile store could be opened when the process started
    live,       \* Runtime.cfg, with the llm, registry and orchestrator built from it
    label,      \* Runtime.profile_id (and source): what the screen shows
    pc,         \* pc[c]: the next step of client c's request
    arg,        \* arg[c]: the request's profile_id
    previous,   \* previous[c]: the handler's local of that name
    target,     \* target[c]: what the rebind() in progress will store
    probed,     \* history: ids of the profiles a probe has reached
    edited,     \* history: the row of the profile that serves was edited since it was read
    clean       \* history: nothing has failed since the process started

runtimeVars == <<up, store, live, label>>
requestVars == <<pc, arg, previous, target>>
historyVars == <<probed, edited, clean>>
vars == <<tableVars, runtimeVars, requestVars, historyVars>>

AnyId == Ids \union {NoId}

\* A Settings value: the server it names and, as history, the profile it was built from.
Settings == [server : Servers \union {EnvServer}, owner : AnyId]
EnvSettings == [server |-> EnvServer, owner |-> NoId]

\* What rebind() stores: line 51 assigns settings and what was built from them, 52 the label.
Binding == [settings : Settings, label : AnyId]
EnvBinding == [settings |-> EnvSettings, label |-> NoId]

\* What the Runtime is bound to now.
Bound == [settings |-> live, label |-> label]

\* settings_for(): the profile's own columns laid over the environment's settings.
ProfileBinding(i) == [settings |-> [server |-> server[i], owner |-> i], label |-> i]

\* rebind() is called from activate, from its rollback and from deactivate; each call
\* ends in a pair of assignments, and what follows the pair depends on the caller.
AfterSwap == [swap |-> "label", swap_back |-> "label_back", swap_env |-> "label_env"]
AfterLabel == [label |-> "idle", label_back |-> "idle", label_env |-> "clear_all"]

Steps == {"idle", "delete", "probe", "remember", "clear", "mark", "fetch", "undo",
          "rebuild", "clear_all"} \union DOMAIN AfterSwap \union DOMAIN AfterLabel

RequestTypeOK ==
    /\ pc \in [Clients -> Steps]
    /\ arg \in [Clients -> AnyId]
    /\ previous \in [Clients -> Binding]
    /\ target \in [Clients -> Binding]

RuntimeTypeOK ==
    /\ up \in BOOLEAN
    /\ store \in BOOLEAN
    /\ live \in Settings
    /\ label \in AnyId
    /\ probed \in SUBSET Ids
    /\ edited \in BOOLEAN
    /\ clean \in BOOLEAN

TypeOK == TableTypeOK /\ RequestTypeOK /\ RuntimeTypeOK

NoRequests ==
    /\ pc' = [c \in Clients |-> "idle"]
    /\ arg' = [c \in Clients |-> NoId]
    /\ previous' = [c \in Clients |-> EnvBinding]
    /\ target' = [c \in Clients |-> EnvBinding]

Init ==
    /\ TableInit
    /\ up = FALSE
    /\ store = FALSE
    /\ live = EnvSettings
    /\ label = NoId
    /\ pc = [c \in Clients |-> "idle"]
    /\ arg = [c \in Clients |-> NoId]
    /\ previous = [c \in Clients |-> EnvBinding]
    /\ target = [c \in Clients |-> EnvBinding]
    /\ probed = {}
    /\ edited = FALSE
    /\ clean = TRUE

------------------------------------------------------------------------------
(* Moving a request on *)

\* A handler that needs the store answers 503 without it and changes nothing.
MayStart(c) == up /\ store /\ pc[c] = "idle"

Goto(c, step) ==
    /\ pc' = [pc EXCEPT ![c] = step]
    /\ UNCHANGED <<arg, previous, target>>

\* The handler returns or raises: the client has its answer and the locals are gone.
Answer(c) ==
    /\ pc' = [pc EXCEPT ![c] = "idle"]
    /\ arg' = [arg EXCEPT ![c] = NoId]
    /\ previous' = [previous EXCEPT ![c] = EnvBinding]
    /\ target' = [target EXCEPT ![c] = EnvBinding]

Begin(c, step, i) ==
    /\ pc' = [pc EXCEPT ![c] = step]
    /\ arg' = [arg EXCEPT ![c] = i]
    /\ UNCHANGED <<previous, target>>

BeginRebind(c, step, binding) ==
    /\ pc' = [pc EXCEPT ![c] = step]
    /\ target' = [target EXCEPT ![c] = binding]
    /\ UNCHANGED <<arg, previous>>

------------------------------------------------------------------------------
(* POST and PUT: one statement each *)

Create(c) ==
    /\ MayStart(c)
    /\ \E i \in Ids, s \in Servers : InsertRow(i, s)
    /\ UNCHANGED <<runtimeVars, requestVars, historyVars>>

\* PUT edits the bound profile too: it never touches is_active or the Runtime.
Update(c) ==
    /\ MayStart(c)
    /\ \E i \in Ids, s \in Servers :
        /\ UpdateRow(i, s)
        /\ edited' = (edited \/ (i = live.owner /\ s # server[i]))
    /\ UNCHANGED <<runtimeVars, requestVars, probed, clean>>

(* DELETE: compare with the Runtime, then one statement *)

\* Variant: DELETE without the comparison.
DeleteUnchecked(c) ==
    /\ MayStart(c)
    /\ \E i \in Ids : Begin(c, "delete", i)
    /\ UNCHANGED <<tableVars, runtimeVars, historyVars>>

DeleteCheck(c) ==
    /\ MayStart(c)
    /\ \E i \in Ids : i # label /\ Begin(c, "delete", i)
    /\ UNCHANGED <<tableVars, runtimeVars, historyVars>>

Delete(c) ==
    /\ pc[c] = "delete"
    /\ DeleteRow(arg[c])
    /\ Answer(c)
    /\ UNCHANGED <<runtimeVars, historyVars>>

------------------------------------------------------------------------------
(* POST activate *)

\* Variant: activate trusts rebind() to find out whether the server answers.
ActivateUnprobed(c) ==
    /\ MayStart(c)
    /\ \E i \in rows : Begin(c, "remember", i)
    /\ UNCHANGED <<tableVars, runtimeVars, historyVars>>

ActivateGet(c) ==
    /\ MayStart(c)
    /\ \E i \in rows : Begin(c, "probe", i)
    /\ UNCHANGED <<tableVars, runtimeVars, historyVars>>

\* Variant: the outcome of the probe is not looked at.
ProbeIgnored(i) == i \in rows

\* probe() reads the row again and connects to the server it names.
ProbeReaches(i) == i \in rows /\ server[i] \in Reachable

Probe(c) ==
    /\ pc[c] = "probe"
    /\ \/ /\ ProbeReaches(arg[c])
          /\ probed' = probed \union {arg[c]}
          /\ Goto(c, "remember")
       \/ /\ ~ProbeReaches(arg[c])
          /\ UNCHANGED probed
          /\ Answer(c)
    /\ UNCHANGED <<tableVars, runtimeVars, edited, clean>>

Remember(c) ==
    /\ pc[c] = "remember"
    /\ pc' = [pc EXCEPT ![c] = "clear"]
    /\ previous' = [previous EXCEPT ![c] = Bound]
    /\ UNCHANGED <<arg, target, tableVars, runtimeVars, historyVars>>

ClearOthers(c) ==
    /\ pc[c] = "clear"
    /\ DeactivateOthers(arg[c])
    /\ Goto(c, "mark")
    /\ UNCHANGED <<runtimeVars, historyVars>>

Mark(c) ==
    /\ pc[c] = "mark"
    /\ SetActive(arg[c])
    /\ Goto(c, "fetch")
    /\ UNCHANGED <<runtimeVars, historyVars>>

\* The row is gone (404), or another profile became active meanwhile and the index
\* refuses the statement (500): no rollback, since the try block is not entered yet.
MarkRefused(c) ==
    /\ pc[c] = "mark"
    /\ arg[c] \notin rows \/ ~IndexAllows(arg[c])
    /\ Answer(c)
    /\ UNCHANGED <<tableVars, runtimeVars, historyVars>>

\* settings_for() reads the row a third time, then the factory builds from it.
Fetch(c) ==
    /\ pc[c] = "fetch"
    /\ \/ arg[c] \in rows /\ BeginRebind(c, "swap", ProfileBinding(arg[c]))
       \/ arg[c] \notin rows /\ Goto(c, "undo")
    /\ UNCHANGED <<tableVars, runtimeVars, historyVars>>

(* rebind()'s two assignments, for any of its callers *)

\* Variant: a profile that is bound already is not built anew.
SwapUnlessBound(c) ==
    /\ pc[c] \in DOMAIN AfterSwap
    /\ live' = IF target[c].label = label THEN live ELSE target[c].settings
    /\ edited' = (pc[c] = "swap_back" /\ edited)
    /\ Goto(c, AfterSwap[pc[c]])
    /\ UNCHANGED <<up, store, label, tableVars, probed, clean>>

Swap(c) ==
    /\ pc[c] \in DOMAIN AfterSwap
    /\ live' = target[c].settings
    /\ edited' = (pc[c] = "swap_back" /\ edited)
    /\ Goto(c, AfterSwap[pc[c]])
    /\ UNCHANGED <<up, store, label, tableVars, probed, clean>>

\* Variant: the second assignment is forgotten.
LabelForgotten(c) ==
    /\ pc[c] \in DOMAIN AfterLabel
    /\ \/ AfterLabel[pc[c]] = "idle" /\ Answer(c)
       \/ AfterLabel[pc[c]] # "idle" /\ Goto(c, AfterLabel[pc[c]])
    /\ UNCHANGED <<runtimeVars, tableVars, historyVars>>

Label(c) ==
    /\ pc[c] \in DOMAIN AfterLabel
    /\ label' = target[c].label
    /\ \/ AfterLabel[pc[c]] = "idle" /\ Answer(c)
       \/ AfterLabel[pc[c]] # "idle" /\ Goto(c, AfterLabel[pc[c]])
    /\ UNCHANGED <<up, store, live, tableVars, historyVars>>

(* activate's except clause *)

Undo(c) ==
    /\ pc[c] = "undo"
    /\ DeactivateAll
    /\ Goto(c, "rebuild")
    /\ UNCHANGED <<runtimeVars, historyVars>>

\* Variant: the rollback falls back to the environment instead of what was serving.
RebuildFromEnv(c) ==
    /\ pc[c] = "rebuild"
    /\ BeginRebind(c, "swap_back", EnvBinding)
    /\ UNCHANGED <<tableVars, runtimeVars, historyVars>>

Rebuild(c) ==
    /\ pc[c] = "rebuild"
    /\ BeginRebind(c, "swap_back", previous[c])
    /\ UNCHANGED <<tableVars, runtimeVars, historyVars>>

------------------------------------------------------------------------------
(* POST deactivate: build and bind the environment's settings, then the statement *)

Deactivate(c) ==
    /\ MayStart(c)
    /\ BeginRebind(c, "swap_env", EnvBinding)
    /\ UNCHANGED <<tableVars, runtimeVars, historyVars>>

ClearAll(c) ==
    /\ pc[c] = "clear_all"
    /\ DeactivateAll
    /\ Answer(c)
    /\ UNCHANGED <<runtimeVars, historyVars>>

------------------------------------------------------------------------------
(* Failures *)

\* The statement a request is about to run, with its effect on the table.
Statement(c) ==
    \/ pc[c] = "delete" /\ DeleteRow(arg[c])
    \/ pc[c] = "clear" /\ DeactivateOthers(arg[c])
    \/ pc[c] = "mark" /\ SetActive(arg[c])
    \/ pc[c] \in {"undo", "clear_all"} /\ DeactivateAll
    \/ pc[c] \in {"probe", "fetch"} /\ UNCHANGED tableVars

\* fetch_dicts raises: the statement did not run, or it committed and its answer was
\* lost.  Only settings_for() is inside the try block; elsewhere the request is over.
StatementFails(c) ==
    /\ "db" \in Faults
    /\ pc[c] \in {"delete", "probe", "clear", "mark", "fetch", "undo", "clear_all"}
    /\ Statement(c) \/ UNCHANGED tableVars
    /\ \/ pc[c] = "fetch" /\ Goto(c, "undo")
       \/ pc[c] # "fetch" /\ Answer(c)
    /\ clean' = FALSE
    /\ UNCHANGED <<runtimeVars, probed, edited>>

\* The factory raises before rebind() has assigned anything.
BuildFails(c) ==
    /\ "build" \in Faults
    /\ \/ pc[c] = "fetch" /\ Goto(c, "undo")
       \/ pc[c] = "rebuild" /\ Answer(c)
    /\ clean' = FALSE
    /\ UNCHANGED <<tableVars, runtimeVars, probed, edited>>

Crash ==
    /\ "crash" \in Faults
    /\ up
    /\ up' = FALSE
    /\ store' = FALSE
    /\ live' = EnvSettings
    /\ label' = NoId
    /\ NoRequests
    /\ edited' = FALSE
    /\ UNCHANGED <<tableVars, probed, clean>>

\* build(): the environment's settings, or those of the row recorded as active.  The
\* store may fail to open or to migrate; a failing read or rebind leaves the environment.
Boot ==
    /\ ~up
    /\ up' = TRUE
    /\ \/ /\ store' = TRUE
          /\ clean' = TRUE
          /\ \/ /\ active = {}
                /\ live' = EnvSettings
                /\ label' = NoId
             \/ \E i \in active :
                    /\ live' = ProfileBinding(i).settings
                    /\ label' = i
       \/ /\ Faults \intersect {"db", "build"} # {}
          /\ store' \in BOOLEAN
          /\ clean' = FALSE
          /\ live' = EnvSettings
          /\ label' = NoId
    /\ UNCHANGED <<tableVars, requestVars, probed, edited>>

Next ==
    \/ \E c \in Clients :
        \/ Create(c) \/ Update(c)
        \/ DeleteCheck(c) \/ Delete(c)
        \/ ActivateGet(c) \/ Probe(c) \/ Remember(c)
        \/ ClearOthers(c) \/ Mark(c) \/ MarkRefused(c)
        \/ Fetch(c) \/ Swap(c) \/ Label(c)
        \/ Undo(c) \/ Rebuild(c)
        \/ Deactivate(c) \/ ClearAll(c)
        \/ StatementFails(c) \/ BuildFails(c)
    \/ Crash
    \/ Boot

Spec == Init /\ [][Next]_vars

------------------------------------------------------------------------------
(* What holds for any number of clients *)

\* server_connections_one_active: never two profiles recorded as active, whatever
\* activations overlap (repository.activate's two statements, in any interleaving).
OneActiveProfile == \A i, j \in active : i = j

\* No interleaving, failure or restart records, shows or serves a profile that no
\* probe has ever reached (the probe in front of activate's first statement).
OnlyProbedProfilesServe == active \union {label, live.owner} \subseteq probed \union {NoId}

------------------------------------------------------------------------------
(* What holds when requests do not overlap *)

\* The profile on the screen is in the table: delete() refuses the bound one, and the
\* binding never goes back to one that was deleted meanwhile.
BoundProfileExists == label \in rows \union {NoId}

\* A profile becomes active only while its row names a server that answers: "a server
\* that cannot be reached does not become active" (tests/test_server_connections.py).
ActivatedServerAnswers == [][\A i \in active' \ active : server[i] \in Reachable]_vars

\* An activation that runs to its end leaves record, screen and serving settings on one
\* profile as its row is, whatever failures, rollbacks, edits and restarts came before it.
CompletedActivationHeals ==
    [][\A c \in Clients : pc[c] = "label" /\ pc'[c] = "idle" /\ up' =>
            active' = {label'} /\ Bound' = ProfileBinding(label)']_vars

\* What a start binds (build()): the recorded profile as its row is now, or the environment.
RestartBinds(binding) ==
    \/ active = {} /\ binding = EnvBinding
    \/ \E i \in active : binding = ProfileBinding(i)

\* One profile is recorded, shown and serving, or the environment is.
OneProfile == active = {label} \ {NoId} /\ live.owner = label

\* Its settings are those of its row, unless the row was edited since: PUT does not
\* rebind, and a restart would bind the edited row.
Agreed == OneProfile /\ (~edited => RestartBinds(Bound))

\* With no request in flight and no failure since the start, a restart would bind the
\* profile that is bound now ("the server chosen last is kept over a restart", build()),
\* and with the server it has now, except where PUT edited the bound profile meanwhile.
RecordAgrees == up /\ store /\ clean /\ (\A c \in Clients : pc[c] = "idle") => Agreed

\* The settings that serve follow ServingContract: a failed switch does not disturb
\* them (Runtime.rebind and activate's rollback).
Answers(s) == s.server \in Reachable
WishOf(step) ==
    IF step \in {"probe", "remember", "clear", "mark", "fetch", "swap"} THEN "switch"
    ELSE IF step = "swap_env" THEN "revert" ELSE "none"
Pending == IF \E c \in Clients : WishOf(pc[c]) = "switch" THEN "switch"
           ELSE IF \E c \in Clients : WishOf(pc[c]) = "revert" THEN "revert" ELSE "none"
Contract ==
    INSTANCE ServingContract WITH serving <- live, wish <- Pending, Answering <- Answers
ServingKept == Contract!Spec

------------------------------------------------------------------------------
(* Inductive strengthenings, for the proofs *)

\* A profile id reaches the record or the Runtime only through the locals of a request
\* whose probe succeeded.
LocalsProbed ==
    \A c \in Clients :
        /\ pc[c] \in {"remember", "clear", "mark", "fetch"} => arg[c] \in probed
        /\ {previous[c].settings.owner, previous[c].label,
             target[c].settings.owner, target[c].label} \subseteq probed \union {NoId}

ProbedInv == OnlyProbedProfilesServe /\ LocalsProbed

OneClient == \A c, d \in Clients : c = d

\* What the only request in flight knows at each of its steps.
RequestInv(c) ==
    /\ pc[c] # "idle" => up /\ store
    /\ pc[c] = "delete" => arg[c] # label
    /\ pc[c] \in {"remember", "clear", "mark", "fetch", "swap", "label"} => ProbeReaches(arg[c])
    /\ pc[c] = "mark" => IndexAllows(arg[c])
    /\ pc[c] \in {"fetch", "swap", "label"} => active = {arg[c]}
    /\ pc[c] \in {"clear", "mark", "fetch", "undo", "rebuild"} => previous[c] = Bound
    /\ pc[c] \in {"swap", "label"} => target[c] = ProfileBinding(arg[c])
    /\ pc[c] \in {"swap_back", "label_back"} => target[c] = Bound
    /\ pc[c] \in {"swap_env", "label_env"} => target[c] = EnvBinding
    /\ pc[c] = "label" => live = target[c].settings
    /\ pc[c] \in {"label_env", "clear_all"} => live = EnvSettings
    /\ pc[c] = "clear_all" => label = NoId
    /\ pc[c] \in {"undo", "rebuild", "swap_back", "label_back"} => ~clean

\* Before the first statement of an activation the record still agrees.
AgreeInv ==
    /\ up /\ store /\ clean
    /\ \A c \in Clients : pc[c] \in {"idle", "delete", "probe", "remember", "clear"}
    => OneProfile

\* The settings that serve are those of their profile's row until that is edited.
FreshInv ==
    /\ live.owner \in issued \union {NoId}
    /\ ~edited => live.server = IF live.owner = NoId THEN EnvServer ELSE server[live.owner]

OneClientInv ==
    /\ BoundProfileExists
    /\ AgreeInv
    /\ FreshInv
    /\ \A c \in Clients : RequestInv(c)

------------------------------------------------------------------------------
(* What comments and tests say and the code does not do *)

\* http_server.py:170, on the rollback: "both are reverted, screen and DB are not left
\* disagreeing": when it has rebound, the record names what the screen shows again.
RollbackRestoresRecord ==
    [][\A c \in Clients : pc[c] = "label_back" /\ pc'[c] = "idle" /\ up' =>
            active' = {label'} \ {NoId}]_vars
==============================================================================
