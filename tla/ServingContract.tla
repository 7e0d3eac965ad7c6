--------------------------- MODULE ServingContract ---------------------------
(***************************************************************************)
(* What the class comment of Runtime (adapters/http_server.py) promises,   *)
(* with the profiles, the statements and the steps of a request left out:  *)
(* the settings that answer questions change only to fulfil a wish of the  *)
(* client, to those of a server that answers or back to the environment's. *)
(* A switch that fails is given up and is invisible: the earlier settings  *)
(* go on serving.  Only a start may bind a recorded profile untried.       *)
(***************************************************************************)
CONSTANTS
    Settings,       \* every Settings value the application can be bound to
    EnvSettings,    \* those of the environment
    Answering(_)    \* whether a Settings value names a server that answers

VARIABLES
    up,             \* the process runs
    serving,        \* the settings questions are answered with
    wish            \* what the client waits for: "none", "switch" or "revert"

Init == ~up /\ serving = EnvSettings /\ wish = "none"

Ask ==
    /\ up /\ wish = "none"
    /\ wish' \in {"switch", "revert"}
    /\ UNCHANGED <<up, serving>>

Switch ==
    /\ up /\ wish = "switch"
    /\ \E s \in Settings : Answering(s) /\ serving' = s
    /\ wish' = "none"
    /\ UNCHANGED up

GiveUp == wish = "switch" /\ wish' = "none" /\ UNCHANGED <<up, serving>>

Revert ==
    /\ up /\ wish = "revert"
    /\ serving' = EnvSettings
    /\ wish' = "none"
    /\ UNCHANGED up

Stop == up /\ ~up' /\ serving' = EnvSettings /\ wish' = "none"

Start == ~up /\ up' /\ serving' \in Settings /\ UNCHANGED wish

Next == Ask \/ Switch \/ GiveUp \/ Revert \/ Stop \/ Start

Spec == Init /\ [][Next]_<<up, serving, wish>>
==============================================================================
