------------------------------ MODULE MCServices ------------------------------
(* TLC instance of the parts that talk to other processes over D-Bus and the *)
(* event bus, and of the filter of input events.  They share no state, so a  *)
(* behaviour is one of any of them: `part` says of which, and the variables  *)
(* of the others do not move.                                                *)
EXTENDS NameOwners, AppBindings, EventBus, KeyFilter, TLC

CONSTANTS c1, c2, EditorApp, PlayerApp, w1, w2

VARIABLE part

\* Each client is a process of its own application; one spelling per key.
ClientApps == (c1 :> EditorApp) @@ (c2 :> PlayerApp)
Spelling == [a \in Accels |-> "s"]

vars == <<part, nameVars, appVars, eventVars, filterVars>>

Init ==
    /\ part \in {"names", "keys", "events", "input"}
    /\ NamesInit /\ RegistryInit /\ EventInit /\ FilterInit

Only(p) == part = p /\ UNCHANGED part

Next ==
    \/ Only("names") /\ NamesNext /\ UNCHANGED <<appVars, eventVars, filterVars>>
    \/ Only("keys") /\ RegistryNext /\ UNCHANGED <<nameVars, eventVars, filterVars>>
    \/ Only("events") /\ EventNext /\ UNCHANGED <<nameVars, appVars, filterVars>>
    \/ Only("input") /\ FilterNext /\ UNCHANGED <<nameVars, appVars, eventVars>>

Spec == Init /\ [][Next]_vars

\* The fairness of each part, while it is the one that runs.
FairSpec ==
    /\ Spec
    /\ WF_nameVars(part = "names" /\ Subscribe)
    /\ WF_nameVars(part = "names" /\ ListNames)
    /\ WF_nameVars(part = "names" /\ UpdateTask)
    /\ WF_nameVars(part = "names" /\ Refresh)
    /\ \A c \in Clients : WF_nameVars(part = "names" /\ Serve(c))
=============================================================================
