------------------------------ MODULE MCOutputs ------------------------------
(* TLC instance of devices with their outputs, of the thread of one output   *)
(* under fairness, and of locks and the keyboard. A behaviour is one of       *)
(* these: `part` says of which, and the variables of the others do not move. *)
EXTENDS TLC

CONSTANTS t1, t2, t3, NoToken, d1, d2, NoGpu,
    win, o1, o2, left1, left2, right1, None

VARIABLES part,
    mainpc, active, dpms, startup, cmds, running, comp, queue, timers, frame,
    feedback, mirroring, flip, events, damage, failures,
    plugged, present, hinted, onSeat, resuming, devices, output, surface, lit,
    kernel, off, heads, exposed, memory, primary, changes, faults, oddities,
    crashed,
    home, minimized, seen, modal, activeSpaces, stacks, focus, focused,
    activeOutput, layers, locked, lockSurfaces, overrides, toggles

Thread == INSTANCE KmsSurface WITH
    Tokens <- {t1, t2, t3}, MaxCmds <- 2, MaxEvents <- 1, MaxFailures <- 1,
    Blanking <- TRUE

\* Two monitors share the only CRTC of d1.
Hotplugs == INSTANCE KmsDevice WITH
    active <- onSeat, Devices <- {d1, d2},
    Connectors <- <<"DP-1", "DP-2", "HDMI-1">>, Crtcs <- {1, 2},
    GpuOf <- ("DP-1" :> d1) @@ ("DP-2" :> d1) @@ ("HDMI-1" :> d2),
    GpuOfCrtc <- <<d1, d2>>, Budgets <- {<<3, 0>>, <<2, 1>>}

\* One window and three changes of locks and layer surfaces.
Locks == INSTANCE Focus WITH
    active <- activeSpaces, changes <- toggles,
    Windows <- {win}, ParentOf <- <<>>,
    Outputs <- {o1, o2}, OutputOf <- (left1 :> o1) @@ (left2 :> o1) @@ (right1 :> o2),
    MaxChanges <- 3

threadVars == <<mainpc, active, dpms, startup, cmds, running, comp, queue,
                timers, frame, feedback, mirroring, flip, events, damage,
                failures>>
deviceVars == <<plugged, present, hinted, onSeat, resuming, devices, output,
                surface, lit, kernel, off, heads, exposed, memory, primary,
                changes, faults, oddities, crashed>>
focusVars == <<home, minimized, seen, modal, activeSpaces, stacks, focus,
               focused, activeOutput, layers, locked, lockSurfaces, overrides,
               toggles>>
vars == <<part, threadVars, deviceVars, focusVars>>

\* The parts that do not run are in an initial state of their own.
FocusAtRest == Locks!FocusInit /\ activeSpaces[o1] = left1 /\ activeOutput = o1

Init ==
    /\ Thread!Init /\ Hotplugs!Init
    /\ \/ part = "thread" /\ changes = 3 /\ FocusAtRest
       \/ part = "devices" /\ FocusAtRest
       \/ part = "locks" /\ changes = 3 /\ Locks!FocusInit

Only(p) == part = p /\ UNCHANGED part

Next ==
    \/ Only("thread") /\ Thread!Next /\ UNCHANGED <<deviceVars, focusVars>>
    \/ Only("devices") /\ Hotplugs!Next /\ UNCHANGED <<threadVars, focusVars>>
    \/ Only("locks") /\ Locks!FocusNext /\ UNCHANGED <<threadVars, deviceVars>>

Spec == Init /\ [][Next]_vars

\* The fairness of KmsSurface and of Focus, while theirs is the part that runs.
ThreadRuns == part = "thread"
FocusRuns == WF_focusVars(part = "locks" /\ Locks!Refresh)
FairSpec ==
    /\ Spec
    /\ WF_threadVars(ThreadRuns /\ Thread!Command)
    /\ \A t \in {t1, t2, t3} : WF_threadVars(ThreadRuns /\ Thread!Timeout(t))
    /\ WF_threadVars(ThreadRuns /\ Thread!FlipDone)
    /\ SF_threadVars(ThreadRuns /\ Thread!ReadVBlank)
    /\ WF_threadVars(ThreadRuns /\ Thread!Joined)
    /\ FocusRuns

\* Locks and layer surfaces alone.
LocksSpec == Init /\ part = "locks" /\ [][Next]_vars /\ FocusRuns
-----------------------------------------------------------------------------
(* See KmsDevice: devices, heads of the protocol, outputs of the shell and   *)
(* surfaces agree once everything is handled, and the primary GPU is one     *)
(* that is there.                                                            *)
OutputsFollow ==
    Hotplugs!DeviceTypeOK /\ Hotplugs!OutputsFollow /\ Hotplugs!PrimaryIsKnown

(* See KmsDevice: what the user chose for a set of displays is remembered.   *)
ChoiceIsKept == Hotplugs!ChoiceIsKept

(* See KmsDevice: src/backend/kms/mod.rs:1003, a configuration for which     *)
(* there are too few CRTCs is refused.                                       *)
EnabledHaveSurfaces == Hotplugs!EnabledHaveSurfaces

(* See KmsSurface: content of an output that is shown is drawn eventually.   *)
DamageIsDrawn == ThreadRuns => Thread!DamageIsDrawn

(* See KmsSurface: every call of the main loop to the thread returns.        *)
CallsReturn == Thread!CallsReturn

(* See Focus: every refresh leaves the keys with something that may have     *)
(* them, and who waits for them gets them.                                   *)
KeysArrive ==
    /\ part = "locks" => Locks!KeysArrive
    /\ [][part = "locks" /\ Locks!Refresh => Locks!KeysAreGiven]_focusVars

(* See Focus: src/shell/focus/mod.rs:962, a lock screen must be able to take *)
(* keys.                                                                     *)
LockScreenTakesKeys == part = "locks" => Locks!LockScreenTakesKeys
=============================================================================
