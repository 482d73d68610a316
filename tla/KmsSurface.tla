------------------------------ MODULE KmsSurface ------------------------------
(***************************************************************************)
(* One output of the KMS backend: the Surface handle owned by the main     *)
(* thread, the surface thread that renders the output, the command channel *)
(* between them, and the kernel's page flips.                              *)
(*                                                                         *)
(* Source: src/backend/kms/surface/mod.rs, the page-flip source in         *)
(* backend/kms/device.rs and the callers in backend/kms/mod.rs.            *)
(*                                                                         *)
(* Abstractions.  A frame's contents are one bit, "damage": something was  *)
(* scheduled for rendering and has not been rendered since.  Post-         *)
(* processing, screen filters, frame flags, VRR and the messages back to   *)
(* the main thread (SendFrames, RenderStates) carry no control and are     *)
(* left out.  A calloop registration token is a member of Tokens, free     *)
(* again once its timer fired or was removed.                              *)
(***************************************************************************)
EXTENDS Naturals, Sequences, SequencesExt

CONSTANTS
  Tokens,        \* calloop timer registrations of the surface thread
  NoToken,       \* "no registration"
  MaxCmds,       \* bound on the commands in the channel
  MaxEvents,     \* bound on the page-flip events waiting on the DRM fd
  MaxFailures,   \* bound on failing renders: errors are transient
  Blanking       \* whether the user blanks outputs and switches VTs

\* calloop hands out a fresh registration for every source: two timers never
\* exhaust them.
ASSUME TokensAssumption ==
  /\ NoToken \notin Tokens
  /\ \A s, t \in Tokens \cup {NoToken} : \E u \in Tokens : u # s /\ u # t
ASSUME BoundsAssumption ==
  /\ MaxCmds \in Nat /\ MaxEvents \in Nat /\ MaxFailures \in Nat
  /\ Blanking \in BOOLEAN

VARIABLES
  mainpc,    \* main thread: idle, or blocked in a call on this surface
  active,    \* Surface::active, the AtomicBool both threads hold
  dpms,      \* Surface::dpms, main thread only
  startup,   \* startup_done
  cmds,      \* the ThreadCommand channel
  running,   \* the surface thread's event loop runs
  comp,      \* SurfaceThreadState::compositor is Some
  queue,     \* SurfaceThreadState::state
  timers,    \* the timers armed in the surface thread's event loop
  frame,     \* Timings::pending_frame
  feedback,  \* the queued frame carries presentation feedback
  mirroring, \* SurfaceThreadState::mirroring is Some
  flip,      \* the kernel is executing a page flip of this CRTC
  events,    \* page-flip events not read yet from the DRM fd
  damage,    \* content scheduled for rendering and not rendered since
  failures   \* failed renders so far

mainVars   == <<mainpc, active, dpms, startup>>
threadVars == <<running, comp, queue, timers, frame, feedback, mirroring>>
kernelVars == <<flip, events>>
vars == <<mainVars, cmds, threadVars, kernelVars, damage, failures>>

Commands == {"Suspend", "Resume", "NodeAdded", "NodeRemoved", "MirrorOn",
             "MirrorOff", "VBlank", "ScheduleRender", "DpmsOff", "End"}

Kinds == {"Idle", "Queued", "WaitingForVBlank", "WaitingForEstimatedVBlank",
          "WaitingForEstimatedVBlankAndQueued"}

\* QueueState and the tokens its variants carry.
QueueState == [kind : Kinds, redraw : BOOLEAN,
               render : Tokens \cup {NoToken}, est : Tokens \cup {NoToken}]

State(kind, redraw, render, est) ==
  [kind |-> kind, redraw |-> redraw, render |-> render, est |-> est]

Idle == State("Idle", FALSE, NoToken, NoToken)
Queued(t) == State("Queued", FALSE, t, NoToken)
WaitingForVBlank(r) == State("WaitingForVBlank", r, NoToken, NoToken)
WaitingForEstimatedVBlank(e) ==
  State("WaitingForEstimatedVBlank", FALSE, NoToken, e)
WaitingForEstimatedVBlankAndQueued(e, t) ==
  State("WaitingForEstimatedVBlankAndQueued", FALSE, t, e)

TimerStates == {"free", "render", "estimated", "estimatedForce"}

Free == {t \in Tokens : timers[t] = "free"}

\* The timer map after removing the registrations ts.
Removed(ts) == [t \in Tokens |-> IF t \in ts THEN "free" ELSE timers[t]]

Init ==
  /\ mainpc = "idle" /\ active = FALSE /\ dpms = TRUE /\ startup = FALSE
  /\ cmds = <<>>
  /\ running = TRUE /\ comp = FALSE /\ queue = Idle
  /\ timers = [t \in Tokens |-> "free"]
  /\ frame = "none" /\ feedback = FALSE /\ mirroring = FALSE
  /\ flip = FALSE /\ events = 0
  /\ damage = FALSE /\ failures = 0

-----------------------------------------------------------------------------
(* The main thread.  Every call is made by its event loop, so none starts    *)
(* while it is blocked in another one.                                       *)

MainIdle == mainpc = "idle"

\* Sending on the unbounded calloop channel never blocks; MaxCmds only keeps
\* the model finite.
Send(s) ==
  /\ Len(cmds) + Len(s) <= MaxCmds
  /\ cmds' = cmds \o s

\* Mutant: schedule_render forgets to look at dpms.
ScheduleRender_Dark ==
  /\ MainIdle
  /\ damage' = TRUE
  /\ Send(<<"ScheduleRender">>)
  /\ UNCHANGED <<mainVars, threadVars, kernelVars, failures>>

\* BackendData::schedule_render: something visible changed.
ScheduleRender ==
  /\ MainIdle
  /\ damage' = TRUE
  /\ IF dpms THEN Send(<<"ScheduleRender">>) ELSE UNCHANGED cmds
  /\ UNCHANGED <<mainVars, threadVars, kernelVars, failures>>

\* Startup finishes: renders are no longer ignored, one is scheduled at once.
StartupDone ==
  /\ MainIdle /\ ~startup
  /\ startup' = TRUE
  /\ damage' = TRUE
  /\ IF dpms THEN Send(<<"ScheduleRender">>) ELSE UNCHANGED cmds
  /\ UNCHANGED <<mainpc, active, dpms, threadVars, kernelVars, failures>>

\* apply_config_for_outputs on an inactive surface: Surface::resume, then
\* schedule_render once the configuration is applied.
Resume ==
  /\ MainIdle /\ ~active
  /\ active' = TRUE
  /\ dpms' = TRUE
  /\ damage' = TRUE
  /\ Send(<<"Resume", "ScheduleRender">>)
  /\ UNCHANGED <<mainpc, startup, threadVars, kernelVars, failures>>

\* Surface::suspend, from pause_session: blocks for the acknowledgement.
SuspendCall ==
  /\ MainIdle /\ Blanking
  /\ mainpc' = "suspend"
  /\ Send(<<"Suspend">>)
  /\ UNCHANGED <<active, dpms, startup, threadVars, kernelVars, damage, failures>>

\* Surface::add_node and remove_node: block for the acknowledgement.
NodeCall(c) ==
  /\ MainIdle
  /\ mainpc' = "node"
  /\ Send(<<c>>)
  /\ UNCHANGED <<active, dpms, startup, threadVars, kernelVars, damage, failures>>

SetMirroring(c) ==
  /\ MainIdle
  /\ Send(<<c>>)
  /\ UNCHANGED <<mainVars, threadVars, kernelVars, damage, failures>>

\* Surface::set_dpms.
SetDpms(on) ==
  /\ MainIdle /\ dpms # on /\ (on \/ Blanking)
  /\ dpms' = on
  /\ Send(<<IF on THEN "ScheduleRender" ELSE "DpmsOff">>)
  /\ damage' = (damage \/ on)
  /\ UNCHANGED <<mainpc, active, startup, threadVars, kernelVars, failures>>

\* Drop of the Surface: End is sent and the thread left to itself, or joined.
DropSurface(join) ==
  /\ MainIdle
  /\ mainpc' = IF join THEN "join" ELSE "gone"
  /\ Send(<<"End">>)
  /\ UNCHANGED <<active, dpms, startup, threadVars, kernelVars, damage, failures>>

\* Mutant: an event is counted twice.
ReadVBlank_Twice ==
  /\ mainpc \in {"idle", "gone"} /\ events > 0
  /\ events' = events - 2
  /\ IF mainpc = "idle" THEN Send(<<"VBlank">>) ELSE UNCHANGED cmds
  /\ UNCHANGED <<mainVars, threadVars, flip, damage, failures>>

\* The page-flip event is read from the DRM fd and handed to the surface of
\* its CRTC, if there still is one.
ReadVBlank ==
  /\ mainpc \in {"idle", "gone"} /\ events > 0
  /\ events' = events - 1
  /\ IF mainpc = "idle" THEN Send(<<"VBlank">>) ELSE UNCHANGED cmds
  /\ UNCHANGED <<mainVars, threadVars, flip, damage, failures>>

\* The thread joined on has returned.
Joined ==
  /\ mainpc = "join" /\ ~running
  /\ mainpc' = "gone"
  /\ UNCHANGED <<active, dpms, startup, cmds, threadVars, kernelVars, damage,
                 failures>>

-----------------------------------------------------------------------------
(* The kernel, external: a flip ends in one event.                           *)

FlipDone ==
  /\ flip /\ events < MaxEvents
  /\ flip' = FALSE
  /\ events' = events + 1
  /\ UNCHANGED <<mainVars, cmds, threadVars, damage, failures>>

\* Blanking a CRTC, by clear() or by dropping its compositor, waits for a
\* flip in progress; its event is then waiting on the fd, or was discarded.
Blank ==
  /\ flip' = FALSE
  /\ \/ UNCHANGED events
     \/ flip /\ events < MaxEvents /\ events' = events + 1

-----------------------------------------------------------------------------
(* The surface thread: commands.                                             *)

Receive(c) ==
  /\ running /\ cmds # <<>> /\ Head(cmds) = c
  /\ cmds' = Tail(cmds)

\* queue_redraw(force) from queue state q and timer map tm, the two values
\* its caller left behind; [q, tm] is the pair it leaves behind itself.
QueueRedraw(force, q, tm) ==
  LET t == CHOOSE x \in Tokens : tm[x] = "free"
      armed == [tm EXCEPT ![t] = "render"]
      replaced == [armed EXCEPT ![q.render] = "free"]
  IN  IF q.kind = "WaitingForVBlank"
        THEN [q |-> WaitingForVBlank(TRUE), tm |-> tm]
      ELSE IF q.kind = "Idle"
        THEN [q |-> Queued(t), tm |-> armed]
      ELSE IF q.kind = "WaitingForEstimatedVBlank"
        THEN [q |-> WaitingForEstimatedVBlankAndQueued(q.est, t), tm |-> armed]
      ELSE IF ~force
        THEN [q |-> q, tm |-> tm]
      ELSE IF q.kind = "Queued"
        THEN [q |-> Queued(t), tm |-> replaced]
      ELSE [q |-> WaitingForEstimatedVBlankAndQueued(q.est, t), tm |-> replaced]

Become(r) == queue' = r.q /\ timers' = r.tm

\* Mutant: the estimated VBlank's timer is left armed.
Abandon_Leak ==
  /\ queue' = Idle
  /\ timers' = Removed({queue.render})

\* Leaving any queue state for Idle: the timers of the state are removed.
Abandon ==
  /\ queue' = Idle
  /\ timers' = Removed({queue.render, queue.est})

DiscardFrame ==
  frame' = IF queue.kind = "WaitingForVBlank" THEN "none" ELSE frame

\* Mutant: the flag shared with the main thread is left set.
OnSuspend_StillActive ==
  /\ Receive("Suspend")
  /\ comp' = FALSE
  /\ IF comp THEN Blank ELSE UNCHANGED kernelVars
  /\ Abandon
  /\ DiscardFrame
  /\ mainpc' = IF mainpc = "suspend" THEN "idle" ELSE mainpc
  /\ UNCHANGED <<active, dpms, startup, running, feedback, mirroring, damage,
                 failures>>

OnSuspend ==
  /\ Receive("Suspend")
  /\ active' = FALSE
  /\ comp' = FALSE
  /\ IF comp THEN Blank ELSE UNCHANGED kernelVars
  /\ Abandon
  /\ DiscardFrame
  /\ mainpc' = IF mainpc = "suspend" THEN "idle" ELSE mainpc
  /\ UNCHANGED <<dpms, startup, running, feedback, mirroring, damage, failures>>

OnResume ==
  /\ Receive("Resume")
  /\ comp' = TRUE
  /\ UNCHANGED <<mainVars, running, queue, timers, frame, feedback, mirroring,
                 kernelVars, damage, failures>>

\* Mutant: a node that cannot be added returns before the acknowledgement.
OnNode_NoAck(c) ==
  /\ Receive(c)
  /\ mainpc' \in {mainpc, IF mainpc = "node" THEN "idle" ELSE mainpc}
  /\ UNCHANGED <<active, dpms, startup, threadVars, kernelVars, damage, failures>>

OnNode(c) ==
  /\ Receive(c)
  /\ mainpc' = IF mainpc = "node" THEN "idle" ELSE mainpc
  /\ UNCHANGED <<active, dpms, startup, threadVars, kernelVars, damage, failures>>

OnMirroring(on) ==
  /\ Receive(IF on THEN "MirrorOn" ELSE "MirrorOff")
  /\ mirroring' = on
  /\ UNCHANGED <<mainVars, running, comp, queue, timers, frame, feedback,
                 kernelVars, damage, failures>>

OnScheduleRender ==
  /\ Receive("ScheduleRender")
  /\ IF startup /\ comp THEN Become(QueueRedraw(FALSE, queue, timers))
                        ELSE UNCHANGED <<queue, timers>>
  /\ UNCHANGED <<mainVars, running, comp, frame, feedback, mirroring,
                 kernelVars, damage, failures>>

OnDpmsOff ==
  /\ Receive("DpmsOff")
  /\ IF comp THEN Blank /\ Abandon /\ DiscardFrame
             ELSE UNCHANGED <<kernelVars, queue, timers, frame>>
  /\ UNCHANGED <<mainVars, running, comp, feedback, mirroring, damage, failures>>

OnEnd ==
  /\ Receive("End")
  /\ running' = FALSE
  /\ comp' = FALSE
  /\ queue' = Idle
  /\ timers' = [t \in Tokens |-> "free"]
  /\ IF comp THEN Blank ELSE UNCHANGED kernelVars
  /\ UNCHANGED <<mainVars, frame, feedback, mirroring, damage, failures>>

\* on_vblank outside WaitingForVBlank: a late event.  Whatever the state had
\* armed is removed, and the thread is Idle.
OnLateVBlank ==
  /\ Receive("VBlank")
  /\ comp => queue.kind # "WaitingForVBlank"
  /\ IF comp THEN Abandon ELSE UNCHANGED <<queue, timers>>
  /\ UNCHANGED <<mainVars, running, comp, frame, feedback, mirroring,
                 kernelVars, damage, failures>>

\* Mutant: redraw_needed is forgotten when the state is replaced.
OnVBlank_NoRedraw(animations) ==
  /\ Receive("VBlank")
  /\ comp /\ queue.kind = "WaitingForVBlank"
  /\ frame' = IF feedback /\ ~mirroring THEN "none" ELSE frame
  /\ feedback' = FALSE
  /\ IF animations THEN Become(QueueRedraw(FALSE, Idle, timers))
                   ELSE queue' = Idle /\ UNCHANGED timers
  /\ UNCHANGED <<mainVars, running, comp, mirroring, kernelVars, damage, failures>>

\* on_vblank in WaitingForVBlank: the frame was presented.  animations is
\* Shell::animations_going at this moment.
OnVBlank(animations) ==
  /\ Receive("VBlank")
  /\ comp /\ queue.kind = "WaitingForVBlank"
  /\ frame' = IF feedback /\ ~mirroring THEN "none" ELSE frame
  /\ feedback' = FALSE
  /\ IF queue.redraw \/ animations THEN Become(QueueRedraw(FALSE, Idle, timers))
                                   ELSE queue' = Idle /\ UNCHANGED timers
  /\ UNCHANGED <<mainVars, running, comp, mirroring, kernelVars, damage, failures>>

-----------------------------------------------------------------------------
(* The surface thread: timers.                                               *)

\* The redraw callback for a render error: nothing was submitted, the render
\* is queued again at once.  acquired tells whether a renderer could be
\* acquired, that is whether the render was started at all.
RedrawFails(t, acquired) ==
  /\ running /\ timers[t] = "render"
  /\ comp /\ failures < MaxFailures
  /\ failures' = failures + 1
  /\ frame' = IF acquired THEN "rendering" ELSE frame
  /\ LET r == QueueRedraw(TRUE, queue, timers)
     IN  queue' = r.q /\ timers' = [r.tm EXCEPT ![t] = "free"]
  /\ UNCHANGED <<mainVars, cmds, running, comp, feedback, mirroring, kernelVars,
                 damage>>

\* Mutant: only empty frames are marked submitted.
RedrawSubmits_Unmarked(t, cleanup) ==
  /\ running /\ timers[t] = "render"
  /\ comp /\ ~flip
  /\ ~cleanup => failures < MaxFailures
  /\ failures' = IF cleanup THEN failures ELSE failures + 1
  /\ frame' = "rendering"
  /\ feedback' = ~mirroring
  /\ queue' = WaitingForVBlank(~cleanup)
  /\ timers' = Removed({t, queue.est})
  /\ flip' = TRUE
  /\ damage' = FALSE
  /\ UNCHANGED <<mainVars, cmds, running, comp, mirroring, events>>

\* The redraw callback when the frame is handed to the kernel.  A texture
\* cache that fails to be cleaned up afterwards queues another redraw.
RedrawSubmits(t, cleanup) ==
  /\ running /\ timers[t] = "render"
  /\ comp /\ ~flip
  /\ ~cleanup => failures < MaxFailures
  /\ failures' = IF cleanup THEN failures ELSE failures + 1
  /\ frame' = "submitted"
  /\ feedback' = ~mirroring
  /\ queue' = WaitingForVBlank(~cleanup)
  /\ timers' = Removed({t, queue.est})
  /\ flip' = TRUE
  /\ damage' = FALSE
  /\ UNCHANGED <<mainVars, cmds, running, comp, mirroring, events>>

\* Mutant: an empty frame is treated like a submitted one.
RedrawEmpty_Waits(t, force, cleanup) ==
  /\ running /\ timers[t] = "render"
  /\ comp
  /\ ~cleanup => failures < MaxFailures
  /\ failures' = IF cleanup THEN failures ELSE failures + 1
  /\ frame' = "submitted"
  /\ queue' = WaitingForVBlank(~cleanup)
  /\ timers' = Removed({t, queue.est})
  /\ damage' = FALSE
  /\ UNCHANGED <<mainVars, cmds, running, comp, feedback, mirroring, kernelVars>>

\* The redraw callback when nothing changed on screen: no flip, and a timer
\* stands in for the VBlank (queue_estimated_vblank).  force tells whether
\* cursor updates were skipped on purpose.
RedrawEmpty(t, force, cleanup) ==
  /\ running /\ timers[t] = "render"
  /\ comp
  /\ ~cleanup => failures < MaxFailures
  /\ failures' = IF cleanup THEN failures ELSE failures + 1
  /\ frame' = "submitted"
  /\ LET e  == IF queue.est # NoToken THEN queue.est
               ELSE CHOOSE x \in Free : TRUE
         tm == [timers EXCEPT ![e] = IF queue.est # NoToken THEN @
                                     ELSE IF force THEN "estimatedForce"
                                     ELSE "estimated"]
         q  == WaitingForEstimatedVBlank(e)
         r  == IF cleanup THEN [q |-> q, tm |-> tm] ELSE QueueRedraw(TRUE, q, tm)
     IN  queue' = r.q /\ timers' = [r.tm EXCEPT ![t] = "free"]
  /\ damage' = FALSE
  /\ UNCHANGED <<mainVars, cmds, running, comp, feedback, mirroring, kernelVars>>

\* on_estimated_vblank.
OnEstimatedVBlank(t, animations) ==
  /\ running /\ timers[t] \in {"estimated", "estimatedForce"}
  /\ LET fired == [timers EXCEPT ![t] = "free"]
     IN  IF queue.kind = "WaitingForEstimatedVBlankAndQueued"
           THEN queue' = Queued(queue.render) /\ timers' = fired
         ELSE IF comp /\ (timers[t] = "estimatedForce" \/ animations)
           THEN Become(QueueRedraw(FALSE, Idle, fired))
         ELSE queue' = Idle /\ timers' = fired
  /\ UNCHANGED <<mainVars, cmds, running, comp, frame, feedback, mirroring,
                 kernelVars, damage, failures>>

-----------------------------------------------------------------------------
MainStep ==
  \/ ScheduleRender \/ StartupDone \/ Resume \/ SuspendCall
  \/ \E c \in {"NodeAdded", "NodeRemoved"} : NodeCall(c)
  \/ \E c \in {"MirrorOn", "MirrorOff"} : SetMirroring(c)
  \/ \E on \in BOOLEAN : SetDpms(on)
  \/ \E join \in BOOLEAN : DropSurface(join)
  \/ Joined
  \/ ReadVBlank

Command ==
  \/ OnSuspend \/ OnResume \/ OnScheduleRender \/ OnDpmsOff \/ OnEnd
  \/ \E c \in {"NodeAdded", "NodeRemoved"} : OnNode(c)
  \/ \E on \in BOOLEAN : OnMirroring(on)
  \/ OnLateVBlank
  \/ \E animations \in BOOLEAN : OnVBlank(animations)

Timeout(t) ==
  \/ \E acquired \in BOOLEAN : RedrawFails(t, acquired)
  \/ \E cleanup \in BOOLEAN : RedrawSubmits(t, cleanup)
  \/ \E force, cleanup \in BOOLEAN : RedrawEmpty(t, force, cleanup)
  \/ \E animations \in BOOLEAN : OnEstimatedVBlank(t, animations)

ThreadStep == Command \/ \E t \in Tokens : Timeout(t)

Next == MainStep \/ ThreadStep \/ FlipDone

Spec == Init /\ [][Next]_vars

\* The surface thread's loop keeps dispatching commands and due timers, the
\* kernel completes flips, and the main loop returns from join.  Every pass of
\* the main loop dispatches all its ready sources, so other work that finds it
\* busy again and again cannot keep it from the DRM fd: strong fairness.
\* Nothing obliges clients or the user to do anything.
Fairness ==
  /\ WF_vars(Command)
  /\ \A t \in Tokens : WF_vars(Timeout(t))
  /\ WF_vars(FlipDone)
  /\ SF_vars(ReadVBlank)
  /\ WF_vars(Joined)

FairSpec == Spec /\ Fairness

-----------------------------------------------------------------------------
(* Properties.                                                               *)

\* Every variable has its type.
TypeOK ==
  /\ mainpc \in {"idle", "suspend", "node", "join", "gone"}
  /\ active \in BOOLEAN /\ dpms \in BOOLEAN /\ startup \in BOOLEAN
  /\ cmds \in Seq(Commands)
  /\ running \in BOOLEAN /\ comp \in BOOLEAN
  /\ queue \in QueueState
  /\ timers \in [Tokens -> TimerStates]
  /\ frame \in {"none", "rendering", "submitted"}
  /\ feedback \in BOOLEAN /\ mirroring \in BOOLEAN
  /\ flip \in BOOLEAN /\ events \in Nat
  /\ damage \in BOOLEAN /\ failures \in Nat

\* The timers tm are exactly the ones the queue state q names, in their roles.
Armed(q, tm) ==
  \A t \in Tokens :
    /\ tm[t] = "render" <=> q.render = t
    /\ tm[t] \in {"estimated", "estimatedForce"} <=> q.est = t

\* q names the timers its variant has.
WellFormed(q) ==
  /\ q.render # NoToken
       <=> q.kind \in {"Queued", "WaitingForEstimatedVBlankAndQueued"}
  /\ q.est # NoToken
       <=> q.kind \in {"WaitingForEstimatedVBlank",
                       "WaitingForEstimatedVBlankAndQueued"}

Matches(q, tm) == Armed(q, tm) /\ WellFormed(q)

\* The timers armed in the event loop are the ones of the queue state, and
\* none is armed without a compositor: no unreachable!() of redraw,
\* queue_redraw, on_estimated_vblank and queue_estimated_vblank is reached,
\* and no callback outlives the state it was armed for.
TimersMatchState ==
  /\ Matches(queue, timers)
  /\ ~comp => queue = Idle

\* While a flip is awaited, its frame was marked submitted: the unwrap of
\* presentation_submitted in Timings::presented cannot fail, whatever
\* renders failed and whatever was blanked before.
SubmittedBeforePresented ==
  queue.kind = "WaitingForVBlank" => frame = "submitted"

\* A thread waiting for a VBlank is owed one, by the kernel, by the DRM fd or
\* by the channel: it is never left waiting for an event that was dropped.
VBlankComes ==
  queue.kind = "WaitingForVBlank" /\ mainpc \notin {"join", "gone"}
    => flip \/ events > 0 \/ Contains(cmds, "VBlank")

\* The flag the main thread reads to decide whether to build a new compositor
\* agrees with the compositor the surface thread has or is about to get, but
\* while the main thread itself waits for a suspend: no surface is resumed
\* twice, and none is left without a compositor.
ActiveAgrees ==
  running /\ mainpc \in {"idle", "node"}
    => (active <=> comp \/ Contains(cmds, "Resume"))

\* Once DPMS is off and the thread has caught up, nothing is queued and
\* nothing scans out, until the main thread turns the output on again.
DarkIsIdle ==
  ~dpms /\ running /\ ~Contains(cmds, "DpmsOff") => queue = Idle /\ ~flip

\* The two flags the threads share, Surface::active and Surface::dpms, are
\* true of the thread's compositor and queue, whatever is under way.
SharedFlagsAgree == ActiveAgrees /\ DarkIsIdle

\* What the thread waits for, and whether a render is armed, by its timers.
Awaited ==
  IF queue.kind = "WaitingForVBlank" THEN "vblank"
  ELSE IF \E t \in Tokens : timers[t] \in {"estimated", "estimatedForce"}
  THEN "estimate" ELSE "nothing"
RenderArmed == \E t \in Tokens : timers[t] = "render"
RedrawNeeded == queue.kind = "WaitingForVBlank" /\ queue.redraw
Darkening == cmds # <<>> /\ Head(cmds) \in {"Suspend", "DpmsOff", "End"}

\* The thread implements the frame loop of QueueState's comments: its timers,
\* callbacks and commands never submit a frame while another is awaited, never
\* arm two renders, and draw what was asked for while a frame was on its way.
Loop == INSTANCE FrameLoop WITH
  lit <- comp, dark <- Darkening, waiting <- Awaited, again <- RedrawNeeded,
  render <- RenderArmed
ImplementsFrameLoop == Loop!Spec

\* If the output is never blanked, content scheduled on it once it is active is
\* eventually drawn, whatever renders fail, however they are batched, and with
\* any number of other commands in the channel.
DamageIsDrawn ==
  [](dpms /\ mainpc # "suspend") =>
    (damage ~> ~damage \/ ~startup \/ ~active \/ mainpc \in {"join", "gone"})

\* Every blocking call on the surface returns to the main loop.
CallsReturn == mainpc \in {"suspend", "node", "join"} ~> mainpc \in {"idle", "gone"}
=============================================================================
