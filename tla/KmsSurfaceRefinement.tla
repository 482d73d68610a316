------------------------- MODULE KmsSurfaceRefinement -------------------------
(***************************************************************************)
(* KmsSurface implements FrameLoop, for any number of timer registrations  *)
(* and any bounds.  The refinement mapping reads the armed timers; by the  *)
(* invariant of KmsSurfaceProofs they say the same as the queue state, so  *)
(* each step is looked at by what it does to the kind of the queue state.  *)
(***************************************************************************)
EXTENDS KmsSurfaceProofs

\* The mapping, by the kind of the queue state.
Waits(kind) ==
  IF kind = "WaitingForVBlank" THEN "vblank"
  ELSE IF kind \in {"WaitingForEstimatedVBlank",
                    "WaitingForEstimatedVBlankAndQueued"} THEN "estimate"
  ELSE "nothing"
Renders(kind) == kind \in {"Queued", "WaitingForEstimatedVBlankAndQueued"}

Mapped ==
  /\ Awaited = Waits(queue.kind)
  /\ RenderArmed = Renders(queue.kind)
  /\ queue.kind \in Kinds
  /\ RedrawNeeded \in BOOLEAN /\ comp \in BOOLEAN

\* The invariant puts the mapped state in the abstract loop's types.
LEMMA MappedState == SurfaceInv => Mapped
<1> SUFFICES ASSUME SurfaceInv
             PROVE  Mapped
  OBVIOUS
<1>1. queue \in QueueState /\ Matches(queue, timers) /\ comp \in BOOLEAN
  BY DEF SurfaceInv, TypeOK, TimersMatchState
<1>2. RenderArmed <=> queue.render # NoToken
  BY <1>1, TokensAssumption DEF RenderArmed, Matches, Armed, QueueState
<1>3. (\E t \in Tokens : timers[t] \in {"estimated", "estimatedForce"})
        <=> queue.est # NoToken
  BY <1>1, TokensAssumption DEF Matches, Armed, QueueState
<1>4. Awaited = Waits(queue.kind)
  BY <1>1, <1>3 DEF Awaited, Waits, Matches, WellFormed
<1>5. RenderArmed \in BOOLEAN /\ (RenderArmed <=> Renders(queue.kind))
  BY <1>1, <1>2 DEF Renders, RenderArmed, Matches, WellFormed
<1>6. queue.kind \in Kinds /\ RedrawNeeded \in BOOLEAN
  BY <1>1 DEF QueueState, RedrawNeeded
<1> QED BY <1>1, <1>4, <1>5, <1>6 DEF Renders, Mapped

\* queue_redraw: a redraw after the frame that is awaited, or an armed render.
LEMMA RedrawKinds ==
  ASSUME NEW force \in BOOLEAN, NEW q \in QueueState, NEW tm,
         NEW r, r = QueueRedraw(force, q, tm)
  PROVE  /\ q.kind = "WaitingForVBlank" =>
              r.q.kind = "WaitingForVBlank" /\ r.q.redraw
         /\ q.kind \in {"Idle", "Queued"} => r.q.kind = "Queued"
         /\ q.kind \in {"WaitingForEstimatedVBlank",
                        "WaitingForEstimatedVBlankAndQueued"} =>
              r.q.kind = "WaitingForEstimatedVBlankAndQueued"
BY DEF QueueRedraw, WaitingForVBlank, Queued, QueueState, Kinds,
       WaitingForEstimatedVBlankAndQueued, State

\* The step as FrameLoop sees it: the mapped variables before and after, each
\* by the queue state, and a free choice of dark.
LEMMA MappedStep ==
  ASSUME SurfaceInv, SurfaceInv'
  PROVE  /\ Awaited = Waits(queue.kind) /\ Awaited' = Waits(queue'.kind)
         /\ RenderArmed = Renders(queue.kind)
         /\ RenderArmed' = Renders(queue'.kind)
         /\ queue.kind \in Kinds /\ queue'.kind \in Kinds
         /\ RedrawNeeded \in BOOLEAN /\ RedrawNeeded' \in BOOLEAN
         /\ comp \in BOOLEAN /\ comp' \in BOOLEAN
         /\ Darkening' \in BOOLEAN
<1>1. (SurfaceInv => Mapped)'
  BY MappedState, PTL
<1>2. Darkening' \in BOOLEAN
  BY DEF Darkening
<1> QED BY <1>1, <1>2, MappedState DEF Mapped

\* A step that leaves the queue state and does not take the compositor away
\* is one in which commands come.
LEMMA QuietStep ==
  ASSUME SurfaceInv, SurfaceInv', queue' = queue, comp' \in {comp, TRUE}
  PROVE  Loop!Next
<1>1. Loop!Tell
  BY MappedStep DEF Loop!Tell, RedrawNeeded
<1> QED BY <1>1, MappedStep DEF Loop!Next

\* Blanking: the thread waits for nothing afterwards, unless it had no
\* compositor and waited for nothing before.
LEMMA StopStep ==
  ASSUME SurfaceInv, SurfaceInv', Darkening, comp' \in {comp, FALSE},
         queue' = Idle
  PROVE  Loop!Next
<1>1. Waits(queue'.kind) = "nothing" /\ Renders(queue'.kind) = FALSE
  BY DEF Waits, Renders, Idle, State
<1>2. RedrawNeeded' = FALSE
  BY DEF RedrawNeeded, Idle, State
<1>3. Loop!Stop
  BY <1>1, <1>2, MappedStep DEF Loop!Stop
<1> QED BY <1>3, MappedStep DEF Loop!Next

\* The queue state after a queue_redraw, as a step of the loop.
LEMMA ScheduleStep ==
  ASSUME SurfaceInv, SurfaceInv', comp, comp' = comp,
         Become(QueueRedraw(FALSE, queue, timers))
  PROVE  Loop!Next
<1>1. PICK r : r = QueueRedraw(FALSE, queue, timers)
  OBVIOUS
<1>2. queue' = r.q
  BY <1>1, Zenon DEF Become
<1>3. queue \in QueueState
  BY DEF SurfaceInv, TypeOK
<1>6. /\ queue.kind = "WaitingForVBlank" =>
            r.q.kind = "WaitingForVBlank" /\ r.q.redraw
      /\ queue.kind \in {"Idle", "Queued"} => r.q.kind = "Queued"
      /\ queue.kind \in {"WaitingForEstimatedVBlank",
                        "WaitingForEstimatedVBlankAndQueued"} =>
            r.q.kind = "WaitingForEstimatedVBlankAndQueued"
  BY <1>1, <1>3, RedrawKinds
<1>4. CASE queue.kind = "WaitingForVBlank"
  <2>1. queue'.kind = "WaitingForVBlank" /\ queue'.redraw
    BY <1>2, <1>4, <1>6
  <2>2. RedrawNeeded' = TRUE
    BY <2>1 DEF RedrawNeeded
  <2>3. Loop!Schedule
    BY <1>4, <2>1, <2>2, MappedStep DEF Loop!Schedule, Waits, Renders
  <2> QED BY <2>3, MappedStep DEF Loop!Next
<1>5. CASE queue.kind # "WaitingForVBlank"
  <2>1. /\ Waits(queue'.kind) = Waits(queue.kind)
        /\ Waits(queue.kind) # "vblank"
        /\ Renders(queue'.kind) = TRUE
        /\ queue'.kind # "WaitingForVBlank"
    <3>1. queue.kind \in Kinds
      BY <1>3 DEF QueueState
    <3>2. \/ queue.kind \in {"Idle", "Queued"} /\ queue'.kind = "Queued"
          \/ /\ queue.kind \in {"WaitingForEstimatedVBlank",
                               "WaitingForEstimatedVBlankAndQueued"}
             /\ queue'.kind = "WaitingForEstimatedVBlankAndQueued"
      BY <1>2, <1>5, <1>6, <3>1 DEF Kinds
    <3> QED BY <3>2 DEF Waits, Renders
  <2>2. RedrawNeeded = FALSE /\ RedrawNeeded' = FALSE
    BY <1>5, <2>1 DEF RedrawNeeded
  <2>3. Loop!Schedule
    BY <2>1, <2>2, MappedStep DEF Loop!Schedule
  <2> QED BY <2>3, MappedStep DEF Loop!Next
<1> QED BY <1>4, <1>5

\* Every command is a step of the abstract loop.
LEMMA CommandRefines ==
  ASSUME SurfaceInv, SurfaceInv', Command
  PROVE  Loop!Next
<1>1. CASE OnSuspend
  <2>1. Darkening
    BY <1>1 DEF OnSuspend, Receive, Darkening
  <2> QED BY <1>1, <2>1, StopStep, Zenon DEF OnSuspend, Abandon
<1>2. CASE OnResume
  BY <1>2, QuietStep, Zenon DEF OnResume
<1>3. CASE OnScheduleRender
  <2>1. comp' = comp
    BY <1>3, Zenon DEF OnScheduleRender
  <2>2. CASE startup /\ comp
    <3>1. Become(QueueRedraw(FALSE, queue, timers))
      BY <1>3, <2>2, Zenon DEF OnScheduleRender
    <3> QED BY <2>1, <2>2, <3>1, ScheduleStep
  <2>3. CASE ~(startup /\ comp)
    BY <1>3, <2>1, <2>3, QuietStep, Zenon DEF OnScheduleRender
  <2> QED BY <2>2, <2>3
<1>4. CASE OnDpmsOff
  <2>1. Darkening
    BY <1>4 DEF OnDpmsOff, Receive, Darkening
  <2>2. comp' = comp
    BY <1>4, Zenon DEF OnDpmsOff
  <2>3. CASE comp
    BY <1>4, <2>1, <2>2, <2>3, StopStep, Zenon DEF OnDpmsOff, Abandon
  <2>4. CASE ~comp
    BY <1>4, <2>2, <2>4, QuietStep, Zenon DEF OnDpmsOff
  <2> QED BY <2>3, <2>4
<1>5. CASE OnEnd
  <2>1. Darkening
    BY <1>5 DEF OnEnd, Receive, Darkening
  <2> QED BY <1>5, <2>1, StopStep, Zenon DEF OnEnd
<1>6. ASSUME NEW c \in {"NodeAdded", "NodeRemoved"}, OnNode(c)
      PROVE  Loop!Next
  BY <1>6, QuietStep, Zenon DEF OnNode, threadVars
<1>7. ASSUME NEW on \in BOOLEAN, OnMirroring(on)
      PROVE  Loop!Next
  BY <1>7, QuietStep, Zenon DEF OnMirroring
<1>8. CASE OnLateVBlank
  <2>1. comp' = comp
    BY <1>8, Zenon DEF OnLateVBlank
  <2>2. CASE ~comp
    BY <1>8, <2>1, <2>2, QuietStep, Zenon DEF OnLateVBlank
  <2>3. CASE comp
    <3>1. queue.kind # "WaitingForVBlank" /\ queue' = Idle
      BY <1>8, <2>3, Zenon DEF OnLateVBlank, Abandon
    <3>2. /\ Waits(queue.kind) # "vblank"
          /\ Waits(queue'.kind) = "nothing" /\ Renders(queue'.kind) = FALSE
          /\ RedrawNeeded = FALSE /\ RedrawNeeded' = FALSE
      BY <3>1 DEF Waits, Renders, RedrawNeeded, Idle, State
    <3>3. Loop!Late
      BY <2>1, <2>3, <3>2, MappedStep DEF Loop!Late
    <3> QED BY <3>3, MappedStep DEF Loop!Next
  <2> QED BY <2>2, <2>3
<1>9. ASSUME NEW animations \in BOOLEAN, OnVBlank(animations)
      PROVE  Loop!Next
  <2>1. comp /\ comp' = comp /\ queue.kind = "WaitingForVBlank"
    BY <1>9, Zenon DEF OnVBlank
  <2>2. /\ queue'.kind \in {"Idle", "Queued"}
        /\ RedrawNeeded => queue'.kind = "Queued"
    <3>1. CASE queue.redraw \/ animations
      <4>1. Become(QueueRedraw(FALSE, Idle, timers))
        BY <1>9, <3>1, Zenon DEF OnVBlank
      <4>2. PICK r : r = QueueRedraw(FALSE, Idle, timers)
        OBVIOUS
      <4>3. queue' = r.q
        BY <4>1, <4>2, Zenon DEF Become
      <4>4. Idle \in QueueState /\ Idle.kind = "Idle"
        BY DEF Idle, State, QueueState, Kinds
      <4> QED BY <4>2, <4>3, <4>4, RedrawKinds
    <3>2. CASE ~(queue.redraw \/ animations)
      <4>1. queue' = Idle
        BY <1>9, <3>2, Zenon DEF OnVBlank
      <4> QED BY <3>2, <4>1 DEF Idle, State, RedrawNeeded
    <3> QED BY <3>1, <3>2
  <2>3. /\ Waits(queue.kind) = "vblank" /\ Waits(queue'.kind) = "nothing"
        /\ RedrawNeeded' = FALSE
        /\ Renders(queue'.kind) \in BOOLEAN
        /\ RedrawNeeded => Renders(queue'.kind)
    BY <2>1, <2>2 DEF Waits, Renders, RedrawNeeded
  <2>4. Loop!Presented
    BY <2>1, <2>3, MappedStep DEF Loop!Presented
  <2> QED BY <2>4, MappedStep DEF Loop!Next
<1> QED BY <1>1, <1>2, <1>3, <1>4, <1>5, <1>6, <1>7, <1>8, <1>9, Zenon DEF Command

\* A timer armed as a render is the one of a queue state that has one, and
\* the thread then has a compositor and does not wait for a VBlank.
LEMMA RenderFiresKind ==
  ASSUME SurfaceInv, NEW t \in Tokens, timers[t] = "render"
  PROVE  queue.kind \in {"Queued", "WaitingForEstimatedVBlankAndQueued"}
BY TokensAssumption
   DEF SurfaceInv, TimersMatchState, Matches, Armed, WellFormed

\* A failed redraw is a step of the abstract loop.
LEMMA RedrawFailsRefines ==
  ASSUME SurfaceInv, SurfaceInv', NEW t \in Tokens,
         NEW acquired \in BOOLEAN, RedrawFails(t, acquired)
  PROVE  Loop!Next
<1>1. comp' = comp
  BY Zenon DEF RedrawFails
<1>2. queue.kind \in {"Queued", "WaitingForEstimatedVBlankAndQueued"}
  BY RenderFiresKind, Zenon DEF RedrawFails
<1>3. PICK r : r = QueueRedraw(TRUE, queue, timers)
  OBVIOUS
<1>4. queue' = r.q
  BY <1>3, Zenon DEF RedrawFails
<1>5. queue \in QueueState
  BY DEF SurfaceInv, TypeOK
<1>6. queue'.kind = queue.kind
  BY <1>2, <1>3, <1>4, <1>5, RedrawKinds
<1>7. RedrawNeeded = FALSE /\ RedrawNeeded' = FALSE
  BY <1>2, <1>6 DEF RedrawNeeded
<1>8. Loop!Tell
  BY <1>1, <1>6, <1>7, MappedStep DEF Loop!Tell
<1> QED BY <1>8, MappedStep DEF Loop!Next

\* A redraw that submits is a step of the abstract loop.
LEMMA RedrawSubmitsRefines ==
  ASSUME SurfaceInv, SurfaceInv', NEW t \in Tokens,
         NEW cleanup \in BOOLEAN, RedrawSubmits(t, cleanup)
  PROVE  Loop!Next
<1>1. comp /\ comp' = comp
  BY Zenon DEF RedrawSubmits
<1>2. queue.kind \in {"Queued", "WaitingForEstimatedVBlankAndQueued"}
  BY RenderFiresKind, Zenon DEF RedrawSubmits
<1>3. queue' = WaitingForVBlank(~cleanup)
  BY Zenon DEF RedrawSubmits
<1>4. queue'.kind = "WaitingForVBlank"
  BY <1>3 DEF WaitingForVBlank, State
<1>5. /\ Waits(queue.kind) # "vblank" /\ Renders(queue.kind) = TRUE
      /\ Waits(queue'.kind) = "vblank" /\ Renders(queue'.kind) = FALSE
  BY <1>2, <1>4 DEF Waits, Renders
<1>6. Loop!Submit
  BY <1>1, <1>5, MappedStep DEF Loop!Submit
<1> QED BY <1>6, MappedStep DEF Loop!Next

\* A redraw without damage is a step of the abstract loop.
LEMMA RedrawEmptyRefines ==
  ASSUME SurfaceInv, SurfaceInv', NEW t \in Tokens, NEW force \in BOOLEAN,
         NEW cleanup \in BOOLEAN, RedrawEmpty(t, force, cleanup)
  PROVE  Loop!Next
<1> DEFINE e == IF queue.est # NoToken THEN queue.est
                ELSE CHOOSE x \in Free : TRUE
           tm == [timers EXCEPT ![e] = IF queue.est # NoToken THEN @
                                       ELSE IF force THEN "estimatedForce"
                                       ELSE "estimated"]
           q == WaitingForEstimatedVBlank(e)
           r == IF cleanup THEN [q |-> q, tm |-> tm]
                ELSE QueueRedraw(TRUE, q, tm)
<1>1. comp /\ comp' = comp
  BY Zenon DEF RedrawEmpty
<1>2. queue.kind \in {"Queued", "WaitingForEstimatedVBlankAndQueued"}
  BY RenderFiresKind, Zenon DEF RedrawEmpty
<1>3. queue' = r.q
  BY Zenon DEF RedrawEmpty
<1>4. queue'.kind \in {"WaitingForEstimatedVBlank",
                       "WaitingForEstimatedVBlankAndQueued"}
  <2> HIDE DEF e, tm
  <2>1. q.kind = "WaitingForEstimatedVBlank"
    BY DEF WaitingForEstimatedVBlank, State
  <2>2. CASE cleanup
    BY <1>3, <2>1, <2>2
  <2>3. CASE ~cleanup
    BY <1>3, <2>1, <2>3
       DEF QueueRedraw, WaitingForEstimatedVBlankAndQueued, State
  <2> QED BY <2>2, <2>3
<1>5. /\ Waits(queue.kind) # "vblank" /\ Renders(queue.kind) = TRUE
      /\ Waits(queue'.kind) = "estimate" /\ Renders(queue'.kind) \in BOOLEAN
      /\ RedrawNeeded = FALSE /\ RedrawNeeded' = FALSE
  BY <1>2, <1>4 DEF Waits, Renders, RedrawNeeded
<1>6. Loop!Skip
  BY <1>1, <1>5, MappedStep DEF Loop!Skip
<1> QED BY <1>6, MappedStep DEF Loop!Next

\* An estimated vblank is a step of the abstract loop.
LEMMA OnEstimatedVBlankRefines ==
  ASSUME SurfaceInv, SurfaceInv', NEW t \in Tokens,
         NEW animations \in BOOLEAN, OnEstimatedVBlank(t, animations)
  PROVE  Loop!Next
<1> DEFINE fired == [timers EXCEPT ![t] = "free"]
<1>1. comp' = comp
  BY Zenon DEF OnEstimatedVBlank
<1>2. queue.kind \in {"WaitingForEstimatedVBlank",
                      "WaitingForEstimatedVBlankAndQueued"}
  <2>1. timers[t] \in {"estimated", "estimatedForce"}
    BY Zenon DEF OnEstimatedVBlank
  <2>2. Armed(queue, timers) /\ WellFormed(queue)
    BY Zenon DEF SurfaceInv, TimersMatchState, Matches
  <2>3. queue.est = t
    BY <2>1, <2>2, Zenon DEF Armed
  <2> QED BY <2>2, <2>3, TokensAssumption, Zenon DEF WellFormed
<1>3. /\ queue'.kind \in {"Idle", "Queued"}
      /\ queue.kind = "WaitingForEstimatedVBlankAndQueued"
           => queue'.kind = "Queued"
  <2>1. CASE queue' = Queued(queue.render)
    BY <2>1 DEF Queued, State
  <2>2. CASE queue' = Idle /\ queue.kind # "WaitingForEstimatedVBlankAndQueued"
    BY <2>2 DEF Idle, State
  <2>3. CASE /\ Become(QueueRedraw(FALSE, Idle, fired))
             /\ queue.kind # "WaitingForEstimatedVBlankAndQueued"
    <3>1. PICK r : r = QueueRedraw(FALSE, Idle, fired)
      OBVIOUS
    <3>2. queue' = r.q
      BY <2>3, <3>1, Zenon DEF Become
    <3>3. Idle \in QueueState /\ Idle.kind = "Idle"
      BY DEF Idle, State, QueueState, Kinds
    <3> HIDE DEF fired
    <3> QED BY <2>3, <3>1, <3>2, <3>3, RedrawKinds
  <2> QED BY <2>1, <2>2, <2>3, Zenon DEF OnEstimatedVBlank
<1>4. /\ Waits(queue.kind) = "estimate" /\ Waits(queue'.kind) = "nothing"
      /\ Renders(queue'.kind) \in BOOLEAN
      /\ Renders(queue.kind) => Renders(queue'.kind)
      /\ RedrawNeeded = FALSE /\ RedrawNeeded' = FALSE
  BY <1>2, <1>3 DEF Waits, Renders, RedrawNeeded
<1>5. Loop!Estimated
  BY <1>1, <1>4, MappedStep DEF Loop!Estimated
<1> QED BY <1>5, MappedStep DEF Loop!Next

\* The main thread and the kernel touch neither the compositor nor the queue.
LEMMA OutsideRefines ==
  ASSUME SurfaceInv, SurfaceInv', MainStep \/ FlipDone
  PROVE  Loop!Next
<1>1. UNCHANGED threadVars
  BY Zenon DEF MainStep, FlipDone, ScheduleRender, StartupDone, Resume,
     SuspendCall, NodeCall, SetMirroring, SetDpms, DropSurface, Joined,
     ReadVBlank
<1>2. queue' = queue /\ comp' = comp
  BY <1>1 DEF threadVars
<1> QED BY <1>2, QuietStep

-----------------------------------------------------------------------------
\* For every set of timer registrations and every bound, the surface thread
\* implements the frame loop the comments of QueueState describe: it never
\* submits a frame while another is awaited and never forgets a redraw asked
\* for meanwhile, whatever is blanked, fails or arrives late.
THEOREM Refinement == Spec => ImplementsFrameLoop
<1>1. Init => Loop!Init
  <2> SUFFICES ASSUME Init PROVE Loop!Init
    OBVIOUS
  <2>1. /\ comp = FALSE /\ cmds = <<>> /\ queue = Idle
        /\ timers = [t \in Tokens |-> "free"]
    BY Zenon DEF Init
  <2>2. Awaited = "nothing" /\ ~RenderArmed /\ ~RedrawNeeded /\ ~Darkening
    BY <2>1 DEF Awaited, RenderArmed, RedrawNeeded, Darkening, Idle, State
  <2> QED BY <2>1, <2>2 DEF Loop!Init
<1>2. ASSUME SurfaceInv, SurfaceInv', [Next]_vars
      PROVE  [Loop!Next]_(Loop!vars)
  <2>1. CASE MainStep \/ FlipDone
    BY <1>2, <2>1, OutsideRefines
  <2>2. CASE Command
    BY <1>2, <2>2, CommandRefines
  <2>3. ASSUME NEW t \in Tokens, Timeout(t) PROVE Loop!Next
    BY <1>2, <2>3, RedrawFailsRefines, RedrawSubmitsRefines,
       RedrawEmptyRefines, OnEstimatedVBlankRefines, Zenon DEF Timeout
  <2>4. CASE UNCHANGED vars
    BY <2>4 DEF vars, threadVars, Loop!vars, Darkening, Awaited,
       RedrawNeeded, RenderArmed
  <2> QED BY <1>2, <2>1, <2>2, <2>3, <2>4, Zenon DEF Next, ThreadStep
<1>3. Spec => []SurfaceInv
  <2>1. TypeOK /\ TimersMatchState /\ SubmittedBeforePresented => SurfaceInv
    BY DEF SurfaceInv
  <2> QED BY <2>1, SurfaceInvariant, PTL
<1> QED BY <1>1, <1>2, <1>3, PTL DEF Spec, ImplementsFrameLoop, Loop!Spec
=============================================================================
