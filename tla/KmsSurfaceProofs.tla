--------------------------- MODULE KmsSurfaceProofs ---------------------------
(***************************************************************************)
(* Theorems about KmsSurface: for any number of timer registrations and    *)
(* any bounds, the surface thread's timers match its queue state, the      *)
(* frame it awaits was marked submitted and its VBlank is under way, and   *)
(* the flags it shares with the main thread agree with it up to the        *)
(* commands that are still in the channel.                                 *)
(***************************************************************************)
EXTENDS KmsSurface, TLAPS

\* The inductive invariant: the timers decide which callbacks can fire, so
\* none of its parts is inductive without the others.
SurfaceInv == TypeOK /\ TimersMatchState /\ SubmittedBeforePresented

\* The registrations armed for q, at most two, leave a free one: what
\* queue_redraw and queue_estimated_vblank choose exists.
LEMMA FreeToken ==
  ASSUME NEW q \in QueueState, NEW tm \in [Tokens -> TimerStates], Matches(q, tm)
  PROVE  \E x \in Tokens : tm[x] = "free"
<1>1. PICK u \in Tokens : u # q.render /\ u # q.est
  BY TokensAssumption DEF QueueState
<1>2. tm[u] = "free"
  BY <1>1 DEF Matches, Armed, TimerStates
<1> QED BY <1>2

\* queue_redraw leaves matching timers, waits for a VBlank only if it already
\* did, and when forced removes the render it replaces.
LEMMA QueueRedrawMatches ==
  ASSUME NEW force \in BOOLEAN, NEW q \in QueueState,
         NEW tm \in [Tokens -> TimerStates], Matches(q, tm),
         NEW r, r = QueueRedraw(force, q, tm)
  PROVE  /\ r.q \in QueueState
         /\ r.tm \in [Tokens -> TimerStates]
         /\ Matches(r.q, r.tm)
         /\ r.q.kind = "WaitingForVBlank" => q.kind = "WaitingForVBlank"
         /\ q.kind \in {"Queued", "WaitingForEstimatedVBlankAndQueued"} /\ force
              => r.tm[q.render] = "free"
<1> DEFINE t == CHOOSE x \in Tokens : tm[x] = "free"
           armed == [tm EXCEPT ![t] = "render"]
           replaced == [armed EXCEPT ![q.render] = "free"]
<1>1. t \in Tokens /\ tm[t] = "free"
  BY FreeToken
<1>2. t # NoToken /\ t # q.render /\ t # q.est
  BY <1>1, TokensAssumption DEF Matches, Armed
<1>3. armed \in [Tokens -> TimerStates] /\ replaced \in [Tokens -> TimerStates]
  BY <1>1 DEF TimerStates
<1>4. CASE q.kind = "WaitingForVBlank"
  <2>1. r = [q |-> WaitingForVBlank(TRUE), tm |-> tm]
    BY <1>4 DEF QueueRedraw
  <2>2. /\ r.q \in QueueState /\ r.q.kind = q.kind
        /\ r.q.render = q.render /\ r.q.est = q.est
    BY <2>1, <1>4 DEF QueueState, WaitingForVBlank, State, Matches, WellFormed
  <2>3. r.tm = tm
    BY <2>1
  <2>4. Armed(r.q, r.tm)
    BY <2>2, <2>3 DEF Matches, Armed
  <2>5. WellFormed(r.q)
    BY <2>2 DEF Matches, WellFormed
  <2> QED BY <2>2, <2>3, <2>4, <2>5, <1>4 DEF Matches
<1>5. CASE q.kind = "Idle"
  <2>1. r = [q |-> Queued(t), tm |-> armed]
    BY <1>5 DEF QueueRedraw
  <2> HIDE DEF t
  <2>2. q.render = NoToken /\ q.est = NoToken
    BY <1>5 DEF Matches, WellFormed, QueueState
  <2>3. /\ r.q \in QueueState /\ r.q.kind = "Queued"
        /\ r.q.render = t /\ r.q.est = NoToken
    BY <2>1, <2>2, <1>1 DEF QueueState, Queued, State, Kinds
  <2>4. /\ r.tm \in [Tokens -> TimerStates]
        /\ \A x \in Tokens :
             r.tm[x] = IF x = t THEN "render" ELSE tm[x]
    BY <2>1, <1>3
  <2> HIDE DEF armed, replaced
  <2>5. Armed(r.q, r.tm)
    <3> SUFFICES ASSUME NEW x \in Tokens
                 PROVE  /\ r.tm[x] = "render" <=> t = x
                        /\ r.tm[x] \in {"estimated", "estimatedForce"} <=> NoToken = x
      BY <2>3 DEF Armed
    <3>1. /\ tm[x] = "render" <=> q.render = x
          /\ tm[x] \in {"estimated", "estimatedForce"} <=> q.est = x
      BY DEF Matches, Armed
    <3>2. CASE x = t
      BY <3>1, <3>2, <2>2, <2>4, <1>2, TokensAssumption
    <3>3. CASE x # t
      BY <3>1, <3>3, <2>2, <2>4, TokensAssumption
    <3> QED BY <3>2, <3>3
  <2>6. WellFormed(r.q)
    BY <2>2, <2>3, <1>1, TokensAssumption DEF WellFormed
  <2> QED BY <2>3, <2>4, <2>5, <2>6, <1>2, <1>5 DEF Matches
<1>6. CASE q.kind = "WaitingForEstimatedVBlank"
  <2>1. r = [q |-> WaitingForEstimatedVBlankAndQueued(q.est, t), tm |-> armed]
    BY <1>6 DEF QueueRedraw
  <2> HIDE DEF t
  <2>2. q.render = NoToken /\ q.est \in Tokens
    BY <1>6 DEF Matches, WellFormed, QueueState
  <2>3. /\ r.q \in QueueState /\ r.q.kind = "WaitingForEstimatedVBlankAndQueued"
        /\ r.q.render = t /\ r.q.est = q.est
    BY <2>1, <2>2, <1>1 DEF QueueState, WaitingForEstimatedVBlankAndQueued, State, Kinds
  <2>4. /\ r.tm \in [Tokens -> TimerStates]
        /\ \A x \in Tokens :
             r.tm[x] = IF x = t THEN "render" ELSE tm[x]
    BY <2>1, <1>3
  <2> HIDE DEF armed, replaced
  <2>5. Armed(r.q, r.tm)
    <3> SUFFICES ASSUME NEW x \in Tokens
                 PROVE  /\ r.tm[x] = "render" <=> t = x
                        /\ r.tm[x] \in {"estimated", "estimatedForce"} <=> q.est = x
      BY <2>3 DEF Armed
    <3>1. /\ tm[x] = "render" <=> q.render = x
          /\ tm[x] \in {"estimated", "estimatedForce"} <=> q.est = x
      BY DEF Matches, Armed
    <3>2. CASE x = t
      BY <3>1, <3>2, <2>2, <2>4, <1>2, TokensAssumption
    <3>3. CASE x # t
      BY <3>1, <3>3, <2>2, <2>4, TokensAssumption
    <3> QED BY <3>2, <3>3
  <2>6. WellFormed(r.q)
    BY <2>2, <2>3, <1>1, TokensAssumption DEF WellFormed
  <2> QED BY <2>3, <2>4, <2>5, <2>6, <1>2, <1>6 DEF Matches
<1>7. CASE q.kind \in {"Queued", "WaitingForEstimatedVBlankAndQueued"} /\ ~force
  <2>1. r = [q |-> q, tm |-> tm]
    BY <1>7 DEF QueueRedraw
  <2> QED BY <2>1, <1>7
<1>8. CASE q.kind = "Queued" /\ force
  <2>1. r = [q |-> Queued(t), tm |-> replaced]
    BY <1>8 DEF QueueRedraw
  <2> HIDE DEF t
  <2>2. q.render \in Tokens /\ q.est = NoToken
    BY <1>8 DEF Matches, WellFormed, QueueState
  <2>3. /\ r.q \in QueueState /\ r.q.kind = "Queued"
        /\ r.q.render = t /\ r.q.est = NoToken
    BY <2>1, <2>2, <1>1 DEF QueueState, Queued, State, Kinds
  <2>4. /\ r.tm \in [Tokens -> TimerStates]
        /\ \A x \in Tokens :
             r.tm[x] = IF x = q.render THEN "free"
                       ELSE IF x = t THEN "render" ELSE tm[x]
    BY <2>1, <1>3
  <2> HIDE DEF armed, replaced
  <2>5. Armed(r.q, r.tm)
    <3> SUFFICES ASSUME NEW x \in Tokens
                 PROVE  /\ r.tm[x] = "render" <=> t = x
                        /\ r.tm[x] \in {"estimated", "estimatedForce"} <=> NoToken = x
      BY <2>3 DEF Armed
    <3>1. /\ tm[x] = "render" <=> q.render = x
          /\ tm[x] \in {"estimated", "estimatedForce"} <=> q.est = x
      BY DEF Matches, Armed
    <3>2. CASE x = t
      BY <3>1, <3>2, <2>2, <2>4, <1>2, TokensAssumption
    <3>3. CASE x = q.render
      BY <3>1, <3>3, <2>2, <2>4, <1>2, TokensAssumption
    <3>4. CASE x # t /\ x # q.render
      BY <3>1, <3>4, <2>2, <2>4, TokensAssumption
    <3> QED BY <3>2, <3>3, <3>4
  <2>6. WellFormed(r.q)
    BY <2>2, <2>3, <1>1, TokensAssumption DEF WellFormed
  <2> QED BY <2>2, <2>3, <2>4, <2>5, <2>6, <1>8 DEF Matches
<1>9. CASE q.kind = "WaitingForEstimatedVBlankAndQueued" /\ force
  <2>1. r = [q |-> WaitingForEstimatedVBlankAndQueued(q.est, t), tm |-> replaced]
    BY <1>9 DEF QueueRedraw
  <2> HIDE DEF t
  <2>2. q.render \in Tokens /\ q.est \in Tokens
    BY <1>9 DEF Matches, WellFormed, QueueState
  <2>3. /\ r.q \in QueueState /\ r.q.kind = "WaitingForEstimatedVBlankAndQueued"
        /\ r.q.render = t /\ r.q.est = q.est
    BY <2>1, <2>2, <1>1 DEF QueueState, WaitingForEstimatedVBlankAndQueued, State, Kinds
  <2>4. /\ r.tm \in [Tokens -> TimerStates]
        /\ \A x \in Tokens :
             r.tm[x] = IF x = q.render THEN "free"
                       ELSE IF x = t THEN "render" ELSE tm[x]
    BY <2>1, <1>3
  <2> HIDE DEF armed, replaced
  <2>5. Armed(r.q, r.tm)
    <3>1. q.render # q.est
      BY <2>2 DEF Matches, Armed
    <3> SUFFICES ASSUME NEW x \in Tokens
                 PROVE  /\ r.tm[x] = "render" <=> x = t
                        /\ r.tm[x] \in {"estimated", "estimatedForce"} <=> x = q.est
      BY <2>3 DEF Armed
    <3>2. CASE x = t
      BY <3>2, <2>4, <1>2
    <3>3. CASE x = q.render
      BY <3>1, <3>3, <2>4, <1>2
    <3>4. CASE x # t /\ x # q.render
      BY <3>4, <2>4 DEF Matches, Armed
    <3> QED BY <3>2, <3>3, <3>4
  <2>6. WellFormed(r.q)
    BY <2>2, <2>3, <1>1, TokensAssumption DEF WellFormed
  <2> QED BY <2>2, <2>3, <2>4, <2>5, <2>6, <1>9 DEF Matches
<1> QED BY <1>4, <1>5, <1>6, <1>7, <1>8, <1>9 DEF QueueState, Kinds

-----------------------------------------------------------------------------
\* The main thread touches no variable of the surface thread.
LEMMA MainStepInv == SurfaceInv /\ MainStep => SurfaceInv'
<1> SUFFICES ASSUME SurfaceInv, MainStep PROVE SurfaceInv'
  OBVIOUS
<1> USE DEF SurfaceInv
<1>1. UNCHANGED threadVars
  BY DEF MainStep, ScheduleRender, StartupDone, Resume, SuspendCall, NodeCall,
         SetMirroring, SetDpms, DropSurface, Joined, ReadVBlank, threadVars
<1>2. TimersMatchState' /\ SubmittedBeforePresented'
  BY <1>1 DEF TimersMatchState, SubmittedBeforePresented, Matches, Armed,
              WellFormed, threadVars, Idle, State
<1>3. cmds' \in Seq(Commands)
  <2>1. \A c \in Commands : <<c>> \in Seq(Commands)
    OBVIOUS
  <2>2. <<"Resume", "ScheduleRender">> \in Seq(Commands)
    BY DEF Commands
  <2>3. ASSUME NEW s \in Seq(Commands), Send(s) PROVE cmds' \in Seq(Commands)
    BY <2>3 DEF Send, TypeOK
  <2> QED BY <2>1, <2>2, <2>3
          DEF MainStep, ScheduleRender, StartupDone, Resume, SuspendCall, NodeCall,
              SetMirroring, SetDpms, DropSurface, Joined, ReadVBlank, TypeOK, Commands
<1>4. events' \in Nat /\ flip' = flip
  <2>1. CASE ReadVBlank
    <3>1. events > 0 /\ events' = events - 1 /\ flip' = flip
      BY <2>1, Zenon DEF ReadVBlank
    <3> QED BY <3>1 DEF TypeOK
  <2>2. CASE ~ReadVBlank
    <3>1. UNCHANGED kernelVars
      BY <2>2, Zenon DEF MainStep, ScheduleRender, StartupDone, Resume, SuspendCall,
         NodeCall, SetMirroring, SetDpms, DropSurface, Joined
    <3> QED BY <3>1 DEF kernelVars, TypeOK
  <2> QED BY <2>1, <2>2
<1>5. mainpc' \in {"idle", "suspend", "node", "join", "gone"}
  BY DEF MainStep, ScheduleRender, StartupDone, Resume, SuspendCall, NodeCall,
         SetMirroring, SetDpms, DropSurface, Joined, ReadVBlank, TypeOK, mainVars
<1>6. active' \in BOOLEAN /\ startup' \in BOOLEAN /\ failures' = failures
  BY Zenon DEF MainStep, ScheduleRender, StartupDone, Resume, SuspendCall, NodeCall,
         SetMirroring, SetDpms, DropSurface, Joined, ReadVBlank, TypeOK, mainVars
<1>7. dpms' \in BOOLEAN
  BY Zenon DEF MainStep, ScheduleRender, StartupDone, Resume, SuspendCall, NodeCall,
         SetMirroring, SetDpms, DropSurface, Joined, ReadVBlank, TypeOK, mainVars
<1>8. damage' \in BOOLEAN
  BY Zenon DEF MainStep, ScheduleRender, StartupDone, Resume, SuspendCall, NodeCall,
         SetMirroring, SetDpms, DropSurface, Joined, ReadVBlank, TypeOK
<1>9. TypeOK'
  BY <1>1, <1>3, <1>4, <1>5, <1>6, <1>7, <1>8 DEF TypeOK, threadVars
<1> QED BY <1>2, <1>9

\* The kernel and Blank touch only the flip and its events.
LEMMA BlankType == ASSUME TypeOK, Blank PROVE flip' \in BOOLEAN /\ events' \in Nat
<1>1. flip' \in BOOLEAN
  BY Zenon DEF Blank
<1>2. events' = events \/ events' = events + 1
  BY Zenon DEF Blank
<1>3. events' \in Nat
  BY <1>2 DEF TypeOK
<1> QED BY <1>1, <1>3

\* The kernel completing a page flip keeps the invariant.
LEMMA FlipDoneInv == SurfaceInv /\ FlipDone => SurfaceInv'
<1> SUFFICES ASSUME SurfaceInv, FlipDone PROVE SurfaceInv'
  OBVIOUS
<1>1. /\ flip' \in BOOLEAN /\ damage' = damage
      /\ failures' = failures /\ cmds' = cmds
      /\ UNCHANGED mainVars /\ UNCHANGED threadVars
  BY Zenon DEF FlipDone
<1>2. events' = events + 1
  BY Zenon DEF FlipDone
<1>3. events' \in Nat
  BY <1>2 DEF SurfaceInv, TypeOK
<1>4. TypeOK'
  BY <1>1, <1>3 DEF SurfaceInv, TypeOK, mainVars, threadVars
<1>5. TimersMatchState' /\ SubmittedBeforePresented'
  BY <1>1 DEF SurfaceInv, TimersMatchState, Matches, Armed, WellFormed,
              SubmittedBeforePresented, threadVars, Idle, State
<1> QED BY <1>4, <1>5 DEF SurfaceInv

\* A command leaves a sequence of commands.
LEMMA ReceiveType == ASSUME TypeOK, NEW c, Receive(c) PROVE cmds' \in Seq(Commands)
BY DEF Receive, TypeOK

\* Abandoning the state removes the timers it named, which were all.
LEMMA AbandonMatches ==
  ASSUME TypeOK, Matches(queue, timers), Abandon
  PROVE  /\ queue' \in QueueState /\ queue' = Idle
         /\ timers' \in [Tokens -> TimerStates]
         /\ Matches(Idle, timers')
<1>1. timers' = [t \in Tokens |-> IF t \in {queue.render, queue.est} THEN "free"
                                 ELSE timers[t]]
  BY DEF Abandon, Removed
<1>2. timers' \in [Tokens -> TimerStates]
  BY <1>1 DEF TypeOK, TimerStates
<1>3. queue' = Idle /\ Idle \in QueueState
  BY DEF Abandon, Idle, State, QueueState, Kinds
<1>4. \A t \in Tokens : timers'[t] \notin {"render", "estimated", "estimatedForce"}
  BY <1>1 DEF Matches, Armed
<1>5. Matches(Idle, timers')
  BY <1>4, TokensAssumption DEF Matches, Armed, WellFormed, Idle, State
<1> QED BY <1>2, <1>3, <1>5

-----------------------------------------------------------------------------
\* SurfaceInv, divided into what each command and timer has to establish.
Scalars ==
  /\ mainpc \in {"idle", "suspend", "node", "join", "gone"}
  /\ active \in BOOLEAN /\ dpms \in BOOLEAN /\ startup \in BOOLEAN
  /\ cmds \in Seq(Commands)
  /\ running \in BOOLEAN /\ comp \in BOOLEAN
  /\ frame \in {"none", "rendering", "submitted"}
  /\ feedback \in BOOLEAN /\ mirroring \in BOOLEAN
  /\ flip \in BOOLEAN /\ events \in Nat
  /\ damage \in BOOLEAN /\ failures \in Nat

Timers ==
  /\ queue \in QueueState
  /\ timers \in [Tokens -> TimerStates]
  /\ Matches(queue, timers)

\* The parts of the invariant, shown one by one after a step, make it up again.
LEMMA SurfaceInvNext ==
  ASSUME Scalars', Timers', comp' \/ queue' = Idle, SubmittedBeforePresented'
  PROVE  SurfaceInv'
BY Zenon DEF SurfaceInv, TypeOK, TimersMatchState, Scalars, Timers, Idle, State

\* Suspending drops the compositor and cancels both timers, so the state is idle.
LEMMA OnSuspendInv == SurfaceInv /\ OnSuspend => SurfaceInv'
<1> SUFFICES ASSUME SurfaceInv, OnSuspend PROVE SurfaceInv'
  OBVIOUS
<1> USE DEF SurfaceInv
<1>1. Timers' /\ queue' = Idle
  BY AbandonMatches, Zenon DEF OnSuspend, Timers, TimersMatchState
<1>2. cmds' \in Seq(Commands)
  BY ReceiveType, Zenon DEF OnSuspend
<1>3. flip' \in BOOLEAN /\ events' \in Nat
  BY BlankType, Zenon DEF OnSuspend, TypeOK, kernelVars
<1>4. frame' \in {"none", "rendering", "submitted"}
  BY DEF OnSuspend, DiscardFrame, TypeOK
<1>5. mainpc' \in {"idle", "suspend", "node", "join", "gone"}
  BY DEF OnSuspend, TypeOK
<1>6. /\ active' \in BOOLEAN /\ comp' \in BOOLEAN
      /\ UNCHANGED <<dpms, startup, running, feedback, mirroring, damage, failures>>
  BY Zenon DEF OnSuspend
<1>7. Scalars'
  BY <1>2, <1>3, <1>4, <1>5, <1>6 DEF Scalars, TypeOK
<1>8. SubmittedBeforePresented'
  BY <1>1 DEF SubmittedBeforePresented, Idle, State
<1> QED BY <1>1, <1>7, <1>8, SurfaceInvNext

\* Switching the output off cancels both timers as a suspend does.
LEMMA OnDpmsOffInv == SurfaceInv /\ OnDpmsOff => SurfaceInv'
<1> SUFFICES ASSUME SurfaceInv, OnDpmsOff PROVE SurfaceInv'
  OBVIOUS
<1> USE DEF SurfaceInv
<1>1. Timers' /\ queue' = Idle
  <2>1. CASE comp
    BY <2>1, AbandonMatches, Zenon DEF OnDpmsOff, Timers, TimersMatchState
  <2>2. CASE ~comp
    BY <2>2, Zenon DEF OnDpmsOff, Timers, TimersMatchState, TypeOK
  <2> QED BY <2>1, <2>2
<1>2. cmds' \in Seq(Commands)
  BY ReceiveType, Zenon DEF OnDpmsOff
<1>3. flip' \in BOOLEAN /\ events' \in Nat
  BY BlankType, Zenon DEF OnDpmsOff, TypeOK, kernelVars
<1>4. frame' \in {"none", "rendering", "submitted"}
  BY DEF OnDpmsOff, DiscardFrame, TypeOK
<1>5. UNCHANGED <<mainVars, running, comp, feedback, mirroring, damage, failures>>
  BY Zenon DEF OnDpmsOff
<1>6. Scalars'
  BY <1>2, <1>3, <1>4, <1>5 DEF Scalars, TypeOK, mainVars
<1>7. SubmittedBeforePresented'
  BY <1>1 DEF SubmittedBeforePresented, Idle, State
<1> QED BY <1>1, <1>6, <1>7, SurfaceInvNext

\* Commands that leave the queue state and its timers alone.
LEMMA QuietCommandInv ==
  ASSUME SurfaceInv,
         \/ OnResume
         \/ \E c \in {"NodeAdded", "NodeRemoved"} : OnNode(c)
         \/ \E on \in BOOLEAN : OnMirroring(on)
  PROVE  SurfaceInv'
<1> USE DEF SurfaceInv
<1>1. UNCHANGED <<running, queue, timers, frame, feedback, kernelVars, damage,
                  failures, active, dpms, startup>>
  BY DEF OnResume, OnNode, OnMirroring, mainVars, threadVars
<1>2. cmds' \in Seq(Commands)
  BY ReceiveType, Zenon DEF OnResume, OnNode, OnMirroring
<1>3. mainpc' \in {"idle", "suspend", "node", "join", "gone"}
  BY DEF OnResume, OnNode, OnMirroring, mainVars, TypeOK
<1>4. comp' \in BOOLEAN /\ mirroring' \in BOOLEAN /\ (comp => comp')
  BY Zenon DEF OnResume, OnNode, OnMirroring, threadVars, TypeOK
<1>5. Scalars'
  BY <1>1, <1>2, <1>3, <1>4 DEF Scalars, TypeOK, kernelVars
<1>6. Timers' /\ (comp' \/ queue' = Idle)
  BY <1>1, <1>4, Zenon DEF Timers, TimersMatchState, TypeOK
<1>7. SubmittedBeforePresented'
  BY <1>1, Zenon DEF SubmittedBeforePresented
<1> QED BY <1>5, <1>6, <1>7, SurfaceInvNext

\* A scheduled render is queued with its timer, or left alone before startup.
LEMMA OnScheduleRenderInv == SurfaceInv /\ OnScheduleRender => SurfaceInv'
<1> SUFFICES ASSUME SurfaceInv, OnScheduleRender PROVE SurfaceInv'
  OBVIOUS
<1> USE DEF SurfaceInv
<1>1. UNCHANGED <<mainVars, running, comp, frame, feedback, mirroring, kernelVars,
                  damage, failures>>
  BY Zenon DEF OnScheduleRender
<1>2. cmds' \in Seq(Commands)
  BY ReceiveType, Zenon DEF OnScheduleRender
<1>3. Scalars'
  BY <1>1, <1>2 DEF Scalars, TypeOK, mainVars, kernelVars
<1>4. CASE startup /\ comp
  <2> DEFINE r == QueueRedraw(FALSE, queue, timers)
  <2>1. queue' = r.q /\ timers' = r.tm
    BY <1>4, Zenon DEF OnScheduleRender, Become
  <2>2. /\ r.q \in QueueState /\ r.tm \in [Tokens -> TimerStates]
        /\ Matches(r.q, r.tm)
        /\ r.q.kind = "WaitingForVBlank" => queue.kind = "WaitingForVBlank"
    <3> HIDE DEF r
    <3>1. r = QueueRedraw(FALSE, queue, timers)
      BY DEF r
    <3> QED BY <3>1, QueueRedrawMatches DEF TypeOK, TimersMatchState
  <2> HIDE DEF r
  <2>3. Timers' /\ comp'
    BY <2>1, <2>2, <1>1, <1>4, Zenon DEF Timers
  <2>4. SubmittedBeforePresented'
    BY <2>1, <2>2, <1>1 DEF SubmittedBeforePresented
  <2> QED BY <1>3, <2>3, <2>4, SurfaceInvNext
<1>5. CASE ~(startup /\ comp)
  <2>1. UNCHANGED <<queue, timers>>
    BY <1>5, Zenon DEF OnScheduleRender
  <2>2. Timers' /\ (comp' \/ queue' = Idle) /\ SubmittedBeforePresented'
    BY <2>1, <1>1, Zenon DEF Timers, TimersMatchState, TypeOK, SubmittedBeforePresented
  <2> QED BY <1>3, <2>2, SurfaceInvNext
<1> QED BY <1>4, <1>5

\* The thread's last command leaves an idle state and no timer.
LEMMA OnEndInv == SurfaceInv /\ OnEnd => SurfaceInv'
<1> SUFFICES ASSUME SurfaceInv, OnEnd PROVE SurfaceInv'
  OBVIOUS
<1> USE DEF SurfaceInv
<1>1. Timers' /\ queue' = Idle
  BY TokensAssumption DEF OnEnd, Timers, Idle, State, QueueState, Kinds, TimerStates,
     Matches, Armed, WellFormed
<1>2. cmds' \in Seq(Commands)
  BY ReceiveType, Zenon DEF OnEnd
<1>3. flip' \in BOOLEAN /\ events' \in Nat
  BY BlankType, Zenon DEF OnEnd, TypeOK, kernelVars
<1>4. /\ running' \in BOOLEAN /\ comp' \in BOOLEAN
      /\ UNCHANGED <<mainVars, frame, feedback, mirroring, damage, failures>>
  BY Zenon DEF OnEnd
<1>5. Scalars'
  BY <1>2, <1>3, <1>4 DEF Scalars, TypeOK, mainVars
<1>6. SubmittedBeforePresented'
  BY <1>1 DEF SubmittedBeforePresented, Idle, State
<1> QED BY <1>1, <1>5, <1>6, SurfaceInvNext

\* A vblank that none awaits abandons what was pending: the state is idle, no timer armed.
LEMMA OnLateVBlankInv == SurfaceInv /\ OnLateVBlank => SurfaceInv'
<1> SUFFICES ASSUME SurfaceInv, OnLateVBlank PROVE SurfaceInv'
  OBVIOUS
<1> USE DEF SurfaceInv
<1>1. Timers' /\ queue' = Idle
  <2>1. CASE comp
    BY <2>1, AbandonMatches, Zenon DEF OnLateVBlank, Timers, TimersMatchState
  <2>2. CASE ~comp
    BY <2>2, Zenon DEF OnLateVBlank, Timers, TimersMatchState, TypeOK
  <2> QED BY <2>1, <2>2
<1>2. cmds' \in Seq(Commands)
  BY ReceiveType, Zenon DEF OnLateVBlank
<1>3. UNCHANGED <<mainVars, running, comp, frame, feedback, mirroring, kernelVars,
                  damage, failures>>
  BY Zenon DEF OnLateVBlank
<1>4. Scalars'
  BY <1>2, <1>3 DEF Scalars, TypeOK, mainVars, kernelVars
<1>5. SubmittedBeforePresented'
  BY <1>1 DEF SubmittedBeforePresented, Idle, State
<1> QED BY <1>1, <1>4, <1>5, SurfaceInvNext

\* A redraw queued from Idle, with no timer armed, is Queued.
LEMMA RedrawFromIdle ==
  ASSUME NEW tm \in [Tokens -> TimerStates], Matches(Idle, tm),
         NEW r, r = QueueRedraw(FALSE, Idle, tm)
  PROVE  /\ r.q \in QueueState /\ r.tm \in [Tokens -> TimerStates]
         /\ Matches(r.q, r.tm)
         /\ r.q.kind # "WaitingForVBlank"
<1>1. Idle \in QueueState /\ Idle.kind # "WaitingForVBlank"
  BY DEF Idle, State, QueueState, Kinds
<1> QED BY <1>1, QueueRedrawMatches

\* An awaited vblank moves to idle or to a queued redraw, with the timer that state needs.
LEMMA OnVBlankInv ==
  ASSUME SurfaceInv, NEW animations \in BOOLEAN, OnVBlank(animations)
  PROVE  SurfaceInv'
<1> USE DEF SurfaceInv
<1>1. queue.kind = "WaitingForVBlank" /\ comp
  BY Zenon DEF OnVBlank
<1>2. UNCHANGED <<mainVars, running, comp, mirroring, kernelVars, damage, failures>>
  BY Zenon DEF OnVBlank
<1>3. cmds' \in Seq(Commands)
  BY ReceiveType, Zenon DEF OnVBlank
<1>4. frame' \in {"none", "rendering", "submitted"} /\ feedback' \in BOOLEAN
  BY DEF OnVBlank, TypeOK
<1>5. Scalars'
  BY <1>2, <1>3, <1>4 DEF Scalars, TypeOK, mainVars, kernelVars
<1>6. timers \in [Tokens -> TimerStates] /\ Matches(Idle, timers)
  BY <1>1 DEF TypeOK, TimersMatchState, Matches, Armed, WellFormed, Idle, State
<1>7. CASE queue.redraw \/ animations
  <2>1. PICK r : r = QueueRedraw(FALSE, Idle, timers)
    OBVIOUS
  <2>2. queue' = r.q /\ timers' = r.tm
    BY <1>7, <2>1, Zenon DEF OnVBlank, Become
  <2>3. Timers' /\ comp' /\ queue'.kind # "WaitingForVBlank"
    BY <2>1, <2>2, <1>1, <1>2, <1>6, RedrawFromIdle DEF Timers
  <2>4. SubmittedBeforePresented'
    BY <2>3 DEF SubmittedBeforePresented
  <2> QED BY <1>5, <2>3, <2>4, SurfaceInvNext
<1>8. CASE ~(queue.redraw \/ animations)
  <2>1. queue' = Idle /\ timers' = timers
    BY <1>8, Zenon DEF OnVBlank
  <2>2. Timers' /\ SubmittedBeforePresented'
    BY <2>1, <1>6 DEF Timers, Idle, State, QueueState, Kinds, SubmittedBeforePresented
  <2> QED BY <1>5, <2>1, <2>2, SurfaceInvNext
<1> QED BY <1>7, <1>8

\* Every command of the thread's channel keeps the invariant.
LEMMA CommandInv == SurfaceInv /\ Command => SurfaceInv'
BY OnSuspendInv, OnDpmsOffInv, QuietCommandInv, OnScheduleRenderInv, OnEndInv,
   OnLateVBlankInv, OnVBlankInv, Zenon DEF Command

-----------------------------------------------------------------------------
\* A render that fires is the one its state names, and there is a compositor.
LEMMA RenderFires ==
  ASSUME SurfaceInv, NEW t \in Tokens, timers[t] = "render"
  PROVE  /\ queue.render = t /\ queue.est # t
         /\ queue.kind \in {"Queued", "WaitingForEstimatedVBlankAndQueued"}
         /\ \A x \in Tokens : x # t /\ x # queue.est => timers[x] = "free"
         /\ t # NoToken
<1>1. queue.render = t /\ t # NoToken
  BY TokensAssumption DEF SurfaceInv, TimersMatchState, Matches, Armed
<1>2. queue.est # t
  BY DEF SurfaceInv, TimersMatchState, Matches, Armed
<1>3. queue.kind \in {"Queued", "WaitingForEstimatedVBlankAndQueued"}
  BY <1>1 DEF SurfaceInv, TimersMatchState, Matches, WellFormed
<1>4. \A x \in Tokens : x # t /\ x # queue.est => timers[x] = "free"
  BY <1>1 DEF SurfaceInv, TypeOK, TimersMatchState, Matches, Armed, TimerStates
<1> QED BY <1>1, <1>2, <1>3, <1>4

\* A redraw that fails frees its timer and leaves the state it found consistent.
LEMMA RedrawFailsInv ==
  ASSUME SurfaceInv, NEW t \in Tokens, NEW acquired \in BOOLEAN,
         RedrawFails(t, acquired)
  PROVE  SurfaceInv'
<1> USE DEF SurfaceInv
<1>1. timers[t] = "render" /\ comp
  BY Zenon DEF RedrawFails
<1>2. UNCHANGED <<mainVars, cmds, running, comp, feedback, mirroring, kernelVars,
                  damage>>
  BY Zenon DEF RedrawFails
<1>3. failures' = failures + 1
  BY Zenon DEF RedrawFails
<1>4. failures' \in Nat
  BY <1>3 DEF TypeOK
<1>5. frame' \in {"none", "rendering", "submitted"}
  BY DEF RedrawFails, TypeOK
<1>6. Scalars'
  BY <1>2, <1>4, <1>5 DEF Scalars, TypeOK, mainVars, kernelVars
<1>7. PICK r : r = QueueRedraw(TRUE, queue, timers)
  OBVIOUS
<1>8. queue' = r.q /\ timers' = [r.tm EXCEPT ![t] = "free"]
  BY <1>7, Zenon DEF RedrawFails
<1>9. /\ r.q \in QueueState /\ r.tm \in [Tokens -> TimerStates]
      /\ Matches(r.q, r.tm)
      /\ r.q.kind # "WaitingForVBlank"
      /\ r.tm[t] = "free"
  <2>1. /\ queue \in QueueState /\ timers \in [Tokens -> TimerStates]
        /\ Matches(queue, timers)
    BY DEF TypeOK, TimersMatchState
  <2>2. /\ queue.render = t
        /\ queue.kind \in {"Queued", "WaitingForEstimatedVBlankAndQueued"}
    BY <1>1, RenderFires
  <2> QED BY <2>1, <2>2, <1>7, QueueRedrawMatches
<1>10. timers' = r.tm
  BY <1>8, <1>9
<1>11. Timers' /\ comp' /\ SubmittedBeforePresented'
  BY <1>1, <1>2, <1>8, <1>9, <1>10 DEF Timers, SubmittedBeforePresented
<1> QED BY <1>6, <1>11, SurfaceInvNext

\* A redraw that submits a frame waits for a vblank and holds no timer.
LEMMA RedrawSubmitsInv ==
  ASSUME SurfaceInv, NEW t \in Tokens, NEW cleanup \in BOOLEAN,
         RedrawSubmits(t, cleanup)
  PROVE  SurfaceInv'
<1> USE DEF SurfaceInv
<1>1. timers[t] = "render" /\ comp
  BY Zenon DEF RedrawSubmits
<1>2. UNCHANGED <<mainVars, cmds, running, comp, mirroring, events>>
  BY Zenon DEF RedrawSubmits
<1>3. failures' = failures \/ failures' = failures + 1
  BY Zenon DEF RedrawSubmits
<1>4. failures' \in Nat
  BY <1>3 DEF TypeOK
<1>5. feedback' \in BOOLEAN /\ flip' \in BOOLEAN /\ damage' \in BOOLEAN
  BY Zenon DEF RedrawSubmits
<1>6. frame' = "submitted"
  BY Zenon DEF RedrawSubmits
<1>7. Scalars'
  BY <1>2, <1>4, <1>5, <1>6 DEF Scalars, TypeOK, mainVars
<1>8. queue' = WaitingForVBlank(~cleanup)
  BY Zenon DEF RedrawSubmits
<1>9. timers' = [x \in Tokens |-> IF x \in {t, queue.est} THEN "free" ELSE timers[x]]
  BY Zenon DEF RedrawSubmits, Removed
<1>10. \A x \in Tokens : timers'[x] = "free"
  BY <1>1, <1>9, RenderFires
<1>11. timers' \in [Tokens -> TimerStates]
  BY <1>9, <1>10 DEF TimerStates
<1>12. queue' \in QueueState /\ WellFormed(queue') /\ Armed(queue', timers')
  BY <1>8, <1>10, TokensAssumption
     DEF WaitingForVBlank, State, QueueState, Kinds, WellFormed, Armed
<1>13. Timers' /\ comp' /\ SubmittedBeforePresented'
  BY <1>1, <1>2, <1>6, <1>11, <1>12 DEF Timers, Matches, SubmittedBeforePresented
<1> QED BY <1>7, <1>13, SurfaceInvNext

\* What queue_estimated_vblank leaves while the render t is still in its
\* callback: its timer e, kept or fresh, and nothing else.
LEMMA RedrawEmptyInv ==
  ASSUME SurfaceInv, NEW t \in Tokens, NEW force \in BOOLEAN,
         NEW cleanup \in BOOLEAN, RedrawEmpty(t, force, cleanup)
  PROVE  SurfaceInv'
<1> DEFINE e == IF queue.est # NoToken THEN queue.est ELSE CHOOSE x \in Free : TRUE
           tm == [timers EXCEPT ![e] = IF queue.est # NoToken THEN @
                                       ELSE IF force THEN "estimatedForce"
                                       ELSE "estimated"]
           q == WaitingForEstimatedVBlank(e)
           r == IF cleanup THEN [q |-> q, tm |-> tm] ELSE QueueRedraw(TRUE, q, tm)
<1> USE DEF SurfaceInv
<1>1. timers[t] = "render" /\ comp
  BY Zenon DEF RedrawEmpty
<1>2. UNCHANGED <<mainVars, cmds, running, comp, feedback, mirroring, kernelVars>>
  BY Zenon DEF RedrawEmpty
<1>3. failures' = failures \/ failures' = failures + 1
  BY Zenon DEF RedrawEmpty
<1>4. failures' \in Nat
  BY <1>3 DEF TypeOK
<1>5. damage' \in BOOLEAN /\ frame' = "submitted"
  BY Zenon DEF RedrawEmpty
<1>6. Scalars'
  BY <1>2, <1>4, <1>5 DEF Scalars, TypeOK, mainVars, kernelVars
<1>7. queue' = r.q /\ timers' = [r.tm EXCEPT ![t] = "free"]
  BY Zenon DEF RedrawEmpty
<1>8. e \in Tokens /\ e # t /\ e # NoToken
  <2>1. CASE queue.est # NoToken
    BY <2>1, <1>1, RenderFires DEF TypeOK, QueueState
  <2>2. CASE queue.est = NoToken
    <3>1. \E x \in Free : TRUE
      BY FreeToken DEF Free, TypeOK, TimersMatchState
    <3>2. e \in Free
      BY <2>2, <3>1
    <3> QED BY <3>2, <1>1, TokensAssumption DEF Free
  <2> QED BY <2>1, <2>2
<1>9. /\ tm \in [Tokens -> TimerStates] /\ tm[t] = "render"
      /\ tm[e] \in {"estimated", "estimatedForce"}
      /\ \A x \in Tokens \ {t, e} : tm[x] = "free"
  <2> HIDE DEF e
  <2>1. CASE queue.est # NoToken
    <3>1. e = queue.est /\ timers[e] \in {"estimated", "estimatedForce"}
      BY <2>1, <1>8 DEF e, TimersMatchState, Matches, Armed
    <3> QED BY <2>1, <3>1, <1>1, <1>8, RenderFires DEF TypeOK
  <2>2. CASE queue.est = NoToken
    <3>1. CASE force
      <4>1. tm = [timers EXCEPT ![e] = "estimatedForce"]
        BY <2>2, <3>1, Zenon
      <4> HIDE DEF tm
      <4> QED BY <4>1, <2>2, <1>1, <1>8, RenderFires, TokensAssumption
              DEF TypeOK, TimerStates
    <3>2. CASE ~force
      <4>1. tm = [timers EXCEPT ![e] = "estimated"]
        BY <2>2, <3>2, Zenon
      <4> HIDE DEF tm
      <4> QED BY <4>1, <2>2, <1>1, <1>8, RenderFires, TokensAssumption
              DEF TypeOK, TimerStates
    <3> QED BY <3>1, <3>2
  <2> QED BY <2>1, <2>2
<1> HIDE DEF e, tm
<1>10. /\ q \in QueueState /\ q.kind = "WaitingForEstimatedVBlank"
       /\ q.render = NoToken /\ q.est = e
  BY <1>8 DEF WaitingForEstimatedVBlank, State, QueueState, Kinds
<1>11. CASE cleanup
  <2>1. queue' = q /\ timers' = [tm EXCEPT ![t] = "free"]
    BY <1>7, <1>11
  <2> HIDE DEF q
  <2>2. /\ timers' \in [Tokens -> TimerStates] /\ timers'[e] = tm[e]
        /\ \A x \in Tokens \ {e} : timers'[x] = "free"
    BY <2>1, <1>8, <1>9 DEF TimerStates
  <2>3. Armed(queue', timers') /\ WellFormed(queue')
    BY <2>1, <2>2, <1>8, <1>9, <1>10, TokensAssumption DEF Armed, WellFormed
  <2>4. Timers' /\ SubmittedBeforePresented'
    BY <2>1, <2>2, <2>3, <1>10 DEF Timers, Matches, SubmittedBeforePresented
  <2> QED BY <1>1, <1>2, <1>6, <2>4, SurfaceInvNext
<1>12. CASE ~cleanup
  <2> DEFINE u == CHOOSE x \in Tokens : tm[x] = "free"
             w == WaitingForEstimatedVBlankAndQueued(e, u)
  <2>1. r = [q |-> w, tm |-> [tm EXCEPT ![u] = "render"]]
    BY <1>10, <1>12 DEF QueueRedraw
  <2>2. u \in Tokens /\ tm[u] = "free"
    <3>1. PICK x \in Tokens : x # t /\ x # e
      BY <1>8, TokensAssumption
    <3>2. tm[x] = "free"
      BY <3>1, <1>9
    <3> QED BY <3>2
  <2> HIDE DEF u
  <2>3. u # t /\ u # e /\ u # NoToken
    BY <2>2, <1>9, TokensAssumption
  <2>4. queue' = w /\ timers' = [[tm EXCEPT ![u] = "render"] EXCEPT ![t] = "free"]
    <3> HIDE DEF r, w
    <3> QED BY <1>7, <2>1
  <2>5. /\ w \in QueueState /\ w.kind = "WaitingForEstimatedVBlankAndQueued"
        /\ w.render = u /\ w.est = e
    BY <1>8, <2>2 DEF WaitingForEstimatedVBlankAndQueued, State, QueueState, Kinds
  <2> HIDE DEF w, q, r
  <2>6. /\ timers' \in [Tokens -> TimerStates] /\ timers'[u] = "render"
        /\ timers'[e] = tm[e]
        /\ \A x \in Tokens \ {u, e} : timers'[x] = "free"
    BY <2>2, <2>3, <2>4, <1>8, <1>9 DEF TimerStates
  <2>7. Armed(queue', timers') /\ WellFormed(queue')
    BY <2>3, <2>4, <2>5, <2>6, <1>8, <1>9, TokensAssumption DEF Armed, WellFormed
  <2>8. Timers' /\ SubmittedBeforePresented'
    BY <2>4, <2>5, <2>6, <2>7 DEF Timers, Matches, SubmittedBeforePresented
  <2> QED BY <1>1, <1>2, <1>6, <2>8, SurfaceInvNext
<1> QED BY <1>11, <1>12

\* The estimated vblank's timer firing keeps the invariant.
LEMMA OnEstimatedVBlankInv ==
  ASSUME SurfaceInv, NEW t \in Tokens, NEW animations \in BOOLEAN,
         OnEstimatedVBlank(t, animations)
  PROVE  SurfaceInv'
<1> DEFINE fired == [timers EXCEPT ![t] = "free"]
<1> USE DEF SurfaceInv
<1>1. timers[t] \in {"estimated", "estimatedForce"}
  BY Zenon DEF OnEstimatedVBlank
<1>2. UNCHANGED <<mainVars, cmds, running, comp, frame, feedback, mirroring,
                  kernelVars, damage, failures>>
  BY Zenon DEF OnEstimatedVBlank
<1>3. Scalars'
  BY <1>2 DEF Scalars, TypeOK, mainVars, kernelVars
<1>4. /\ queue.est = t /\ t # NoToken /\ queue.render # t
      /\ queue.kind \in {"WaitingForEstimatedVBlank",
                         "WaitingForEstimatedVBlankAndQueued"}
  BY <1>1, TokensAssumption DEF TimersMatchState, Matches, Armed, WellFormed
<1>5. comp
  BY <1>4 DEF TimersMatchState, Idle, State
<1>6. /\ fired \in [Tokens -> TimerStates] /\ fired[t] = "free"
      /\ \A x \in Tokens \ {t} : fired[x] = timers[x]
  BY DEF TypeOK, TimerStates
<1>7. CASE queue.kind = "WaitingForEstimatedVBlankAndQueued"
  <2>1. queue' = Queued(queue.render) /\ timers' = fired
    BY <1>7, Zenon DEF OnEstimatedVBlank
  <2>2. queue.render \in Tokens
    BY <1>7 DEF TypeOK, QueueState, TimersMatchState, Matches, WellFormed
  <2>3. /\ queue' \in QueueState /\ queue'.kind = "Queued"
        /\ queue'.render = queue.render /\ queue'.est = NoToken
    BY <2>1, <2>2 DEF Queued, State, QueueState, Kinds
  <2> HIDE DEF fired
  <2>4. Armed(queue', timers') /\ WellFormed(queue')
    BY <2>1, <2>2, <2>3, <1>4, <1>6, TokensAssumption
       DEF TimersMatchState, Matches, Armed, WellFormed
  <2>5. Timers' /\ SubmittedBeforePresented'
    BY <2>1, <2>3, <2>4, <1>6 DEF Timers, Matches, SubmittedBeforePresented
  <2> QED BY <1>2, <1>3, <1>5, <2>5, SurfaceInvNext
<1>8. CASE queue.kind = "WaitingForEstimatedVBlank"
  <2>1. Matches(Idle, fired) /\ Idle \in QueueState
    <3>1. queue.render = NoToken
      BY <1>8 DEF TimersMatchState, Matches, WellFormed
    <3> HIDE DEF fired
    <3> QED BY <3>1, <1>4, <1>6, TokensAssumption
            DEF TimersMatchState, Matches, Armed, WellFormed, Idle, State, QueueState, Kinds
  <2>2. CASE queue' = Idle /\ timers' = fired
    <3>1. Timers' /\ SubmittedBeforePresented'
      BY <2>1, <2>2, <1>6 DEF Timers, SubmittedBeforePresented, Idle, State
    <3> QED BY <1>3, <2>2, <3>1, SurfaceInvNext
  <2>3. CASE Become(QueueRedraw(FALSE, Idle, fired))
    <3>1. PICK r : r = QueueRedraw(FALSE, Idle, fired)
      OBVIOUS
    <3>2. queue' = r.q /\ timers' = r.tm
      BY <2>3, <3>1, Zenon DEF Become
    <3>3. Timers' /\ SubmittedBeforePresented'
      BY <2>1, <3>1, <3>2, <1>6, RedrawFromIdle DEF Timers, SubmittedBeforePresented
    <3> QED BY <1>2, <1>3, <1>5, <3>3, SurfaceInvNext
  <2> QED BY <2>2, <2>3, <1>8, Zenon DEF OnEstimatedVBlank
<1> QED BY <1>4, <1>7, <1>8

\* Whatever the timer that fires stands for, the invariant is kept.
LEMMA TimeoutInv ==
  ASSUME SurfaceInv, NEW t \in Tokens, Timeout(t)
  PROVE  SurfaceInv'
BY RedrawFailsInv, RedrawSubmitsInv, RedrawEmptyInv, OnEstimatedVBlankInv, Zenon
   DEF Timeout

-----------------------------------------------------------------------------
\* The thread starts idle, with every timer free.
LEMMA SurfaceInvInit == Init => SurfaceInv
<1> SUFFICES ASSUME Init PROVE SurfaceInv
  OBVIOUS
<1>1. queue = Idle /\ timers = [t \in Tokens |-> "free"]
  BY Zenon DEF Init
<1>2. queue \in QueueState /\ timers \in [Tokens -> TimerStates]
  BY <1>1 DEF Idle, State, QueueState, Kinds, TimerStates
<1>3. TypeOK
  <2>1. cmds = <<>> /\ events = 0 /\ failures = 0
    BY Zenon DEF Init
  <2>2. cmds \in Seq(Commands) /\ events \in Nat /\ failures \in Nat
    BY <2>1
  <2> QED BY <1>2, <2>2, Zenon DEF Init, TypeOK
<1>4. TimersMatchState /\ SubmittedBeforePresented
  BY <1>1, TokensAssumption DEF TimersMatchState, SubmittedBeforePresented, Matches,
     Armed, WellFormed, Idle, State
<1> QED BY <1>3, <1>4 DEF SurfaceInv

\* Every step of the surface keeps the invariant.
LEMMA SurfaceInvNextStep == SurfaceInv /\ [Next]_vars => SurfaceInv'
<1>1. SurfaceInv /\ Next => SurfaceInv'
  BY MainStepInv, CommandInv, TimeoutInv, FlipDoneInv, Zenon DEF Next, ThreadStep
<1>2. SurfaceInv /\ UNCHANGED vars => SurfaceInv'
  BY DEF SurfaceInv, TypeOK, TimersMatchState, SubmittedBeforePresented, Matches,
     Armed, WellFormed, Idle, State, vars, mainVars, threadVars, kernelVars
<1> QED BY <1>1, <1>2

\* For every set of timer registrations, every channel, event and failure
\* bound: the variables keep their types, the timers armed in the event loop
\* are the ones the queue state names, and an awaited frame was submitted.
THEOREM SurfaceInvariant == Spec => [](TypeOK /\ TimersMatchState /\ SubmittedBeforePresented)
<1>1. Init => SurfaceInv
  BY SurfaceInvInit
<1>2. SurfaceInv /\ [Next]_vars => SurfaceInv'
  BY SurfaceInvNextStep
<1>3. SurfaceInv => TypeOK /\ TimersMatchState /\ SubmittedBeforePresented
  BY DEF SurfaceInv
<1> QED BY <1>1, <1>2, <1>3, PTL DEF Spec

\* No unreachable!() of the surface thread is reached: each callback finds the
\* queue state it was armed for.
THEOREM TimersAlwaysMatch == Spec => []TimersMatchState
BY SurfaceInvariant, PTL

\* Timings::presented never unwraps a missing submission time.
THEOREM AlwaysSubmittedBeforePresented == Spec => []SubmittedBeforePresented
BY SurfaceInvariant, PTL

-----------------------------------------------------------------------------
(* What the two threads share: the channel, the flags and the flips.         *)

\* A suspend is the last command there is, and the main thread waits for it.
SuspendWaits ==
  \A i \in 1 .. Len(cmds) :
    cmds[i] = "Suspend" => i = Len(cmds) /\ mainpc = "suspend"

\* The command to go dark is under way, and no render was asked for since.
DarkOnItsWay ==
  \E i \in 1 .. Len(cmds) :
    /\ cmds[i] = "DpmsOff"
    /\ \A j \in i + 1 .. Len(cmds) : cmds[j] # "ScheduleRender"

Dark == queue = Idle /\ ~flip

\* With DPMS off the thread is dark and nothing asks it to render, or it is
\* about to be.
Darkened ==
  ~dpms /\ running => DarkOnItsWay \/ (Dark /\ ~Contains(cmds, "ScheduleRender"))

FlipNeedsCompositor == flip => comp

SharedInv ==
  SuspendWaits /\ Darkened /\ FlipNeedsCompositor /\ ActiveAgrees /\ VBlankComes

\* With no DpmsOff on its way, the invariant says the dark output is idle.
LEMMA SharedInvSuffices == SharedInv => SharedFlagsAgree
<1> SUFFICES ASSUME SharedInv, ~dpms, running, ~Contains(cmds, "DpmsOff")
             PROVE  queue = Idle /\ ~flip
  BY DEF SharedInv, SharedFlagsAgree, DarkIsIdle
<1>1. ~DarkOnItsWay
  BY DEF DarkOnItsWay, Contains
<1> QED BY <1>1 DEF SharedInv, Darkened, Dark

\* The channel after one command was sent.
LEMMA SendAppends ==
  ASSUME TypeOK, NEW c \in Commands, Send(<<c>>)
  PROVE  /\ Len(cmds) \in Nat /\ Len(cmds') = Len(cmds) + 1
         /\ \A i \in 1 .. Len(cmds) : cmds'[i] = cmds[i]
         /\ cmds'[Len(cmds) + 1] = c
<1>1. cmds \in Seq(Commands) /\ cmds' = cmds \o <<c>>
  BY DEF TypeOK, Send
<1> QED BY <1>1

\* The channel after its first command was received.
LEMMA ReceiveShifts ==
  ASSUME TypeOK, NEW c, Receive(c)
  PROVE  /\ running /\ Len(cmds) \in Nat \ {0} /\ cmds[1] = c
         /\ Len(cmds') = Len(cmds) - 1
         /\ \A i \in 1 .. Len(cmds') : cmds'[i] = cmds[i + 1]
<1>1. cmds \in Seq(Commands) /\ cmds # <<>> /\ cmds' = Tail(cmds) /\ Head(cmds) = c /\ running
  BY DEF TypeOK, Receive
<1> QED BY <1>1

\* A call of the main thread that sends c: only Suspend makes it wait for one,
\* with DPMS off it asks for no render, and a flip's event becomes a VBlank.
LEMMA SendShared ==
  ASSUME SurfaceInv, SharedInv, MainIdle, NEW c \in Commands, Send(<<c>>),
         UNCHANGED <<threadVars, flip, active>>,
         c # "Resume", c = "Suspend" => mainpc' = "suspend",
         ~dpms' => c = "DpmsOff" \/ (~dpms /\ c # "ScheduleRender"),
         events' = events \/ c = "VBlank"
  PROVE  SharedInv'
<1> USE DEF SurfaceInv, SharedInv
<1>1. /\ Len(cmds) \in Nat /\ Len(cmds') = Len(cmds) + 1
      /\ \A i \in 1 .. Len(cmds) : cmds'[i] = cmds[i]
      /\ cmds'[Len(cmds) + 1] = c
  BY SendAppends
<1>2. \A i \in 1 .. Len(cmds) : cmds[i] # "Suspend"
  BY DEF SuspendWaits, MainIdle
<1>3. \A d : Contains(cmds', d) <=> Contains(cmds, d) \/ d = c
  BY <1>1 DEF Contains
<1>4. SuspendWaits'
  BY <1>1, <1>2 DEF SuspendWaits
<1>5. Darkened'
  <2> SUFFICES ASSUME ~dpms', running'
               PROVE  DarkOnItsWay' \/ (Dark' /\ ~Contains(cmds', "ScheduleRender"))
    BY DEF Darkened
  <2>1. CASE c = "DpmsOff"
    BY <1>1, <2>1 DEF DarkOnItsWay
  <2>2. CASE ~dpms /\ c # "ScheduleRender" /\ DarkOnItsWay
    <3>1. PICK i \in 1 .. Len(cmds) :
            cmds[i] = "DpmsOff" /\ \A j \in i + 1 .. Len(cmds) : cmds[j] # "ScheduleRender"
      BY <2>2 DEF DarkOnItsWay
    <3>2. \A j \in i + 1 .. Len(cmds') : cmds'[j] # "ScheduleRender"
      BY <1>1, <2>2, <3>1
    <3> QED BY <1>1, <3>1, <3>2 DEF DarkOnItsWay
  <2>3. CASE ~dpms /\ c # "ScheduleRender" /\ Dark /\ ~Contains(cmds, "ScheduleRender")
    BY <1>3, <2>3 DEF Dark, threadVars, Idle, State
  <2> QED BY <2>1, <2>2, <2>3 DEF Darkened, threadVars
<1>6. FlipNeedsCompositor' /\ ActiveAgrees'
  BY <1>3 DEF FlipNeedsCompositor, ActiveAgrees, MainIdle, threadVars
<1>7. VBlankComes'
  BY <1>3 DEF VBlankComes, MainIdle, threadVars
<1> QED BY <1>4, <1>5, <1>6, <1>7

\* The main thread's steps keep the invariant on the flags it shares.
LEMMA MainStepShared ==
  ASSUME SurfaceInv, SharedInv, MainStep
  PROVE  SharedInv'
<1> USE DEF SharedInv
<1>1. CASE ScheduleRender \/ StartupDone
  <2>1. CASE dpms
    <3>1. /\ MainIdle /\ Send(<<"ScheduleRender">>) /\ dpms' = dpms
          /\ UNCHANGED <<threadVars, flip, active, events>>
      BY <1>1, <2>1, Zenon DEF ScheduleRender, StartupDone, mainVars, kernelVars
    <3>2. "ScheduleRender" \in Commands
      BY DEF Commands
    <3> QED BY <2>1, <3>1, <3>2, SendShared
  <2>2. CASE ~dpms
    <3>1. UNCHANGED <<mainpc, active, dpms, cmds, threadVars, kernelVars>>
      BY <1>1, <2>2, Zenon DEF ScheduleRender, StartupDone, mainVars
    <3> QED BY <3>1 DEF SuspendWaits, Darkened, DarkOnItsWay, Dark, FlipNeedsCompositor,
                        ActiveAgrees, VBlankComes, threadVars, kernelVars, Contains, Idle, State
  <2> QED BY <2>1, <2>2
<1>2. CASE Resume
  <2>1. /\ mainpc = "idle" /\ mainpc' = "idle" /\ active' = TRUE /\ dpms' = TRUE
        /\ cmds' = cmds \o <<"Resume", "ScheduleRender">>
        /\ UNCHANGED <<threadVars, kernelVars>>
    BY <1>2, Zenon DEF Resume, MainIdle, Send
  <2>2. cmds \in Seq(Commands)
    BY DEF SurfaceInv, TypeOK
  <2>3. /\ Len(cmds) \in Nat /\ Len(cmds') = Len(cmds) + 2
        /\ \A i \in 1 .. Len(cmds) : cmds'[i] = cmds[i]
        /\ cmds'[Len(cmds) + 1] = "Resume" /\ cmds'[Len(cmds) + 2] = "ScheduleRender"
    BY <2>1, <2>2
  <2>4. Contains(cmds', "Resume") /\ \A d : Contains(cmds, d) => Contains(cmds', d)
    BY <2>3 DEF Contains
  <2>5. SuspendWaits'
    BY <2>1, <2>3 DEF SuspendWaits
  <2> QED BY <2>1, <2>4, <2>5 DEF Darkened, FlipNeedsCompositor, ActiveAgrees, VBlankComes,
                                  threadVars, kernelVars
<1>3. CASE SuspendCall
  <2>1. /\ MainIdle /\ mainpc' = "suspend" /\ Send(<<"Suspend">>) /\ dpms' = dpms
        /\ UNCHANGED <<threadVars, flip, active, events>>
    BY <1>3, Zenon DEF SuspendCall, kernelVars
  <2>2. "Suspend" \in Commands
    BY DEF Commands
  <2> QED BY <2>1, <2>2, SendShared
<1>4. CASE \E c \in {"NodeAdded", "NodeRemoved"} : NodeCall(c)
  <2>1. PICK c \in {"NodeAdded", "NodeRemoved"} : NodeCall(c)
    BY <1>4
  <2>2. /\ MainIdle /\ Send(<<c>>) /\ dpms' = dpms
        /\ UNCHANGED <<threadVars, flip, active, events>>
    BY <2>1, Zenon DEF NodeCall, kernelVars
  <2>3. c \in Commands
    BY DEF Commands
  <2> QED BY <2>2, <2>3, SendShared
<1>5. CASE \E c \in {"MirrorOn", "MirrorOff"} : SetMirroring(c)
  <2>1. PICK c \in {"MirrorOn", "MirrorOff"} : SetMirroring(c)
    BY <1>5
  <2>2. /\ MainIdle /\ Send(<<c>>) /\ dpms' = dpms
        /\ UNCHANGED <<threadVars, flip, active, events>>
    BY <2>1, Zenon DEF SetMirroring, mainVars, kernelVars
  <2>3. c \in Commands
    BY DEF Commands
  <2> QED BY <2>2, <2>3, SendShared
<1>6. CASE \E on \in BOOLEAN : SetDpms(on)
  <2>1. PICK on \in BOOLEAN : SetDpms(on)
    BY <1>6
  <2>2. /\ MainIdle /\ Send(<<IF on THEN "ScheduleRender" ELSE "DpmsOff">>) /\ dpms' = on
        /\ UNCHANGED <<threadVars, flip, active, events>>
    BY <2>1, Zenon DEF SetDpms, kernelVars
  <2>3. "ScheduleRender" \in Commands /\ "DpmsOff" \in Commands
    BY DEF Commands
  <2>4. CASE on
    BY <2>2, <2>3, <2>4, SendShared
  <2>5. CASE ~on
    BY <2>2, <2>3, <2>5, SendShared
  <2> QED BY <2>4, <2>5
<1>7. CASE \E join \in BOOLEAN : DropSurface(join)
  <2>1. /\ MainIdle /\ Send(<<"End">>) /\ dpms' = dpms
        /\ UNCHANGED <<threadVars, flip, active, events>>
    BY <1>7, Zenon DEF DropSurface, kernelVars
  <2>2. "End" \in Commands
    BY DEF Commands
  <2> QED BY <2>1, <2>2, SendShared
<1>8. CASE Joined \/ (ReadVBlank /\ mainpc # "idle")
  <2>1. /\ mainpc' = "gone" /\ mainpc # "suspend"
        /\ UNCHANGED <<active, dpms, cmds, threadVars, flip>>
    BY <1>8 DEF Joined, ReadVBlank, mainVars, kernelVars
  <2> QED BY <2>1 DEF SuspendWaits, Darkened, DarkOnItsWay, Dark, FlipNeedsCompositor,
                      ActiveAgrees, VBlankComes, threadVars, Contains, Idle, State
<1>9. CASE ReadVBlank /\ mainpc = "idle"
  <2>1. /\ MainIdle /\ Send(<<"VBlank">>) /\ dpms' = dpms
        /\ UNCHANGED <<threadVars, flip, active>>
    BY <1>9, Zenon DEF ReadVBlank, MainIdle, mainVars
  <2>2. "VBlank" \in Commands
    BY DEF Commands
  <2> QED BY <2>1, <2>2, SendShared
<1> QED BY <1>1, <1>2, <1>3, <1>4, <1>5, <1>6, <1>7, <1>8, <1>9, Zenon DEF MainStep


\* A command received: what was under way stays so, in its order.
LEMMA ReceiveShared ==
  ASSUME SurfaceInv, SharedInv, NEW c, Receive(c),
         dpms' = dpms, running' => running,
         c # "Suspend" => mainpc' = mainpc \/ mainpc = "node",
         Dark /\ c # "ScheduleRender" => Dark', c = "DpmsOff" => Dark'
  PROVE  /\ SuspendWaits' /\ Darkened'
         /\ \A d : Contains(cmds', d) => Contains(cmds, d)
         /\ \A d : d # c /\ Contains(cmds, d) => Contains(cmds', d)
         /\ Contains(cmds, c)
         /\ c = "Suspend" => mainpc = "suspend" /\ \A d : ~Contains(cmds', d)
<1>1. /\ running /\ Len(cmds) \in Nat \ {0} /\ cmds[1] = c
      /\ Len(cmds') = Len(cmds) - 1
      /\ \A i \in 1 .. Len(cmds') : cmds'[i] = cmds[i + 1]
  BY ReceiveShifts DEF SurfaceInv
<1>2. /\ \A d : Contains(cmds', d) => Contains(cmds, d)
      /\ Contains(cmds, c)
  BY <1>1 DEF Contains
<1>3. ASSUME NEW d, d # c, Contains(cmds, d) PROVE Contains(cmds', d)
  <2>1. PICK i \in 1 .. Len(cmds) : cmds[i] = d
    BY <1>3 DEF Contains
  <2>2. i - 1 \in 1 .. Len(cmds') /\ cmds'[i - 1] = d
    BY <1>1, <1>3, <2>1
  <2> QED BY <2>2 DEF Contains
<1>4. c = "Suspend" => mainpc = "suspend" /\ Len(cmds') = 0
  BY <1>1 DEF SharedInv, SuspendWaits
<1>5. SuspendWaits'
  <2> SUFFICES ASSUME NEW i \in 1 .. Len(cmds'), cmds'[i] = "Suspend"
               PROVE  i = Len(cmds') /\ mainpc' = "suspend"
    BY DEF SuspendWaits
  <2>1. cmds[i + 1] = "Suspend" /\ i + 1 \in 1 .. Len(cmds)
    BY <1>1
  <2>2. i + 1 = Len(cmds) /\ mainpc = "suspend"
    BY <2>1 DEF SharedInv, SuspendWaits
  <2> QED BY <1>1, <1>4, <2>2
<1>6. Darkened'
  <2> SUFFICES ASSUME ~dpms, running
               PROVE  DarkOnItsWay' \/ (Dark' /\ ~Contains(cmds', "ScheduleRender"))
    BY DEF Darkened
  <2>1. CASE DarkOnItsWay
    <3>1. PICK i \in 1 .. Len(cmds) :
            cmds[i] = "DpmsOff" /\ \A j \in i + 1 .. Len(cmds) : cmds[j] # "ScheduleRender"
      BY <2>1 DEF DarkOnItsWay
    <3>2. CASE i = 1
      <4>1. \A j \in 1 .. Len(cmds') : cmds'[j] # "ScheduleRender"
        BY <1>1, <3>1, <3>2
      <4> QED BY <1>1, <3>1, <3>2, <4>1 DEF Contains
    <3>3. CASE i # 1
      <4>1. i - 1 \in 1 .. Len(cmds') /\ cmds'[i - 1] = "DpmsOff"
        BY <1>1, <3>1, <3>3
      <4>2. \A j \in (i - 1) + 1 .. Len(cmds') : cmds'[j] # "ScheduleRender"
        BY <1>1, <3>1, <3>3
      <4> QED BY <4>1, <4>2 DEF DarkOnItsWay
    <3> QED BY <3>2, <3>3
  <2>2. CASE Dark /\ ~Contains(cmds, "ScheduleRender")
    BY <1>2, <2>2
  <2> QED BY <2>1, <2>2 DEF SharedInv, Darkened
<1> QED BY <1>2, <1>3, <1>4, <1>5, <1>6 DEF Contains

\* Idle is not waiting for anything.
LEMMA IdleWaitsForNothing == Idle.kind # "WaitingForVBlank"
BY DEF Idle, State

\* Blanking the output leaves no page flip in the kernel.
LEMMA BlankShared ==
  ASSUME FlipNeedsCompositor, IF comp THEN Blank ELSE UNCHANGED kernelVars
  PROVE  ~flip'
BY DEF FlipNeedsCompositor, Blank, kernelVars

\* Suspended, dark, ended, or woken late: the thread is idle, and awaits no
\* VBlank.
LEMMA IdleCommandsShared ==
  ASSUME SurfaceInv, SharedInv, OnSuspend \/ OnDpmsOff \/ OnEnd \/ OnLateVBlank
  PROVE  SharedInv'
<1> USE DEF SurfaceInv, SharedInv
<1>1. queue' = Idle
  BY Zenon DEF OnSuspend, OnDpmsOff, OnEnd, OnLateVBlank, Abandon, TimersMatchState
<1>2. VBlankComes'
  BY <1>1, IdleWaitsForNothing DEF VBlankComes
<1>3. CASE OnSuspend
  <2>1. /\ Receive("Suspend") /\ ~flip' /\ active' = FALSE /\ comp' = FALSE /\ dpms' = dpms
        /\ running' = running
    BY <1>3, BlankShared, Zenon DEF OnSuspend
  <2> QED BY <1>1, <1>2, <2>1, ReceiveShared DEF Dark, FlipNeedsCompositor, ActiveAgrees
<1>4. CASE OnDpmsOff
  <2>1. /\ Receive("DpmsOff") /\ ~flip'
        /\ UNCHANGED <<mainpc, active, dpms, running, comp>>
    BY <1>4, BlankShared, Zenon DEF OnDpmsOff, kernelVars, mainVars
  <2> QED BY <1>1, <1>2, <2>1, ReceiveShared DEF Dark, FlipNeedsCompositor, ActiveAgrees
<1>5. CASE OnEnd
  <2>1. /\ Receive("End") /\ ~flip' /\ ~running' /\ comp' = FALSE
        /\ UNCHANGED <<mainpc, active, dpms>>
    BY <1>5, BlankShared, Zenon DEF OnEnd, mainVars
  <2> QED BY <1>1, <1>2, <2>1, ReceiveShared DEF Dark, FlipNeedsCompositor, ActiveAgrees
<1>6. CASE OnLateVBlank
  <2>1. /\ Receive("VBlank") /\ flip' = flip
        /\ UNCHANGED <<mainpc, active, dpms, running, comp>>
    BY <1>6, Zenon DEF OnLateVBlank, kernelVars, mainVars
  <2> QED BY <1>1, <1>2, <2>1, ReceiveShared DEF Dark, FlipNeedsCompositor, ActiveAgrees
<1> QED BY <1>3, <1>4, <1>5, <1>6

\* Commands that leave the queue state alone: only Resume builds a compositor,
\* and the flag said so when it was sent.
LEMMA QuietCommandsShared ==
  ASSUME SurfaceInv, SharedInv,
         \/ OnResume
         \/ \E c \in {"NodeAdded", "NodeRemoved"} : OnNode(c)
         \/ \E on \in BOOLEAN : OnMirroring(on)
  PROVE  SharedInv'
<1> USE DEF SurfaceInv, SharedInv
<1>1. PICK c \in {"Resume", "NodeAdded", "NodeRemoved", "MirrorOn", "MirrorOff"} :
        /\ Receive(c)
        /\ IF c = "Resume" THEN comp' = TRUE ELSE comp' = comp
        /\ \/ mainpc' = mainpc
           \/ mainpc = "node" /\ mainpc' = "idle"
        /\ UNCHANGED <<active, dpms, running, queue, flip, events>>
  <2>1. CASE OnResume
    BY <2>1 DEF OnResume, mainVars, kernelVars
  <2>2. ASSUME NEW c \in {"NodeAdded", "NodeRemoved"}, OnNode(c)
        PROVE  /\ Receive(c) /\ comp' = comp
               /\ \/ mainpc' = mainpc
                  \/ mainpc = "node" /\ mainpc' = "idle"
               /\ UNCHANGED <<active, dpms, running, queue, flip, events>>
    BY <2>2 DEF OnNode, threadVars, kernelVars
  <2>3. ASSUME NEW on \in BOOLEAN, OnMirroring(on)
        PROVE  /\ Receive(IF on THEN "MirrorOn" ELSE "MirrorOff") /\ comp' = comp
               /\ mainpc' = mainpc
               /\ UNCHANGED <<active, dpms, running, queue, flip, events>>
    BY <2>3, Zenon DEF OnMirroring, mainVars, kernelVars
  <2> QED BY <2>1, <2>2, <2>3
<1>2. Dark => Dark'
  BY <1>1 DEF Dark, Idle, State
<1>3. /\ SuspendWaits' /\ Darkened'
      /\ \A d : Contains(cmds', d) => Contains(cmds, d)
      /\ \A d : d # c /\ Contains(cmds, d) => Contains(cmds', d)
      /\ Contains(cmds, c)
  BY <1>1, <1>2, ReceiveShared
<1>4. FlipNeedsCompositor'
  BY <1>1 DEF FlipNeedsCompositor
<1>5. ActiveAgrees'
  BY <1>1, <1>3 DEF ActiveAgrees
<1>6. VBlankComes'
  BY <1>1, <1>3 DEF VBlankComes
<1> QED BY <1>3, <1>4, <1>5, <1>6

\* A render asked for waits for the VBlank that is already awaited, if any; a
\* VBlank that came is awaited no more.
LEMMA RenderCommandsShared ==
  ASSUME SurfaceInv, SharedInv,
         OnScheduleRender \/ \E animations \in BOOLEAN : OnVBlank(animations)
  PROVE  SharedInv'
<1> USE DEF SurfaceInv, SharedInv
<1>1. CASE OnScheduleRender
  <2>1. /\ Receive("ScheduleRender")
        /\ UNCHANGED <<mainpc, active, dpms, running, comp, flip, events>>
    BY <1>1, Zenon DEF OnScheduleRender, mainVars, kernelVars
  <2>2. queue'.kind = "WaitingForVBlank" => queue.kind = "WaitingForVBlank"
    <3>1. CASE startup /\ comp
      <4>1. PICK r : r = QueueRedraw(FALSE, queue, timers)
        OBVIOUS
      <4>2. queue' = r.q
        BY <1>1, <3>1, <4>1, Zenon DEF OnScheduleRender, Become
      <4> QED BY <4>1, <4>2, QueueRedrawMatches DEF TypeOK, TimersMatchState
    <3>2. CASE ~(startup /\ comp)
      BY <1>1, <3>2, Zenon DEF OnScheduleRender
    <3> QED BY <3>1, <3>2
  <2>3. /\ SuspendWaits' /\ Darkened'
        /\ \A d : Contains(cmds', d) => Contains(cmds, d)
        /\ \A d : d # "ScheduleRender" /\ Contains(cmds, d) => Contains(cmds', d)
    BY <2>1, ReceiveShared
  <2>4. FlipNeedsCompositor' /\ ActiveAgrees' /\ VBlankComes'
    BY <2>1, <2>2, <2>3 DEF FlipNeedsCompositor, ActiveAgrees, VBlankComes
  <2> QED BY <2>3, <2>4
<1>2. ASSUME NEW animations \in BOOLEAN, OnVBlank(animations) PROVE SharedInv'
  <2>1. /\ Receive("VBlank") /\ queue.kind = "WaitingForVBlank"
        /\ UNCHANGED <<mainpc, active, dpms, running, comp, flip, events>>
    BY <1>2, Zenon DEF OnVBlank, mainVars, kernelVars
  <2>2. queue'.kind # "WaitingForVBlank"
    <3>1. timers \in [Tokens -> TimerStates] /\ Matches(Idle, timers)
      BY <2>1 DEF TypeOK, TimersMatchState, Matches, Armed, WellFormed, Idle, State
    <3>2. CASE queue.redraw \/ animations
      <4>1. PICK r : r = QueueRedraw(FALSE, Idle, timers)
        OBVIOUS
      <4>2. queue' = r.q
        BY <1>2, <3>2, <4>1, Zenon DEF OnVBlank, Become
      <4> QED BY <3>1, <4>1, <4>2, RedrawFromIdle
    <3>3. CASE ~(queue.redraw \/ animations)
      BY <1>2, <3>3, IdleWaitsForNothing, Zenon DEF OnVBlank
    <3> QED BY <3>2, <3>3
  <2>3. ~Dark
    BY <2>1, IdleWaitsForNothing DEF Dark
  <2>4. /\ SuspendWaits' /\ Darkened'
        /\ \A d : Contains(cmds', d) => Contains(cmds, d)
        /\ \A d : d # "VBlank" /\ Contains(cmds, d) => Contains(cmds', d)
    BY <2>1, <2>3, ReceiveShared
  <2> QED BY <2>1, <2>2, <2>4 DEF FlipNeedsCompositor, ActiveAgrees, VBlankComes
<1> QED BY <1>1, <1>2

-----------------------------------------------------------------------------
\* queue_redraw waits for a VBlank only if it was awaited before.
LEMMA RedrawWaits ==
  ASSUME NEW force, NEW q, NEW tm
  PROVE  QueueRedraw(force, q, tm).q.kind = "WaitingForVBlank"
           => q.kind = "WaitingForVBlank"
BY DEF QueueRedraw, WaitingForVBlank, Queued, WaitingForEstimatedVBlankAndQueued, State

\* An empty frame is never followed by a VBlank, nor is its estimate.
LEMMA EstimatesAwaitNoVBlank ==
  ASSUME NEW t,
         \/ \E force, cleanup \in BOOLEAN : RedrawEmpty(t, force, cleanup)
         \/ \E animations \in BOOLEAN : OnEstimatedVBlank(t, animations)
  PROVE  queue'.kind # "WaitingForVBlank"
<1>1. ASSUME NEW force \in BOOLEAN, NEW cleanup \in BOOLEAN, RedrawEmpty(t, force, cleanup)
      PROVE  queue'.kind # "WaitingForVBlank"
  <2>1. PICK e, tm :
          queue' = IF cleanup THEN WaitingForEstimatedVBlank(e)
                   ELSE QueueRedraw(TRUE, WaitingForEstimatedVBlank(e), tm).q
    <3> DEFINE e == IF queue.est # NoToken THEN queue.est ELSE CHOOSE x \in Free : TRUE
               tm == [timers EXCEPT ![e] = IF queue.est # NoToken THEN @
                                           ELSE IF force THEN "estimatedForce"
                                           ELSE "estimated"]
               q == WaitingForEstimatedVBlank(e)
               r == IF cleanup THEN [q |-> q, tm |-> tm] ELSE QueueRedraw(TRUE, q, tm)
    <3>1. queue' = r.q
      BY <1>1, Zenon DEF RedrawEmpty
    <3> HIDE DEF e, tm, q
    <3>2. queue' = IF cleanup THEN q ELSE QueueRedraw(TRUE, q, tm).q
      BY <3>1
    <3> QED BY <3>2 DEF q
  <2>2. WaitingForEstimatedVBlank(e).kind # "WaitingForVBlank"
    BY DEF WaitingForEstimatedVBlank, State
  <2> QED BY <2>1, <2>2, RedrawWaits
<1>2. ASSUME NEW animations \in BOOLEAN, OnEstimatedVBlank(t, animations)
      PROVE  queue'.kind # "WaitingForVBlank"
  <2>1. \/ queue' = Queued(queue.render)
        \/ queue' = QueueRedraw(FALSE, Idle, [timers EXCEPT ![t] = "free"]).q
        \/ queue' = Idle
    BY <1>2, Zenon DEF OnEstimatedVBlank, Become
  <2>2. Queued(queue.render).kind # "WaitingForVBlank"
    BY DEF Queued, State
  <2>3. QueueRedraw(FALSE, Idle, [timers EXCEPT ![t] = "free"]).q.kind # "WaitingForVBlank"
    BY IdleWaitsForNothing, RedrawWaits
  <2> QED BY <2>1, <2>2, <2>3, IdleWaitsForNothing
<1> QED BY <1>1, <1>2

\* An armed timer belongs to a state that waits for it.
LEMMA ArmedIsNotIdle ==
  ASSUME SurfaceInv, NEW t \in Tokens, timers[t] # "free"
  PROVE  queue # Idle
<1>1. Idle.render = NoToken /\ Idle.est = NoToken
  BY DEF Idle, State
<1>2. queue.render = t \/ queue.est = t
  BY DEF SurfaceInv, TypeOK, TimerStates, TimersMatchState, Matches, Armed
<1> QED BY <1>1, <1>2, TokensAssumption

\* A timer that fires finds a state that is not idle: what was dark stays so.
\* A frame handed to the kernel is one flip, whose event is owed.
LEMMA TimeoutShared ==
  ASSUME SurfaceInv, SharedInv, NEW t \in Tokens, Timeout(t)
  PROVE  SharedInv'
<1> USE DEF SurfaceInv, SharedInv
<1>1. /\ timers[t] # "free" /\ comp
      /\ UNCHANGED <<mainpc, active, dpms, cmds, running, comp, events>>
      /\ \/ UNCHANGED flip
         \/ flip' = TRUE
  <2>1. timers[t] # "free"
        /\ UNCHANGED <<mainpc, active, dpms, cmds, running, comp, events>>
        /\ (flip' = flip \/ flip' = TRUE)
    BY Zenon DEF Timeout, RedrawFails, RedrawSubmits, RedrawEmpty, OnEstimatedVBlank,
                 mainVars, kernelVars
  <2>2. queue # Idle
    BY <2>1, ArmedIsNotIdle
  <2> QED BY <2>1, <2>2 DEF TimersMatchState
<1>2. ~Dark
  BY <1>1, ArmedIsNotIdle DEF Dark
<1>3. SuspendWaits' /\ Darkened' /\ FlipNeedsCompositor' /\ ActiveAgrees'
  BY <1>1, <1>2 DEF SuspendWaits, Darkened, DarkOnItsWay, FlipNeedsCompositor, ActiveAgrees
<1>4. VBlankComes'
  <2>1. ASSUME NEW acquired \in BOOLEAN, RedrawFails(t, acquired) PROVE VBlankComes'
    <3>1. PICK r : r = QueueRedraw(TRUE, queue, timers)
      OBVIOUS
    <3>2. queue' = r.q /\ flip' = flip
      BY <2>1, <3>1, Zenon DEF RedrawFails, kernelVars
    <3>3. queue'.kind = "WaitingForVBlank" => queue.kind = "WaitingForVBlank"
      BY <3>1, <3>2, RedrawWaits
    <3> QED BY <1>1, <3>2, <3>3 DEF VBlankComes
  <2>2. ASSUME NEW cleanup \in BOOLEAN, RedrawSubmits(t, cleanup) PROVE VBlankComes'
    BY <2>2, Zenon DEF RedrawSubmits, VBlankComes
  <2>3. ASSUME NEW force \in BOOLEAN, NEW cleanup \in BOOLEAN, RedrawEmpty(t, force, cleanup)
        PROVE  VBlankComes'
    BY <2>3, EstimatesAwaitNoVBlank DEF VBlankComes
  <2>4. ASSUME NEW animations \in BOOLEAN, OnEstimatedVBlank(t, animations)
        PROVE  VBlankComes'
    BY <2>4, EstimatesAwaitNoVBlank DEF VBlankComes
  <2> QED BY <2>1, <2>2, <2>3, <2>4, Zenon DEF Timeout
<1> QED BY <1>3, <1>4

-----------------------------------------------------------------------------
\* The flags the threads share are true of the compositor and of the queue, and
\* a thread that awaits a VBlank is owed one, whatever commands and events are
\* under way (Surface::active, Surface::dpms, on_vblank).
THEOREM SharedInvariant == Spec => [](SharedFlagsAgree /\ VBlankComes)
<1> DEFINE Inv == SurfaceInv /\ SharedInv
<1>1. Init => Inv
  <2> SUFFICES ASSUME Init PROVE Inv
    OBVIOUS
  <2>1. SurfaceInv
    BY SurfaceInvInit
  <2>2. /\ cmds = <<>> /\ comp = FALSE /\ queue = Idle /\ flip = FALSE
        /\ active = FALSE /\ dpms = TRUE
    BY Zenon DEF Init
  <2>3. SuspendWaits /\ Darkened /\ FlipNeedsCompositor /\ ActiveAgrees
    BY <2>2 DEF SuspendWaits, Darkened, FlipNeedsCompositor, ActiveAgrees, Contains
  <2>4. VBlankComes
    BY <2>2, IdleWaitsForNothing DEF VBlankComes
  <2> QED BY <2>1, <2>3, <2>4 DEF SharedInv
<1>2. Inv /\ [Next]_vars => Inv'
  <2>1. SurfaceInv /\ [Next]_vars => SurfaceInv'
    BY SurfaceInvNextStep
  <2>2. ASSUME SurfaceInv, SharedInv, FlipDone PROVE SharedInv'
    <3>1. /\ flip /\ flip' = FALSE /\ events' = events + 1 /\ events \in Nat
          /\ UNCHANGED <<mainVars, cmds, threadVars>>
      BY <2>2, Zenon DEF FlipDone, SurfaceInv, TypeOK
    <3>2. events' > 0
      BY <3>1
    <3>3. ~Dark
      BY <3>1 DEF Dark
    <3>4. SuspendWaits' /\ FlipNeedsCompositor' /\ ActiveAgrees'
      BY <2>2, <3>1 DEF SharedInv, SuspendWaits, FlipNeedsCompositor, ActiveAgrees,
                        mainVars, threadVars
    <3>5. Darkened'
      BY <2>2, <3>1, <3>3 DEF SharedInv, Darkened, DarkOnItsWay, mainVars, threadVars
    <3>6. VBlankComes'
      BY <3>2 DEF VBlankComes
    <3> QED BY <3>4, <3>5, <3>6 DEF SharedInv
  <2>3. ASSUME SharedInv, UNCHANGED vars PROVE SharedInv'
    BY <2>3 DEF SharedInv, SuspendWaits, Darkened, DarkOnItsWay, Dark, FlipNeedsCompositor,
                ActiveAgrees, VBlankComes, vars, mainVars, threadVars, kernelVars, Idle,
                State, Contains
  <2>4. ASSUME SurfaceInv, SharedInv, Command PROVE SharedInv'
    BY <2>4, IdleCommandsShared, QuietCommandsShared, RenderCommandsShared, Zenon DEF Command
  <2>5. SurfaceInv /\ SharedInv /\ Next => SharedInv'
    BY <2>2, <2>4, MainStepShared, TimeoutShared, Zenon DEF Next, ThreadStep
  <2> QED BY <2>1, <2>3, <2>5
<1>3. Inv => SharedFlagsAgree /\ VBlankComes
  BY SharedInvSuffices DEF SharedInv
<1> QED BY <1>1, <1>2, <1>3, PTL DEF Spec

\* No surface is resumed twice or left without a compositor, and none lights up
\* in the dark.
THEOREM SharedFlagsAlwaysAgree == Spec => []SharedFlagsAgree
BY SharedInvariant, PTL

\* No VBlank is awaited that was dropped.
THEOREM VBlankAlwaysComes == Spec => []VBlankComes
BY SharedInvariant, PTL
=============================================================================
