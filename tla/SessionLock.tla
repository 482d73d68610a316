------------------------------ MODULE SessionLock ------------------------------
(***************************************************************************)
(* Locking the session: a lock client, the main loop that owes it the      *)
(* `locked` event, and the surface threads that have to show the locked    *)
(* frames first.  Outputs come and go, are blanked, disabled and mirrored  *)
(* while the event is owed.                                                *)
(*                                                                         *)
(* Source: wayland/handlers/session_lock.rs, SessionLock in shell/mod.rs,  *)
(* send_frames in state.rs, presented.rs, and the messages of              *)
(* backend/kms/surface/mod.rs to the main loop.                            *)
(*                                                                         *)
(* Abstractions.  What a frame shows is the desktop, an empty locked       *)
(* screen, or the lock surface of a client.  A frame is on the panel once  *)
(* it is submitted.  The queue states and timers of a surface thread are   *)
(* those of KmsSurface; here a thread collects a frame and submits it.     *)
(* Only the client whose lock was accepted creates lock surfaces.          *)
(***************************************************************************)
EXTENDS Naturals, Sequences, FiniteSets

CONSTANTS
  Outputs,      \* connectors that may have a monitor
  Clients,      \* lock objects, each with a lock screen and surfaces of its own
  None,         \* no client, or no mirrored output
  MaxMail,      \* messages a thread may have under way when it starts a frame
  MaxChanges,   \* bound on the changes to the outputs
  Reconfigure,  \* whether outputs are disabled and enabled by configuration
  Mirroring     \* whether outputs are set to mirror others

ASSUME ConstantsAssumption ==
  /\ None \notin Outputs \cup Clients
  /\ Clients \cap {"off", "desktop", "blank", "nothing"} = {}
  /\ MaxMail \in Nat /\ MaxChanges \in Nat
  /\ Reconfigure \in BOOLEAN /\ Mirroring \in BOOLEAN

VARIABLES
  plugged,    \* connectors with a monitor
  outputs,    \* Shell::outputs: enabled and not mirroring
  mirroring,  \* Output::mirroring
  dark,       \* outputs switched off by DPMS
  changes,    \* changes to the outputs so far
  lock,       \* Shell::session_lock; its client is None when there is none
  client,     \* what each lock client knows
  committed,  \* lock surfaces <<client, output>> with a buffer
  primary,    \* lock surfaces whose primary scanout output is theirs
  presented,  \* lock surfaces marked by mark_presented
  wanted,     \* outputs whose thread was asked for a render
  drawn,      \* the frame a thread has collected and not submitted yet
  panel,      \* the last frame submitted to each output
  mail,       \* SurfaceCommands under way from each thread to the main loop
  shown,      \* history: lock surfaces submitted so far
  stayed,     \* history: outputs waited on by this lock that never left
  apart       \* history: outputs mirroring when it was taken, not off since

lockVars   == <<lock, client, committed, primary, presented>>
outputVars == <<plugged, outputs, mirroring, dark, changes>>
threadVars == <<wanted, drawn, panel, mail, shown>>
history == <<stayed, apart>>
vars == <<outputVars, lockVars, threadVars, history>>

Frames == Clients \cup {"off", "desktop", "blank"}

NoLock == [client |-> None, surfaces |-> {}, waiting |-> {}, locker |-> FALSE]

\* What render_input_order finds for output o: with a session lock its lock
\* surface, if it has a buffer, and nothing of the desktop.
Content(o) ==
  IF lock.client = None THEN "desktop"
  ELSE IF o \in lock.surfaces /\ <<lock.client, o>> \in committed
  THEN lock.client ELSE "blank"

Source(o) == IF mirroring[o] = None THEN o ELSE mirroring[o]

\* Outputs that are driven at all: disabled ones are neither.
Driven == {o \in plugged : o \in outputs \/ mirroring[o] # None}
Lit == Driven \ dark

\* schedule_render for the outputs S: their surfaces, those mirroring them,
\* and of those the ones that are on.
Scheduled(S) == wanted \cup {o \in Lit : Source(o) \in S}

Init ==
  /\ plugged = Outputs /\ outputs = Outputs
  /\ mirroring = [o \in Outputs |-> None] /\ dark = {}
  /\ changes = 0
  /\ lock = NoLock /\ client = [c \in Clients |-> "idle"]
  /\ committed = {} /\ primary = {} /\ presented = {}
  /\ wanted = {} /\ drawn = [o \in Outputs |-> "nothing"]
  /\ panel = [o \in Outputs |-> "desktop"]
  /\ mail = [o \in Outputs |-> <<>>]
  /\ shown = {} /\ stayed = {} /\ apart = {}

-----------------------------------------------------------------------------
(* The session lock                                                        *)

\* Mutant: looks at the list before taking the output out.
StopWaitingOn_Early(l, o) ==
  IF o \notin l.waiting THEN l
  ELSE [l EXCEPT !.waiting = @ \ {o}, !.locker = @ /\ l.waiting # {}]

\* stop_waiting_on: the last output to go takes the locker, which is the
\* `locked` event.
StopWaitingOn(l, o) ==
  IF o \notin l.waiting THEN l
  ELSE [l EXCEPT !.waiting = @ \ {o}, !.locker = @ /\ l.waiting # {o}]

\* The client of l hears of the event, if it is still there.
Told(l) ==
  [c \in Clients |->
     IF c = l.client /\ ~l.locker /\ client[c] = "locking" THEN "locked"
     ELSE client[c]]

\* The lock object of the current lock is alive.
LockIsValid ==
  lock.client # None /\ client[lock.client] \in {"locking", "locked"}

Forget(c) ==
  /\ committed' = {p \in committed : p[1] # c}
  /\ primary' = {p \in primary : p[1] # c}
  /\ presented' = {p \in presented : p[1] # c}
  /\ shown' = {p \in shown : p[1] # c}

\* A client asks for the lock, and none is held by a client that lives.  (It
\* would be answered `finished`, and is where it was.)
Lock(c) ==
  /\ client[c] = "idle"
  /\ ~LockIsValid
  /\ lock' = [client |-> c, surfaces |-> {},
              waiting |-> {o \in outputs : mirroring[o] = None},
              locker |-> {o \in outputs : mirroring[o] = None} # {}]
  /\ client' = [client EXCEPT ![c] = IF lock'.locker THEN "locking" ELSE "locked"]
  /\ stayed' = lock'.waiting
  /\ apart' = {o \in Outputs : mirroring[o] # None}
  /\ wanted' = Scheduled(outputs)
  /\ UNCHANGED <<outputVars, committed, primary, presented, drawn, panel,
                 mail, shown>>

NewSurface(c, o) ==
  /\ lock.client = c /\ client[c] \in {"locking", "locked"}
  /\ o \in outputs \ lock.surfaces
  /\ lock' = [lock EXCEPT !.surfaces = @ \cup {o}]
  /\ UNCHANGED <<outputVars, client, committed, primary, presented, threadVars,
                 history>>

\* The client commits a buffer; visible_output_for_surface finds its output.
Commit(c, o) ==
  /\ lock.client = c /\ client[c] \in {"locking", "locked"}
  /\ o \in lock.surfaces /\ <<c, o>> \notin committed
  /\ committed' = committed \cup {<<c, o>>}
  /\ wanted' = Scheduled({o})
  /\ UNCHANGED <<outputVars, lock, client, primary, presented, drawn, panel,
                 mail, shown, history>>

\* Only a client that was told may unlock.
Unlock(c) ==
  /\ client[c] = "locked"
  /\ lock' = NoLock /\ stayed' = {} /\ apart' = {}
  /\ client' = [client EXCEPT ![c] = "gone"]
  /\ Forget(c)
  /\ wanted' = Scheduled(outputs)
  /\ UNCHANGED <<outputVars, drawn, panel, mail>>

\* The client destroys its lock before it was told, or goes away: the session
\* stays locked, by a lock nobody holds.
LockObjectDies(c) ==
  /\ client[c] \in {"locking", "locked"}
  /\ client' = [client EXCEPT ![c] = "gone"]
  /\ Forget(c)
  /\ UNCHANGED <<outputVars, lock, wanted, drawn, panel, mail, history>>

-----------------------------------------------------------------------------
(* The surface threads                                                     *)

\* Something on the desktop changed.
Damage(o) ==
  /\ lock.client = None
  /\ o \in Lit \ wanted
  /\ wanted' = Scheduled({o})
  /\ UNCHANGED <<outputVars, lockVars, drawn, panel, mail, shown,
                 history>>

\* redraw reads the shell and collects the elements of the source output.
Collect(o) ==
  /\ o \in wanted \cap Lit /\ Source(o) \in outputs
  /\ drawn[o] = "nothing" /\ Len(mail[o]) <= MaxMail
  /\ drawn' = [drawn EXCEPT ![o] = Content(Source(o))]
  /\ wanted' = wanted \ {o}
  /\ UNCHANGED <<outputVars, lockVars, panel, mail, shown, history>>

\* What a thread sends, unless its output mirrors another.
Sends(o, s) ==
  mail' = IF mirroring[o] = None THEN [mail EXCEPT ![o] = @ \o s] ELSE mail

RenderStates(f) == [kind |-> "RenderStates", frame |-> f]
SendFrames == [kind |-> "SendFrames", frame |-> "nothing"]

\* The frame is queued for display.  (The frame callbacks of a frame without
\* damage come with the estimated VBlank: later, as by a slower channel.)
Submit(o) ==
  /\ drawn[o] # "nothing"
  /\ panel' = [panel EXCEPT ![o] = drawn[o]]
  /\ drawn' = [drawn EXCEPT ![o] = "nothing"]
  /\ Sends(o, <<RenderStates(drawn[o]), SendFrames>>)
  /\ shown' = shown \cup ({drawn[o]} \cap Clients) \X {o}
  /\ UNCHANGED <<outputVars, lockVars, wanted, history>>

-----------------------------------------------------------------------------
(* The main loop reads the messages of a thread                            *)

Receive(o, kind) ==
  /\ mail[o] # <<>> /\ Head(mail[o]).kind = kind
  /\ mail' = [mail EXCEPT ![o] = Tail(@)]

LockSurface(o) == <<lock.client, o>>

\* update_primary_output: the lock surface of the output is scanned out there
\* if the frame had it.
OnRenderStates(o) ==
  /\ Receive(o, "RenderStates")
  /\ primary' =
       IF mirroring[o] # None \/ LockSurface(o) \notin committed THEN primary
       ELSE IF Head(mail[o]).frame = lock.client
       THEN primary \cup {LockSurface(o)} ELSE primary \ {LockSurface(o)}
  /\ UNCHANGED <<outputVars, lock, client, committed, presented, wanted, drawn,
                 panel, shown, history>>

\* Mutant: any frame of the output counts, as it did before 14 September.
NoteLockedFrame_AnyFrame(o, p) ==
  IF lock.locker THEN StopWaitingOn(lock, o) ELSE lock

\* note_locked_frame, once the surfaces of p are marked.
NoteLockedFrame(o, p) ==
  IF lock.locker /\ o \in lock.surfaces /\ LockSurface(o) \in p
  THEN StopWaitingOn(lock, o) ELSE lock


\* Mutant: marks the surface of the output without asking whether the frame had
\* it.
OnSendFrames_Unseen(o) ==
  /\ Receive(o, "SendFrames")
  /\ IF mirroring[o] # None \/ o \notin lock.surfaces
     THEN UNCHANGED <<lock, client, presented>>
     ELSE /\ presented' = presented \cup {LockSurface(o)}
          /\ lock' = NoteLockedFrame(o, presented')
          /\ client' = Told(lock')
  /\ UNCHANGED <<outputVars, committed, primary, wanted, drawn, panel, shown,
                 history>>

\* send_frames: surfaces whose primary output this is are marked presented.
OnSendFrames(o) ==
  /\ Receive(o, "SendFrames")
  /\ IF mirroring[o] # None THEN UNCHANGED <<lock, client, presented>>
     ELSE /\ presented' = presented \cup ({LockSurface(o)} \cap primary)
          /\ lock' = NoteLockedFrame(o, presented')
          /\ client' = Told(lock')
  /\ UNCHANGED <<outputVars, committed, primary, wanted, drawn, panel,
                 shown, history>>

-----------------------------------------------------------------------------
(* Outputs come and go.  The main loop joins or suspends the thread first, *)
(* or its command waits until the thread is between two frames.            *)

Idle(o) == drawn[o] = "nothing"

\* The thread of o lost its compositor, or is gone.
GoDark(o) ==
  /\ wanted' = wanted \ {o}
  /\ apart' = apart \ {o}
  /\ panel' = [panel EXCEPT ![o] = "off"]

Change == changes < MaxChanges /\ changes' = changes + 1

IsMirrored(o) == \E p \in Outputs : mirroring[p] = o

\* Mutant: a monitor that is gone is still waited on.
Unplug_StillWaited(o) ==
  /\ Change
  /\ o \in plugged /\ Idle(o) /\ ~IsMirrored(o)
  /\ plugged' = plugged \ {o} /\ outputs' = outputs \ {o}
  /\ mirroring' = [mirroring EXCEPT ![o] = None] /\ dark' = dark \ {o}
  /\ lock' = [lock EXCEPT !.surfaces = @ \ {o}]
  /\ client' = Told(lock')
  /\ committed' = {p \in committed : p[2] # o}
  /\ primary' = {p \in primary : p[2] # o}
  /\ presented' = {p \in presented : p[2] # o}
  /\ shown' = {p \in shown : p[2] # o}
  /\ GoDark(o)
  /\ mail' = [mail EXCEPT ![o] = <<>>]
  /\ stayed' = stayed \ {o}
  /\ UNCHANGED drawn

\* Common::remove_output, and the thread is joined: its messages are gone, and
\* what is plugged in next is another Output.
Unplug(o) ==
  /\ Change
  /\ o \in plugged /\ Idle(o) /\ ~IsMirrored(o)
  /\ plugged' = plugged \ {o} /\ outputs' = outputs \ {o}
  /\ mirroring' = [mirroring EXCEPT ![o] = None] /\ dark' = dark \ {o}
  /\ lock' = [StopWaitingOn(lock, o) EXCEPT !.surfaces = @ \ {o}]
  /\ client' = Told(lock')
  /\ committed' = {p \in committed : p[2] # o}
  /\ primary' = {p \in primary : p[2] # o}
  /\ presented' = {p \in presented : p[2] # o}
  /\ shown' = {p \in shown : p[2] # o}
  /\ GoDark(o)
  /\ mail' = [mail EXCEPT ![o] = <<>>]
  /\ stayed' = stayed \ {o}
  /\ UNCHANGED drawn

\* A monitor is plugged in and enabled; its first frame is the mode set.
Plug(o) ==
  /\ Change
  /\ o \notin plugged
  /\ plugged' = plugged \cup {o} /\ outputs' = outputs \cup {o}
  /\ panel' = [panel EXCEPT ![o] = Content(o)]
  /\ wanted' = wanted \cup {o}
  /\ UNCHANGED <<mirroring, dark, lockVars, drawn, mail, shown, history>>

\* apply_config_for_outputs disables an output: WorkspaceSet bookkeeping only.
Disable(o) ==
  /\ Change
  /\ Reconfigure
  /\ o \in outputs /\ Idle(o) /\ ~IsMirrored(o) /\ outputs # {o}
  /\ outputs' = outputs \ {o}
  /\ GoDark(o)
  /\ stayed' = stayed \ {o}
  /\ UNCHANGED <<plugged, mirroring, dark, lockVars, drawn, mail, shown>>

\* Mutant: the workspaces of the output stay.
Mirror_Kept(o, s) ==
  /\ Change
  /\ Mirroring
  /\ o \in outputs /\ s \in outputs \ {o} /\ Idle(o) /\ ~IsMirrored(o)
  /\ mirroring' = [mirroring EXCEPT ![o] = s]
  /\ wanted' = wanted \cup ({o} \ dark)
  /\ stayed' = stayed \ {o}
  /\ UNCHANGED <<plugged, outputs, dark, lockVars, drawn, panel, mail, shown,
                 apart>>

\* ... or makes it show another output.
Mirror(o, s) ==
  /\ Change
  /\ Mirroring
  /\ o \in outputs /\ s \in outputs \ {o} /\ Idle(o) /\ ~IsMirrored(o)
  /\ outputs' = outputs \ {o}
  /\ mirroring' = [mirroring EXCEPT ![o] = s]
  /\ wanted' = wanted \cup ({o} \ dark)
  /\ stayed' = stayed \ {o}
  /\ UNCHANGED <<plugged, dark, lockVars, drawn, panel, mail, shown,
                 apart>>

\* An output is enabled again: from nothing, or from mirroring another.
Enable(o) ==
  /\ Change
  /\ o \in plugged \ outputs /\ Idle(o)
  /\ outputs' = outputs \cup {o}
  /\ mirroring' = [mirroring EXCEPT ![o] = None]
  /\ dark' = IF mirroring[o] = None THEN dark \ {o} ELSE dark
  /\ panel' = IF mirroring[o] = None THEN [panel EXCEPT ![o] = Content(o)]
              ELSE panel
  /\ wanted' = wanted \cup ({o} \ dark')
  /\ UNCHANGED <<plugged, lockVars, drawn, mail, shown, history>>

\* The output and those mirroring it.
Group(o) == {p \in plugged : Source(p) = o}

DpmsOff(o) ==
  /\ Change
  /\ o \in outputs \ dark /\ \A p \in Group(o) : Idle(p)
  /\ dark' = dark \cup Group(o)
  /\ wanted' = wanted \ Group(o)
  /\ apart' = apart \ Group(o)
  /\ panel' = [p \in Outputs |-> IF p \in Group(o) THEN "off" ELSE panel[p]]
  /\ UNCHANGED <<plugged, outputs, mirroring, lockVars, drawn, mail, shown,
                 stayed>>

DpmsOn(o) ==
  /\ Change
  /\ o \in outputs \cap dark
  /\ dark' = dark \ Group(o)
  /\ wanted' = wanted \cup Group(o)
  /\ UNCHANGED <<plugged, outputs, mirroring, lockVars, drawn, panel,
                 mail, shown, history>>

-----------------------------------------------------------------------------
ClientStep(c) ==
  \/ Lock(c) \/ Unlock(c) \/ LockObjectDies(c)
  \/ \E o \in Outputs : NewSurface(c, o) \/ Commit(c, o)

ThreadStep(o) ==
  Damage(o) \/ Collect(o) \/ Submit(o)

MainStep(o) == OnRenderStates(o) \/ OnSendFrames(o)

OutputStep(o) ==
  \/ Plug(o) \/ Unplug(o) \/ Disable(o) \/ Enable(o) \/ DpmsOff(o) \/ DpmsOn(o)
  \/ \E s \in Outputs : Mirror(o, s)

Next ==
  \/ \E c \in Clients : ClientStep(c)
  \/ \E o \in Outputs : ThreadStep(o) \/ MainStep(o) \/ OutputStep(o)

Spec == Init /\ [][Next]_vars

\* A surface thread does what it was asked, the main loop reads its channels,
\* and a lock screen that holds the lock covers every output it knows.  Nothing
\* is assumed of monitors, DPMS, configuration, or of clients staying.
Fairness ==
  /\ \A o \in Outputs :
       /\ WF_vars(Collect(o)) /\ WF_vars(Submit(o)) /\ WF_vars(MainStep(o))
  /\ \A c \in Clients, o \in Outputs :
       WF_vars(NewSurface(c, o)) /\ WF_vars(Commit(c, o))

FairSpec == Spec /\ Fairness

-----------------------------------------------------------------------------
\* The variables have their types, messages come in the order a thread sends
\* them, and no more than the bound is under way.
TypeOK ==
  /\ plugged \subseteq Outputs /\ outputs \subseteq plugged
  /\ mirroring \in [Outputs -> Outputs \cup {None}]
  /\ \A o \in outputs : mirroring[o] = None
  /\ dark \subseteq plugged /\ changes \in 0 .. MaxChanges
  /\ lock \in [client : Clients \cup {None}, surfaces : SUBSET plugged,
               waiting : SUBSET Outputs, locker : BOOLEAN]
  /\ client \in [Clients -> {"idle", "locking", "locked", "gone"}]
  /\ committed \cup primary \cup presented \cup shown \subseteq Clients \X Outputs
  /\ wanted \subseteq Lit /\ stayed \subseteq outputs
  /\ apart \subseteq plugged
  /\ drawn \in [Outputs -> Frames \cup {"nothing"}]
  /\ panel \in [Outputs -> Frames]
  /\ \A o \in Outputs :
       /\ Len(mail[o]) <= MaxMail + 2
       /\ \A i \in 1 .. Len(mail[o]) :
            mail[o][i] \in {SendFrames} \cup {RenderStates(f) : f \in Frames}

\* The `locked` event is out.
IsLocked == lock.client # None /\ ~lock.locker

\* Once the client was told that the session is locked, no output shows the
\* desktop: a machine suspended on `locked` does not wake up with it.  Outputs
\* that came later are included, those that mirrored another are not.
LockedMeansCovered ==
  IsLocked => \A o \in outputs \ apart : panel[o] # "desktop"

\* `locked` follows the lock screen, not the compositor's own blank frame: the
\* lock surface was submitted on every output that has been there all along.
LockedMeansShown ==
  IsLocked /\ LockIsValid => \A o \in stayed : <<lock.client, o>> \in shown

\* The event is not forgotten and not sent ahead: it is owed exactly as long as
\* some output is waited on, and every such output can still answer or was
\* taken away by configuration.
OwedWhileWaiting ==
  lock.client # None => (lock.locker <=> lock.waiting # {})

\* `locked` is sent when the desktop is gone and the lock screen is there,
\* neither before nor later (note_locked_frame, send_frames).
LockedMeansSeen ==
  TypeOK /\ LockedMeansCovered /\ LockedMeansShown /\ OwedWhileWaiting

Pending(c) == client[c] = "locking"
Blanked == lock.waiting \cap dark # {}
TakenAway == lock.waiting \cap (plugged \ outputs) # {}

\* A client that asked for the lock and stays is told, unless an output it is
\* waited on stays dark or was disabled.
LockIsConfirmedIfKept ==
  <>[](~Blanked /\ ~TakenAway) =>
    \A c \in Clients : Pending(c) ~> ~Pending(c)

\* ... even if an output was disabled: an output that is gone is not waited on.
LockIsConfirmed ==
  <>[]~Blanked => \A c \in Clients : Pending(c) ~> ~Pending(c)
=============================================================================
