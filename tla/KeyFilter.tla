------------------------------- MODULE KeyFilter -------------------------------
(* Which keys and buttons of a seat go to clients and which the compositor   *)
(* keeps (src/input/mod.rs): State::filter_keyboard_input on the events of   *)
(* all sources of input, with all that changes between a press and its       *)
(* release - locks, inhibitors, keyboard monitors, resize mode, grabs - and  *)
(* the actions that repeat while a key is held.                              *)
(*                                                                           *)
(* A key is held by one source at a time: two keyboards of a session share   *)
(* their entry in the source's maps, and smithay counts what they hold.      *)
EXTENDS FiniteSets, Naturals

CONSTANTS
    Physical,       \* the devices of the session (InputBackendId::Normal)
    Remotes,        \* connections of emulated input (InputBackendId::Ei)
    Keys, Buttons,
    Logo,           \* the modifier; alone it is a binding of the configuration
    ResizeKey,      \* with Logo: Action::Resizing
    Arrows,         \* keys that resize in resize mode
    Escape,
    VtKeys,         \* XF86_Switch_VT_*
    UserBound,      \* bound with Logo in compositor.toml
    AppBound,       \* bound without a modifier over D-Bus
    VirtualKeys,    \* virtual modifiers a keyboard monitor may ask for
    MaxHeld         \* bound: keys and buttons held at the same time

VARIABLES
    held,           \* keys down, by source (the keyboard of smithay)
    forwarded,      \* keys clients were told are down
    suppressed,     \* SupressedKeys, by source
    repeating,      \* timers in SupressedKeys: source and key
    modQueue,       \* ModifiersShortcutQueue: sources with Logo queued
    buttonsHeld, passed, suppressedButtons,  \* the same for buttons
    resizeMode,     \* Shell::resize_mode is Started or Active
    resizing,       \* Shell::resize_state is Some
    dragging,       \* a move, resize, menu or swap grab is active
    locked,         \* the session is locked
    inhibited,      \* the focused surface inhibits shortcuts
    monitored,      \* a keyboard monitor has grabbed the keyboard
    virtualMods,    \* virtual modifiers of the keyboard monitors
    departed,       \* connections that were closed
    strayed,        \* history: keys released where no client was told
    late            \* history: a repeat resized after resize mode had ended

keyVars == <<held, forwarded, suppressed, repeating, modQueue>>
buttonVars == <<buttonsHeld, passed, suppressedButtons>>
modeVars == <<resizeMode, resizing, dragging, late>>
worldVars == <<locked, inhibited, monitored, virtualMods>>
filterVars == <<keyVars, buttonVars, modeVars, worldVars, departed, strayed>>

Sources == {Physical} \cup Remotes
LogoHeld(h) == \E s \in Sources : Logo \in h[s]
Repeat(s, k) == [source |-> s, key |-> k]

FilterInit ==
    /\ held = [s \in Sources |-> {}] /\ forwarded = {}
    /\ suppressed = [s \in Sources |-> {}] /\ repeating = {} /\ modQueue = {}
    /\ buttonsHeld = [s \in Sources |-> {}] /\ passed = {}
    /\ suppressedButtons = [s \in Sources |-> {}]
    /\ resizeMode = FALSE /\ resizing = FALSE /\ dragging = FALSE
    /\ locked = FALSE /\ inhibited = FALSE /\ monitored = FALSE
    /\ virtualMods = {} /\ departed = {} /\ strayed = {} /\ late = FALSE

HeldCount == Cardinality(UNION {held[s] : s \in Sources})
             + Cardinality(UNION {buttonsHeld[s] : s \in Sources})

-----------------------------------------------------------------------------
(* Resize mode                                                               *)

\* filter_keyboard_input leaves it when its key or its modifier is released.
Lasts(k, down) == resizeMode /\ LogoHeld(held') /\ (down \/ k # ResizeKey)

\* set_resize_mode(None) finishes what is being resized.
Leave(lasts) ==
    /\ resizeMode' = lasts
    /\ resizing' = (resizing /\ (resizeMode => lasts))
    /\ late' = (late /\ resizing')

\* Shell::resize needs something with the keyboard focus; handle_action does
\* nothing while the session is locked.
ResizeAction ==
    /\ IF locked THEN UNCHANGED resizing ELSE resizing' \in BOOLEAN
    /\ late' = (resizing' /\ (late \/ ~resizeMode))
    /\ UNCHANGED resizeMode

FinishAction ==
    /\ resizing' = (resizing /\ locked)
    /\ late' = (late /\ resizing')
    /\ UNCHANGED resizeMode

-----------------------------------------------------------------------------
(* A key goes down                                                           *)

BoundTo(k) ==
    \/ k \in UserBound /\ LogoHeld(held')
    \/ k \in AppBound /\ ~LogoHeld(held') /\ ~locked

\* What filter_keyboard_input makes of a press: the order of its checks.
PressVerdict(k) ==
    IF Lasts(k, TRUE) /\ k \in Arrows THEN "resize"
    ELSE IF dragging /\ k = Escape /\ ~LogoHeld(held') THEN "escape"
    ELSE IF k \in virtualMods \cup VtKeys THEN "swallow"
    ELSE IF monitored \/ (~inhibited /\ BoundTo(k)) THEN "take"
    ELSE IF ~inhibited /\ k = ResizeKey /\ LogoHeld(held') THEN "enter"
    ELSE "forward"

\* Mutant: a key that switches to another VT is not remembered.
Suppress_NotVt(s, k) ==
    suppressed' = IF k \in VtKeys THEN suppressed
                  ELSE [suppressed EXCEPT ![s] = @ \cup {k}]

Suppress(s, k) == suppressed' = [suppressed EXCEPT ![s] = @ \cup {k}]

\* An arrow in resize mode resizes at once, and again every 25 ms.
PressResizes(s, k) ==
    /\ repeating' = repeating \cup {Repeat(s, k)}
    /\ ResizeAction
    /\ UNCHANGED <<modQueue, dragging>>

\* PrivateAction::Escape ends resize mode and grabs, unless it is locked.
PressEscapes(s, k) ==
    /\ IF locked THEN Leave(Lasts(k, TRUE)) /\ UNCHANGED dragging
                 ELSE Leave(FALSE) /\ dragging' = FALSE
    /\ UNCHANGED <<repeating, modQueue>>

PressIsTaken(s, k, verdict) ==
    /\ modQueue' = IF verdict = "swallow" THEN modQueue ELSE modQueue \ {s}
    /\ IF verdict = "enter" /\ ~locked
       THEN resizeMode' = TRUE /\ UNCHANGED <<resizing, late>>
       ELSE Leave(Lasts(k, TRUE))
    /\ UNCHANGED <<repeating, dragging>>

\* Logo alone may become a binding; anything else clears the queue.
PressIsForwarded(s, k) ==
    /\ forwarded' = forwarded \cup {k}
    /\ strayed' = strayed \ {k}
    /\ modQueue' = IF ~inhibited /\ LogoHeld(held') THEN modQueue \cup {s}
                   ELSE modQueue \ {s}
    /\ Leave(Lasts(k, TRUE))
    /\ UNCHANGED <<suppressed, repeating, dragging>>

PressKey(s, k) ==
    /\ s \notin departed /\ \A t \in Sources : k \notin held[t]
    /\ HeldCount < MaxHeld
    /\ held' = [held EXCEPT ![s] = @ \cup {k}]
    /\ LET verdict == PressVerdict(k)
       IN  IF verdict = "forward" THEN PressIsForwarded(s, k)
           ELSE /\ Suppress(s, k)
                /\ CASE verdict = "resize" -> PressResizes(s, k)
                     [] verdict = "escape" -> PressEscapes(s, k)
                     [] OTHER -> PressIsTaken(s, k, verdict)
                /\ UNCHANGED <<forwarded, strayed>>
    /\ UNCHANGED <<buttonVars, worldVars, departed>>

-----------------------------------------------------------------------------
(* A key goes up                                                             *)

\* SupressedKeys::filter, and the removal of the timers it returns.
Unsuppress(s, k) ==
    /\ suppressed' = [suppressed EXCEPT ![s] = @ \ {k}]
    /\ repeating' = repeating \ {Repeat(s, k)}

\* In resize mode the release of an arrow is an action, whoever saw its press.
ReleaseResizes(s, k) ==
    /\ Lasts(k, FALSE) /\ k \in Arrows
    /\ Unsuppress(s, k)
    /\ FinishAction
    /\ strayed' = IF k \in forwarded THEN strayed \cup {k} ELSE strayed
    /\ UNCHANGED <<forwarded, modQueue>>

ReleaseIsSkipped(s, k) ==
    /\ ~(Lasts(k, FALSE) /\ k \in Arrows) /\ k \in suppressed[s]
    /\ Unsuppress(s, k)
    /\ Leave(Lasts(k, FALSE))
    /\ UNCHANGED <<forwarded, strayed, modQueue>>

\* Also where the release fires the binding of Logo alone: its press was
\* forwarded, and the queue is empty either way.
ReleaseIsForwarded(s, k) ==
    /\ ~(Lasts(k, FALSE) /\ k \in Arrows) /\ k \notin suppressed[s]
    /\ forwarded' = forwarded \ {k}
    /\ strayed' = strayed \ {k}
    /\ modQueue' = modQueue \ {s}
    /\ Leave(Lasts(k, FALSE))
    /\ UNCHANGED <<suppressed, repeating>>

ReleaseKey(s, k) ==
    /\ k \in held[s]
    /\ held' = [held EXCEPT ![s] = @ \ {k}]
    /\ ReleaseResizes(s, k) \/ ReleaseIsSkipped(s, k) \/ ReleaseIsForwarded(s, k)
    /\ UNCHANGED <<buttonVars, worldVars, dragging, departed>>

\* The timer of an arrow that is held repeats its action.
RepeatFires ==
    /\ repeating # {}
    /\ ResizeAction
    /\ UNCHANGED <<keyVars, buttonVars, worldVars, dragging, departed, strayed>>

-----------------------------------------------------------------------------
(* Buttons                                                                   *)

\* A click on a window while Logo is held is kept: it moves or resizes.
PressButton(s, b) ==
    /\ s \notin departed /\ \A t \in Sources : b \notin buttonsHeld[t]
    /\ HeldCount < MaxHeld
    /\ buttonsHeld' = [buttonsHeld EXCEPT ![s] = @ \cup {b}]
    /\ \/ /\ LogoHeld(held) /\ ~inhibited
          /\ suppressedButtons' = [suppressedButtons EXCEPT ![s] = @ \cup {b}]
          /\ UNCHANGED passed
       \/ /\ suppressedButtons' = [suppressedButtons EXCEPT ![s] = @ \ {b}]
          /\ passed' = IF b \in suppressedButtons[s] THEN passed
                       ELSE passed \cup {b}
    /\ UNCHANGED <<keyVars, modeVars, worldVars, departed, strayed>>

\* The release of a button that was kept ends the grab it began; one that is
\* passed on may end a grab.
ReleaseButton(s, b) ==
    /\ b \in buttonsHeld[s]
    /\ buttonsHeld' = [buttonsHeld EXCEPT ![s] = @ \ {b}]
    /\ suppressedButtons' = [suppressedButtons EXCEPT ![s] = @ \ {b}]
    /\ IF b \in suppressedButtons[s] THEN dragging' = FALSE /\ UNCHANGED passed
       ELSE dragging' \in {dragging, FALSE} /\ passed' = passed \ {b}
    /\ UNCHANGED <<keyVars, resizeMode, resizing, late, worldVars, departed,
                   strayed>>

\* A grab begins, also from the idle callback of a click that was kept.
BeginGrab(s) ==
    /\ ~dragging /\ s \notin departed
    /\ dragging' = TRUE
    /\ modQueue' \in {modQueue, modQueue \ {s}}
    /\ UNCHANGED <<held, forwarded, suppressed, repeating, buttonVars, resizeMode,
                   resizing, late, worldVars, departed, strayed>>

-----------------------------------------------------------------------------
(* What changes between a press and its release                              *)

\* Mutant: what the connection had suppressed is kept.
Forget_Suppressed(s) == UNCHANGED <<suppressed, suppressedButtons>>

\* clear_input_source_state drops the tokens of timers, and does not stop them.
Forget(s) ==
    /\ suppressed' = [suppressed EXCEPT ![s] = {}]
    /\ suppressedButtons' = [suppressedButtons EXCEPT ![s] = {}]

\* A connection closes: its keys and buttons are released, past the filter.
EiDisconnected(s) ==
    /\ s \in Remotes \ departed
    /\ departed' = departed \cup {s}
    /\ held' = [held EXCEPT ![s] = {}]
    /\ forwarded' = forwarded \ held[s]
    /\ strayed' = strayed \ held[s]
    /\ buttonsHeld' = [buttonsHeld EXCEPT ![s] = {}]
    /\ passed' = passed \ buttonsHeld[s]
    /\ Forget(s)
    /\ modQueue' = modQueue \ {s}
    /\ UNCHANGED <<repeating, modeVars, worldVars>>

\* Locks, inhibitors and keyboard monitors come and go at any time.
WorldChanges ==
    /\ \/ locked' = ~locked /\ UNCHANGED <<inhibited, monitored, virtualMods>>
       \/ inhibited' = ~inhibited /\ UNCHANGED <<locked, monitored, virtualMods>>
       \/ monitored' = ~monitored /\ UNCHANGED <<locked, inhibited, virtualMods>>
       \/ /\ virtualMods' = VirtualKeys \ virtualMods
          /\ UNCHANGED <<locked, inhibited, monitored>>
    /\ UNCHANGED <<keyVars, buttonVars, modeVars, departed, strayed>>

FilterNext ==
    \/ \E s \in Sources :
         \/ \E k \in Keys : PressKey(s, k) \/ ReleaseKey(s, k)
         \/ \E b \in Buttons : PressButton(s, b) \/ ReleaseButton(s, b)
         \/ BeginGrab(s) \/ EiDisconnected(s)
    \/ RepeatFires \/ WorldChanges

FilterSpec == FilterInit /\ [][FilterNext]_filterVars

-----------------------------------------------------------------------------
HoldersOf(k) == {s \in Sources : k \in held[s]}

(* From its press to its release a key or button belongs either to clients   *)
(* or to the compositor, whatever is locked, inhibited, grabbed or entered   *)
(* meanwhile: nothing stays pressed for clients ("we don't want to           *)
(* accidentally leave any keys pressed", input/mod.rs:2365), nothing that    *)
(* was let go is kept from them the next time, and no action is repeated for *)
(* a key that is not held - but for arrows let go in resize mode after       *)
(* clients had seen their press, and repeats of a connection that closed.    *)
HeldIsOwnedOnce ==
    /\ \A k \in Keys \ strayed :
         k \in forwarded <=> \E s \in HoldersOf(k) : k \notin suppressed[s]
    /\ \A b \in Buttons :
         b \in passed <=> \E s \in Sources :
                             b \in buttonsHeld[s] \ suppressedButtons[s]
    /\ \A s \in Sources : /\ suppressed[s] \subseteq held[s]
                          /\ suppressedButtons[s] \subseteq buttonsHeld[s]
    /\ \A r \in repeating :
         r.key \in suppressed[r.source] \/ r.source \in departed
    /\ resizing => resizeMode \/ late
=============================================================================
