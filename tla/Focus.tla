------------------------------- MODULE Focus -------------------------------
(***************************************************************************)
(* Who gets the keys: one seat, its keyboard focus, and the focus stack it *)
(* has on every workspace.  src/shell/focus/mod.rs, with the requests of   *)
(* src/shell/mod.rs, src/input and src/wayland/handlers that set the focus *)
(* or take away what has it.                                               *)
(*                                                                         *)
(* A request may set the focus at once (Shell::set_focus); everything else *)
(* is left to Common::refresh_focus, which runs some time later and        *)
(* repairs a focus that no longer stands.  Fullscreen windows, stacks of   *)
(* windows, popups, groups, grabs and a second seat are left out, outputs  *)
(* and workspaces stay.                                                    *)
(***************************************************************************)
EXTENDS Naturals, FiniteSets, Sequences, SequencesExt

CONSTANTS
  Windows,      \* every window that will ever be mapped
  ParentOf,     \* the parent of each dialog: a function on some of Windows,
                \* injective (which of two dialogs the code finds first is
                \* their order on the screen)
  Outputs,
  OutputOf,     \* the output of each workspace: a function on the workspaces
  None,         \* no window, no output
  MaxChanges    \* bound: locks, and changes of layer surfaces

Spaces == DOMAIN OutputOf
Dialogs == DOMAIN ParentOf

VARIABLES
  home,          \* the workspace of a window, or its output when it is sticky,
                 \* or "new" or "gone"
  minimized,     \* the windows minimized, where they are at home
  seen,          \* the windows that were in a frame (presented)
  modal,         \* the dialogs that are modal
  active,        \* the active workspace of each output
  stacks,        \* the seat's focus stack of each workspace, latest last
  focus,         \* ActiveFocus, and the focus of the keyboard
  focused,       \* the focused output of the seat
  activeOutput,  \* the output with the pointer
  layers,        \* the layer surface of each output and what it wants of the keyboard
  locked,        \* whether there is a session lock
  lockSurfaces,  \* the outputs with a lock surface
  overrides,     \* pending_focus_overrides
  changes        \* counts up to MaxChanges

deskVars == <<home, minimized, active, stacks, focus, focused, activeOutput>>
restVars == <<seen, modal, layers, locked, lockSurfaces, overrides, changes>>
focusVars == <<deskVars, restVars>>

(***************************************************************************)
(* KeyboardFocusTarget.                                                    *)
(***************************************************************************)
NoFocus == <<"none", None>>
Window(w) == <<"window", w>>
Layer(o) == <<"layer", o>>
LockScreen(o) == <<"lock", o>>
Targets == {NoFocus} \cup {Window(w) : w \in Windows}
             \cup {Layer(o) : o \in Outputs} \cup {LockScreen(o) : o \in Outputs}
IsWindow(t) == t[1] = "window"

LayerModes == {"none", "ondemand", "exclusive"}
Exclusive == \E o \in Outputs : layers[o] = "exclusive"

Alive(d, t) ==
  CASE t[1] = "window" -> d.home[t[2]] # "gone"
    [] t[1] = "layer"  -> layers[t[2]] # "none"
    [] t[1] = "lock"   -> t[2] \in lockSurfaces
    [] OTHER           -> TRUE

(* What a handler works on; several steps of one handler are operators on  *)
(* such a record.                                                          *)
Desk == [home |-> home, minimized |-> minimized, active |-> active, stacks |-> stacks,
         focus |-> focus, focused |-> focused, at |-> activeOutput]

Become(d) ==
  /\ home' = d.home
  /\ minimized' = d.minimized
  /\ active' = d.active
  /\ stacks' = d.stacks
  /\ focus' = d.focus
  /\ focused' = d.focused
  /\ activeOutput' = d.at

Mapped(d, w) == d.home[w] \in Spaces \cup Outputs
IsSticky(d, w) == d.home[w] \in Outputs

ShownOn(d, w, o) == w \notin d.minimized /\ d.home[w] \in {o, d.active[o]}

(* Seat::focused_or_active_output.                                         *)
FocusedOrActive(d) == IF d.focus # NoFocus /\ d.focused # None THEN d.focused ELSE d.at

(***************************************************************************)
(* The focus stacks.                                                       *)
(***************************************************************************)
Eligible(d, s) ==
  SelectSeq(d.stacks[s], LAMBDA w : d.home[w] # "gone" /\ w \notin d.minimized)
HasLast(d, s) == Eligible(d, s) # <<>>
LastOf(d, s) == Last(Eligible(d, s))

Without(d, w) == [d EXCEPT !.stacks = [s \in Spaces |-> Remove(@[s], w)]]

\* Mutant: a window that is on the stack is added again.
AppendFocusStack_Twice(d, w) ==
  LET s == IF d.home[w] \in Spaces THEN d.home[w]
           ELSE IF IsSticky(d, w) THEN d.active[d.home[w]] ELSE d.active[d.at]
  IN  IF w \in d.minimized \/ (HasLast(d, s) /\ LastOf(d, s) = w) THEN d
      ELSE [d EXCEPT !.stacks[s] =
              Append(SelectSeq(@, LAMBDA v : d.home[v] # "gone"), w)]

AppendFocusStack(d, w) ==
  LET s == IF d.home[w] \in Spaces THEN d.home[w]
           ELSE IF IsSticky(d, w) THEN d.active[d.home[w]] ELSE d.active[d.at]
  IN  IF w \in d.minimized \/ (HasLast(d, s) /\ LastOf(d, s) = w) THEN d
      ELSE [d EXCEPT !.stacks[s] =
              Append(SelectSeq(@, LAMBDA v : v # w /\ d.home[v] # "gone"), w)]

(* Workspace::refresh_focus_stack, on every workspace.                     *)
RefreshStacks(d) ==
  [d EXCEPT !.stacks = [s \in Spaces |->
     SelectSeq(@[s], LAMBDA w : d.home[w] = s \/ IsSticky(d, w))]]

(***************************************************************************)
(* Setting the focus.                                                      *)
(***************************************************************************)
ChildOf(d, w, m) == {c \in m : ParentOf[c] = w /\ Mapped(d, c)}

(* The modal dialog that has the keys in place of a window, if any.        *)
DeepestModalChild(d, w, m) ==
  LET deepest[n \in 0..Cardinality(Windows)] ==
        IF n = 0 THEN w
        ELSE LET c == ChildOf(d, deepest[n - 1], m)
             IN IF c = {} THEN deepest[n - 1] ELSE CHOOSE v \in c : TRUE
      v == deepest[Cardinality(Windows)]
  IN  IF v = w THEN None ELSE v

ModalRedirect(d, t, m) == IF IsWindow(t) THEN DeepestModalChild(d, t[2], m) ELSE None

OutputForFocus(d, t) ==
  IF IsWindow(t)
    THEN IF \E o \in Outputs : ShownOn(d, t[2], o)
           THEN CHOOSE o \in Outputs : ShownOn(d, t[2], o) ELSE None
    ELSE t[2]

UpdateFocusState(d, t) == [d EXCEPT !.focus = t, !.focused = OutputForFocus(d, t)]

SetFocusModal(d, t, m) ==
  LET dialog == ModalRedirect(d, t, m)
      to == IF dialog = None THEN t ELSE Window(dialog)
      restored == [d EXCEPT !.minimized = @ \ {dialog}]
      stacked == IF IsWindow(to) THEN AppendFocusStack(restored, to[2]) ELSE restored
  IN  UpdateFocusState(stacked, to)

SetFocus(d, t) == SetFocusModal(d, t, modal)

(***************************************************************************)
(* Requests of clients.                                                    *)
(***************************************************************************)
Change == changes < MaxChanges /\ changes' = changes + 1

TypeOfHome == Spaces \cup Outputs \cup {"new", "gone"}

FocusInit ==
  /\ home = [w \in Windows |-> "new"]
  /\ minimized = {} /\ seen = {}
  /\ modal \in SUBSET Dialogs
  /\ active \in {a \in [Outputs -> Spaces] : \A o \in Outputs : OutputOf[a[o]] = o}
  /\ stacks = [s \in Spaces |-> <<>>]
  /\ focus = NoFocus /\ focused = None
  /\ activeOutput \in Outputs
  /\ layers = [o \in Outputs |-> "none"]
  /\ locked = FALSE /\ lockSurfaces = {}
  /\ overrides = <<>>
  /\ changes = 0

(* A dialog is mapped where its parent is; any other window on the active  *)
(* workspace of the active output, or on the one its activation token      *)
(* names.  Shown at once, it is given the focus at once.                   *)
MapWindow(w, s) ==
  LET d == [Desk EXCEPT !.home[w] = s]
  IN  /\ home[w] = "new"
      /\ IF w \in Dialogs THEN Mapped(Desk, ParentOf[w]) /\ s = home[ParentOf[w]] ELSE s \in Spaces
      /\ Become(IF s \in Outputs THEN SetFocus(AppendFocusStack(d, w), Window(w))
                ELSE IF s = active[activeOutput] THEN SetFocus(d, Window(w))
                ELSE AppendFocusStack(d, w))
      /\ UNCHANGED restVars

(* Shell::unmap_surface.  A modal dialog that had the keys leaves them to  *)
(* its parent, at the next refresh.                                        *)
Close(w) ==
  /\ Mapped(Desk, w)
  /\ overrides' = IF w \in modal /\ focus = Window(w) /\ Mapped(Desk, ParentOf[w])
                    THEN Append(overrides, ParentOf[w]) ELSE overrides
  /\ Become(Without([Desk EXCEPT !.home[w] = "gone", !.minimized = @ \ {w}], w))
  /\ UNCHANGED <<seen, modal, layers, locked, lockSurfaces, changes>>

(* Asked for by the window itself, or by a panel or the user, who is held  *)
(* off by a modal dialog.                                                  *)
Minimize(w) ==
  /\ Mapped(Desk, w) /\ w \notin minimized
  /\ Become([Desk EXCEPT !.minimized = @ \cup {w}])
  /\ UNCHANGED restVars

(* A panel or an activation token raises a window.                         *)
Activate(w) ==
  LET d == [Desk EXCEPT !.minimized = @ \ {w},
              !.active = IF home[w] \in Spaces THEN [@ EXCEPT ![OutputOf[home[w]]] = home[w]] ELSE @]
  IN  /\ Mapped(Desk, w)
      /\ Become(SetFocus(d, Window(w)))
      /\ UNCHANGED restVars

(* dialog_hint_changed: whoever has the keys may be blocked now.           *)
SetModal(c) ==
  /\ c \notin modal
  /\ modal' = modal \cup {c}
  /\ Change
  /\ Become(IF ModalRedirect(Desk, focus, modal') = None THEN Desk
              ELSE SetFocusModal(Desk, focus, modal'))
  /\ UNCHANGED <<seen, layers, locked, lockSurfaces, overrides>>

(***************************************************************************)
(* The user.  Shortcuts are refused under a session lock.                  *)
(***************************************************************************)
SwitchSpace(s) ==
  /\ ~locked
  /\ OutputOf[s] = activeOutput /\ active[activeOutput] # s
  /\ Become([Desk EXCEPT !.active[activeOutput] = s])
  /\ UNCHANGED restVars

SwitchOutput(o) ==
  LET s == active[o]
  IN  /\ ~locked
      /\ o # activeOutput
      /\ Become(LET d == [Desk EXCEPT !.at = o]
                IN  IF HasLast(d, s) THEN SetFocus(d, Window(LastOf(d, s)))
                    ELSE UpdateFocusState(d, NoFocus))
      /\ UNCHANGED restVars

(* Shell::move_current.                                                    *)
MoveCurrent(s, follow) ==
  LET from == active[FocusedOrActive(Desk)]
      w == focus[2]
      moved == [Without(Desk, w) EXCEPT !.home[w] = s, !.minimized = @ \ {w}]
  IN  /\ ~locked
      /\ IsWindow(focus) /\ s # from
      /\ Become(IF home[w] # from
                  THEN [Desk EXCEPT !.stacks[from] = Remove(@, w)]
                ELSE IF follow
                  THEN SetFocus([moved EXCEPT !.at = OutputOf[s],
                                              !.active[OutputOf[s]] = s],
                                Window(w))
                ELSE moved)
      /\ UNCHANGED restVars

(* Shell::toggle_sticky of the window last focused on the active output.   *)
ToggleSticky ==
  LET s == active[activeOutput]
      w == LastOf(Desk, s)
      d == Without(Desk, w)
  IN  /\ ~locked
      /\ HasLast(Desk, s)
      /\ Become(AppendFocusStack(
           IF home[w] \in Spaces THEN [d EXCEPT !.home[w] = OutputOf[home[w]]]
           ELSE IF IsSticky(Desk, w) THEN [d EXCEPT !.home[w] = active[home[w]]]
           ELSE d, w))
      /\ UNCHANGED restVars

(* A button pressed over what is on the active output.                     *)
Click(t) ==
  /\ CASE IsWindow(t)    -> ~locked /\ ShownOn(Desk, t[2], activeOutput)
       [] t[1] = "layer" -> ~locked /\ t[2] = activeOutput /\ layers[activeOutput] # "none"
       [] t[1] = "lock"  -> locked /\ t[2] = activeOutput /\ t[2] \in lockSurfaces
       [] OTHER          -> FALSE
  /\ Become(SetFocus(Desk, t))
  /\ UNCHANGED restVars

PointerTo(o) ==
  /\ o # activeOutput
  /\ activeOutput' = o
  /\ UNCHANGED <<home, minimized, active, stacks, focus, focused>>
  /\ UNCHANGED restVars

(***************************************************************************)
(* Layer surfaces (of the top layers) and the session lock.                *)
(***************************************************************************)
MapLayer(o, mode) ==
  /\ Change
  /\ layers[o] = "none" /\ mode # "none"
  /\ layers' = [layers EXCEPT ![o] = mode]
  /\ Become(SetFocus(Desk, Layer(o)))
  /\ UNCHANGED <<seen, modal, locked, lockSurfaces, overrides>>

ChangeLayer(o, mode) ==
  /\ Change
  /\ layers[o] \notin {"none", mode}
  /\ layers' = [layers EXCEPT ![o] = mode]
  /\ UNCHANGED <<deskVars, seen, modal, locked, lockSurfaces, overrides>>

Lock ==
  /\ Change
  /\ ~locked /\ locked' = TRUE
  /\ lockSurfaces' = {}
  /\ UNCHANGED <<deskVars, seen, modal, layers, overrides>>

NewLockSurface(o) ==
  /\ locked /\ o \notin lockSurfaces
  /\ lockSurfaces' = lockSurfaces \cup {o}
  /\ UNCHANGED <<deskVars, seen, modal, layers, locked, overrides, changes>>

Unlock ==
  /\ locked /\ locked' = FALSE
  /\ lockSurfaces' = {}
  /\ UNCHANGED <<deskVars, seen, modal, layers, overrides, changes>>

(* A frame with the window in it was submitted.                            *)
Present(w) ==
  /\ ~locked
  /\ w \notin seen /\ \E o \in Outputs : ShownOn(Desk, w, o)
  /\ seen' = seen \cup {w}
  /\ UNCHANGED <<deskVars, modal, layers, locked, lockSurfaces, overrides, changes>>

(***************************************************************************)
(* Common::refresh_focus.                                                  *)
(***************************************************************************)
\* Mutant: a window anywhere on the stack may keep the keys.
Valid_OnStack(d, t) ==
  LET o == FocusedOrActive(d)
      s == d.active[o]
  IN  IF locked THEN t[1] = "lock"
      ELSE IF Exclusive THEN t[1] = "layer" /\ layers[t[2]] = "exclusive"
      ELSE CASE IsWindow(t) -> d.home[t[2]] = o \/ t[2] \in Range(d.stacks[s])
             [] t[1] = "layer" -> t[2] = o
             [] OTHER -> FALSE

(* focus_target_is_valid; a sticky window is put on the stack on the way.  *)
Valid(d, t) ==
  LET o == FocusedOrActive(d)
      s == d.active[o]
  IN  IF locked THEN t[1] = "lock"
      ELSE IF Exclusive THEN t[1] = "layer" /\ layers[t[2]] = "exclusive"
      ELSE CASE IsWindow(t) -> \/ d.home[t[2]] = o /\ t[2] \notin d.minimized
                               \/ HasLast(d, s) /\ LastOf(d, s) = t[2]
             [] t[1] = "layer" -> t[2] = o
             [] OTHER -> FALSE

Validated(d) ==
  IF ~locked /\ ~Exclusive /\ IsWindow(d.focus) /\ IsSticky(d, d.focus[2])
    THEN AppendFocusStack(d, d.focus[2]) ELSE d

(* update_focus_target; when nothing is on the stack, any window of the    *)
(* workspace.  A window never shown gets no keys here.                     *)
FocusTargets(d) ==
  LET o == FocusedOrActive(d)
      s == d.active[o]
      wanted == IF HasLast(d, s) THEN {LastOf(d, s)}
                ELSE {w \in Windows \ d.minimized : d.home[w] = s}
  IN  IF locked THEN {IF o \in lockSurfaces THEN LockScreen(o) ELSE NoFocus}
      ELSE IF Exclusive THEN {IF layers[o] = "exclusive" THEN Layer(o) ELSE NoFocus}
      ELSE IF wanted = {} THEN {NoFocus}
      ELSE {IF w \in seen THEN Window(w) ELSE NoFocus : w \in wanted}

\* Mutant: the parent is put on the focus stack, the focus is left alone.
Overridden_StackOnly(d) ==
  FoldLeft(LAMBDA e, w : IF Mapped(e, w) THEN AppendFocusStack(e, w) ELSE e, d, overrides)

(* The parents of dialogs that were closed with the keys, in order.        *)
Overridden(d) ==
  FoldLeft(LAMBDA e, w : IF Mapped(e, w) THEN SetFocus(e, Window(w)) ELSE e, d, overrides)

\* Mutant: nobody having the keys is always fine.
Stands_Nobody(d) == d.focus = NoFocus \/ (Alive(d, d.focus) /\ Valid(d, d.focus))

Stands(d) ==
  IF d.focus = NoFocus THEN ~HasLast(d, d.active[d.at])
  ELSE Alive(d, d.focus) /\ Valid(d, d.focus)

Refresh ==
  /\ \E d \in {Overridden(RefreshStacks(Desk))} :
       IF Stands(d) THEN Become(Validated(d))
       ELSE \E t \in FocusTargets(d) : Become(UpdateFocusState(d, t))
  /\ overrides' = <<>>
  /\ UNCHANGED <<seen, modal, layers, locked, lockSurfaces, changes>>

FocusNext ==
  \/ \E w \in Windows : \/ Close(w) \/ Minimize(w) \/ Activate(w) \/ Present(w)
                        \/ \E s \in Spaces \cup Outputs : MapWindow(w, s)
  \/ \E c \in Dialogs : SetModal(c)
  \/ \E s \in Spaces : SwitchSpace(s) \/ \E follow \in BOOLEAN : MoveCurrent(s, follow)
  \/ ToggleSticky
  \/ \E t \in Targets : Click(t)
  \/ \E o \in Outputs : \/ SwitchOutput(o) \/ PointerTo(o) \/ NewLockSurface(o)
                        \/ \E m \in LayerModes : MapLayer(o, m) \/ ChangeLayer(o, m)
  \/ Lock \/ Unlock
  \/ Refresh

FocusSpec == FocusInit /\ [][FocusNext]_focusVars /\ WF_focusVars(Refresh)

-----------------------------------------------------------------------------
(* Type invariant; a focus stack is an IndexSet, and an output shows one of  *)
(* its own workspaces.                                                       *)
FocusTypeOK ==
  /\ home \in [Windows -> TypeOfHome]
  /\ minimized \subseteq Windows /\ seen \subseteq Windows /\ modal \subseteq Dialogs
  /\ active \in [Outputs -> Spaces] /\ \A o \in Outputs : OutputOf[active[o]] = o
  /\ \A s \in Spaces : /\ Range(stacks[s]) \subseteq Windows
                       /\ IsInjective(stacks[s])
  /\ focus \in Targets /\ focused \in Outputs \cup {None} /\ activeOutput \in Outputs
  /\ layers \in [Outputs -> LayerModes]
  /\ locked \in BOOLEAN /\ lockSurfaces \subseteq Outputs
  /\ Range(overrides) \subseteq Windows
  /\ changes \in 0..MaxChanges

FocusIsRight ==
  IF locked THEN focus = NoFocus \/ focus[1] = "lock"
  ELSE IF Exclusive THEN focus = NoFocus \/ (focus[1] = "layer" /\ layers[focus[2]] = "exclusive")
  ELSE /\ IsWindow(focus) => ShownOn(Desk, focus[2], FocusedOrActive(Desk))
       /\ focus[1] = "layer" => layers[focus[2]] # "none"
       /\ focus[1] # "lock"

\* The parent whose dialog was closed with the keys and that can have them.
Heir(p) ==
  /\ ~locked /\ ~Exclusive
  /\ \E o \in Outputs : ShownOn(Desk, p, o)
  /\ ChildOf(Desk, p, modal) = {}

KeysAreGiven ==
  /\ FocusIsRight'
  /\ (overrides # <<>> /\ Heir(Last(overrides))) => focus' = Window(Last(overrides))

(* Whatever was closed, minimized, moved, hidden or locked since, the next   *)
(* refresh leaves the keys with something that may have them: the lock       *)
(* screen under a lock, an exclusive layer surface where there is one, else  *)
(* what is on the screen.  The parent of a modal dialog that was closed with *)
(* the keys gets them.                                                       *)
KeysGoWhereTheyMay == [][Refresh => KeysAreGiven]_focusVars

\* Something waits for the keys on the output that has them.
Wanting ==
  LET o == FocusedOrActive(Desk) IN
  IF locked THEN o \in lockSurfaces /\ focus[1] # "lock"
  ELSE IF Exclusive THEN layers[o] = "exclusive" /\ focus[1] # "layer"
  ELSE focus = NoFocus /\ HasLast(Desk, active[o]) /\ LastOf(Desk, active[o]) \in seen

(* Who waits for the keys gets them (or no longer waits), unless nothing has *)
(* them and the focus stack is empty: then refresh_focus looks no further.   *)
Noticed == focus # NoFocus \/ HasLast(Desk, active[activeOutput])
KeysArrive == []<>~(Wanting /\ Noticed)

(* src/shell/focus/mod.rs:962: "a lock screen that cannot take keys is a     *)
(* machine that cannot be unlocked".                                         *)
LockScreenTakesKeys ==
  []<>~(locked /\ lockSurfaces = Outputs /\ focus[1] # "lock")
=============================================================================
