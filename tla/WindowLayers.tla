----------------------------- MODULE WindowLayers -----------------------------
(***************************************************************************)
(* The windows of one output: on which workspace and in which layer each   *)
(* is, what is remembered for its way back from being minimized,           *)
(* maximized, fullscreen or sticky, and what its client was told.          *)
(*                                                                         *)
(* Source: src/shell/workspace.rs and src/shell/mod.rs, the map and unmap  *)
(* functions of src/shell/layout, and the handlers that call them.         *)
(*                                                                         *)
(* Abstractions.  A window is a Wayland toplevel in a CosmicMapped of its  *)
(* own: no stacks, no modal dialogs, no drags.  Geometry, snapping and     *)
(* animations are left out: a fullscreen surface that is animated out is   *)
(* gone.  Of a tiling tree only the number of nodes of each window counts. *)
(* There is one output and one seat; workspaces stay.  Focus stacks are    *)
(* left out: a request for the focused window may concern any window that  *)
(* can have the focus.  States are followed until a window is in two       *)
(* layers or in none, or until the compositor panics.                      *)
(***************************************************************************)
EXTENDS Naturals, FiniteSets

CONSTANTS
  Windows,
  Spaces,   \* the workspaces of the output
  None

Layouts == {"Floating", "Tiling", "Monocle"}

\* What remap_unfullscreened_window puts back, and what is minimized or
\* fullscreen (WorkspaceRestoreData, MinimizedWindow, FullscreenSurface).
WayBacks == [kind : {"Floating", "Tiling", "Sticky"}, space : Spaces, max : BOOLEAN]
MinimizedWindows == [space : Spaces, kind : {"Floating", "Tiling", "Fullscreen"},
                     max : BOOLEAN, back : {None} \cup WayBacks]
FullscreenSurfaces == [space : Spaces, back : {None} \cup WayBacks]

\* Where a window is that is shown in a layer, see Place.
Places == [layer : {"Floating", "Tiling", "Sticky"}, space : Spaces \cup {None},
           max : BOOLEAN]

ASSUME SpacesAssumption == /\ Spaces # {} /\ IsFiniteSet(Spaces)
                           /\ None \notin Spaces
ASSUME NoneAssumption ==
  /\ None \notin {"Floating", "Tiling", "Sticky"}
  /\ None \notin WayBacks /\ None \notin MinimizedWindows
  /\ None \notin FullscreenSurfaces /\ None \notin Places

VARIABLES
  win,      \* win[w]: where window w is, see Fresh
  tiling,   \* tiling[s]: tiling_enabled
  mode,     \* mode[s]: layout_mode
  restore,  \* restore[s]: monocle_restore, the mode before monocle, or None
  active,   \* the active workspace
  was,      \* history: was[w]: where w was before it was minimized or
            \* fullscreen, if nothing but its return should change that
  usual     \* history: no monocle mode, no request for the tiling state that a
            \* workspace already has, and none that reads a flag which the
            \* client has still to acknowledge

vars == <<win, tiling, mode, restore, active, was, usual>>

\* A window that is mapped nowhere.  floating and nodes: the workspaces in
\* whose floating layer it is, and its nodes in each tiling tree.  mini: where
\* and from which layer it is minimized.  full: where it is fullscreen, and
\* the way back.  sticky: in the sticky layer of the set, or minimized from it.
\* max: original_layer of maximized_state.  before: previous_layer, for a
\* sticky window.  The other flags are the client's: maximized as pending
\* (told) and as committed (acked), minimized, fullscreen and sticky (stuck).
\* on: the workspaces that toplevel_info announces it on.
Fresh == [open |-> FALSE, floating |-> {}, nodes |-> [s \in Spaces |-> 0],
          mini |-> None, full |-> None, sticky |-> "no",
          max |-> None, before |-> None, told |-> FALSE, acked |-> FALSE,
          minimized |-> FALSE, fullscreen |-> FALSE, stuck |-> FALSE, on |-> {},
          crash |-> "no"]

Init ==
  /\ win = [w \in Windows |-> Fresh]
  /\ \E b \in BOOLEAN :
       /\ tiling = [s \in Spaces |-> b]
       /\ mode = [s \in Spaces |-> IF b THEN "Tiling" ELSE "Floating"]
  /\ restore = [s \in Spaces |-> None]
  /\ active \in Spaces
  /\ was = [w \in Windows |-> None]
  /\ usual = TRUE

-----------------------------------------------------------------------------
(* Where a window record x is.                                              *)

\* In the floating layer or the tree of s.
Mapped(x, s) == s \in x.floating \/ x.nodes[s] > 0

\* The workspaces that space_for finds for it.
Homes(x) == {s \in Spaces : \/ Mapped(x, s)
                            \/ x.mini # None /\ x.mini.space = s
                                 /\ x.mini.kind # "Fullscreen"}

\* In the sticky layer, or minimized from it.
Sticks(x) == x.sticky # "no"

\* The window can have the keyboard focus or be in the focus stack of s:
\* sticky windows are kept there, and one minimized from the sticky layer is
\* not marked minimized.
Focusable(x, s) == Sticks(x) \/ Mapped(x, s)

\* Whether its layer is the tiling one, also while it is minimized.
IsTiled(x, s) == \/ x.nodes[s] > 0
                 \/ x.mini # None /\ x.mini.space = s /\ x.mini.kind = "Tiling"

(* Changes of one layer.                                                    *)
Float(x, s) == [x EXCEPT !.floating = @ \cup {s}]
Unfloat(x, s) == [x EXCEPT !.floating = @ \ {s}]
Tile(x, s) == [x EXCEPT !.nodes[s] = @ + 1]
Untile(x, s) == [x EXCEPT !.nodes[s] = IF @ > 0 THEN @ - 1 ELSE 0]

\* Setting maximized_state and map_maximized in the floating layer of s.
Maximized(x, s, layer) == [Float(x, s) EXCEPT !.max = layer, !.told = TRUE]

\* Mutant: it enters before it leaves.
Reannounced_EntersFirst(x, from, to) == [x EXCEPT !.on = (@ \cup {to}) \ {from}]

\* It leaves one workspace and enters another, or the same.
Reannounced(x, from, to) == [x EXCEPT !.on = (@ \ {from}) \cup {to}]

Crash(x, why) == [x EXCEPT !.crash = why]

(***************************************************************************)
(* The operations of a workspace on one window.                            *)
(***************************************************************************)

\* unmaximize_request of workspace s, whose tiling_enabled is t.  A window that
\* is maximized in the sticky layer is not expected here.
Unmaximized(x, s, t) ==
  LET y == [x EXCEPT !.max = None, !.told = FALSE] IN
  CASE x.max = None -> x
    [] x.max # None /\ x.mini # None -> [y EXCEPT !.mini.max = x.mini.kind = "Floating" /\ @]
    [] x.mini = None /\ x.max = "Tiling" /\ t -> Unfloat(y, s)
    [] x.mini = None /\ x.max = "Sticky" -> Crash(x, "Sticky")
    [] OTHER -> Float(y, s)

\* unmap_element: the window leaves its layer.
Unmapped(x, s) ==
  LET y == Unmaximized(x, s, tiling[s]) IN
  IF y.mini # None THEN [y EXCEPT !.mini = None, !.minimized = FALSE]
  ELSE IF y.nodes[s] > 0 THEN Untile(y, s)
  ELSE Unfloat(y, s)

\* The data unmap_element returns: the layer the window had and whether it was
\* maximized; None if it was in no layer of s.
WayBack(x, s) ==
  IF s \notin Homes(x) THEN None
  ELSE IF x.mini # None THEN [kind |-> x.mini.kind, space |-> s, max |-> x.mini.max]
  ELSE [kind |-> IF x.nodes[s] > 0 THEN "Tiling" ELSE "Floating",
        space |-> s, max |-> x.max # None]

\* Mutant: a window maximized out of the tree is left in the floating layer.
MinimizedFrom_Floating(x, s) ==
  LET y == IF x.max = None THEN x ELSE [x EXCEPT !.max = None, !.told = FALSE]
      kind == IF s \in y.floating THEN "Floating" ELSE "Tiling"
      z == IF s \in y.floating THEN Unfloat(y, s) ELSE Untile(y, s)
  IN IF ~Mapped(y, s) THEN Crash(y, "other")
     ELSE [z EXCEPT !.minimized = TRUE,
                    !.mini = [space |-> s, kind |-> kind, max |-> x.max # None,
                              back |-> None]]

\* Workspace::minimize of a window mapped on s.
MinimizedFrom(x, s) ==
  LET y == IF x.max = None THEN x
           ELSE [(IF x.max = "Tiling" /\ tiling[s] THEN Unfloat(x, s) ELSE x)
                   EXCEPT !.max = None, !.told = FALSE]
      Gone(z, kind) ==
        [z EXCEPT !.minimized = TRUE,
                  !.mini = [space |-> s, kind |-> kind, max |-> x.max # None,
                            back |-> None]]
  IN CASE s \in y.floating -> Gone(Unfloat(y, s), "Floating")
       [] s \notin y.floating /\ y.nodes[s] > 0 -> Gone(Untile(y, s), "Tiling")
       [] OTHER -> Crash(y, "other")

\* Mutant: was_maximized is forgotten.
Unminimized_Small(x) ==
  LET m == x.mini
      y == [x EXCEPT !.mini = None, !.minimized = FALSE]
  IN IF m.kind = "Fullscreen"
     THEN [y EXCEPT !.full = [space |-> m.space, back |-> m.back]]
     ELSE IF m.kind = "Tiling" /\ tiling[m.space] THEN Tile(y, m.space)
     ELSE Float(y, m.space)

\* Workspace::unminimize, on the workspace of the minimized window.
Unminimized(x) ==
  LET m == x.mini
      s == m.space
      y == [x EXCEPT !.mini = None, !.minimized = FALSE]
      z == IF m.kind = "Tiling" /\ tiling[s] THEN Tile(y, s) ELSE Float(y, s)
  IN IF m.kind = "Fullscreen"
     THEN [y EXCEPT !.full = [space |-> s, back |-> m.back]]
     ELSE IF m.max THEN Maximized(z, s, m.kind) ELSE z

\* map_fullscreen on s.  The window's CosmicMapped is dropped.
MadeFullscreen(x, s, back) ==
  [x EXCEPT !.fullscreen = TRUE, !.full = [space |-> s, back |-> back],
            !.max = None, !.before = None]

\* toggle_floating_window of s: nothing unless s is tiling.
FloatingToggled(x, s) ==
  LET y == IF x.acked THEN Unmaximized(x, s, TRUE) ELSE x IN
  CASE tiling[s] /\ y.nodes[s] > 0 -> Float(Untile(y, s), s)
    [] tiling[s] /\ y.nodes[s] = 0 /\ s \in y.floating -> Tile(Unfloat(y, s), s)
    [] tiling[s] /\ ~Mapped(y, s) -> y
    [] OTHER -> x

\* set_tiling of s, to b.  The flag read is the one the client has committed.
TilingSet(x, s, b) ==
  LET y == IF x.acked THEN Unmaximized(x, s, TRUE) ELSE x
      tiled == Tile(Unfloat(x, s), s)
      floated == Float(Untile(y, s), s)
  IN CASE b /\ s \in x.floating ->
            IF x.acked THEN Maximized(tiled, s, "Tiling") ELSE tiled
       [] ~b /\ x.nodes[s] > 0 ->
            IF x.acked THEN Maximized(floated, s, "Floating") ELSE floated
       [] OTHER -> x

\* enter_monocle and exit_monocle of s.
MonocleEntered(x, s) ==
  LET y == IF tiling[s] THEN TilingSet(x, s, FALSE) ELSE x
  IN IF s \in y.floating THEN [y EXCEPT !.told = TRUE] ELSE y

MonocleExited(x, s) ==
  LET y == IF Mapped(x, s) THEN [x EXCEPT !.told = FALSE] ELSE x
  IN IF restore[s] = "Tiling" /\ ~tiling[s] THEN TilingSet(y, s, TRUE) ELSE y

(***************************************************************************)
(* The operations of the shell on one window.                              *)
(***************************************************************************)

\* minimize_request.  A sticky window is put aside as it is.
MinimizeOf(x) ==
  CASE x.sticky = "shown" -> [x EXCEPT !.sticky = "minimized"]
    [] x.full # None ->
         [x EXCEPT !.full = None, !.minimized = TRUE,
                   !.mini = [space |-> x.full.space, kind |-> "Fullscreen",
                             max |-> FALSE, back |-> x.full.back]]
    [] x.sticky # "shown" /\ x.full = None /\ \E s \in Spaces : Mapped(x, s) ->
         MinimizedFrom(x, CHOOSE s \in Spaces : Mapped(x, s))
    [] OTHER -> x

\* unminimize_request.
UnminimizeOf(x) ==
  CASE x.sticky = "minimized" -> [x EXCEPT !.sticky = "shown"]
    [] x.sticky # "minimized" /\ x.mini # None -> Unminimized(x)
    [] OTHER -> x

\* Mutant: a sticky window is noted as maximized in the layer it came from.
MaximizeOf_Previous(x) ==
  LET y == UnminimizeOf(x) IN
  CASE y.max # None -> y
    [] y.max = None /\ y.sticky = "shown" ->
         [y EXCEPT !.max = IF y.before = None THEN "Floating" ELSE y.before, !.told = TRUE]
    [] y.max = None /\ Homes(y) # {} ->
         LET s == CHOOSE h \in Homes(y) : TRUE
         IN Maximized(y, s, IF IsTiled(y, s) THEN "Tiling" ELSE "Floating")
    [] OTHER -> y

\* maximize_request: a maximized window is not maximized again.
MaximizeOf(x) ==
  LET y == UnminimizeOf(x) IN
  CASE y.max # None -> y
    [] y.max = None /\ y.sticky = "shown" -> [y EXCEPT !.max = "Sticky", !.told = TRUE]
    [] y.max = None /\ Homes(y) # {} ->
         LET s == CHOOSE h \in Homes(y) : TRUE
         IN Maximized(y, s, IF IsTiled(y, s) THEN "Tiling" ELSE "Floating")
    [] OTHER -> y

\* unmaximize_request.
UnmaximizeOf(x) ==
  CASE Sticks(x) /\ x.max # None ->
         IF x.max = "Sticky" THEN [x EXCEPT !.max = None, !.told = FALSE]
         ELSE Crash(x, "other")
    [] ~Sticks(x) /\ Homes(x) # {} ->
         LET s == CHOOSE h \in Homes(x) : TRUE IN Unmaximized(x, s, tiling[s])
    [] OTHER -> x

\* Mutant: back in a workspace, the window is not maximized there.
StickyToggled_StaysMaximized(x) ==
  IF Homes(x) # {}
  THEN LET s == CHOOSE h \in Homes(x) : TRUE
           layer == IF IsTiled(x, s) THEN "Tiling" ELSE "Floating"
           y == IF IsTiled(x, s) THEN FloatingToggled(x, s) ELSE x
       IN IF Mapped(y, s)
          THEN [Unmapped(y, s) EXCEPT !.before = layer, !.stuck = TRUE, !.sticky = "shown"]
          ELSE y
  ELSE IF x.sticky = "shown"
  THEN LET y == [x EXCEPT !.sticky = "no", !.stuck = FALSE, !.before = None]
       IN IF x.before = "Tiling" /\ tiling[active] THEN Tile(y, active) ELSE Float(y, active)
  ELSE x

\* toggle_sticky.  unmap_element has unmaximized a window before it is put in
\* the sticky layer; back in a workspace, it is maximized again.
StickyToggled(x) ==
  IF Homes(x) # {}
  THEN LET s == CHOOSE h \in Homes(x) : TRUE
           layer == IF IsTiled(x, s) THEN "Tiling" ELSE "Floating"
           y == IF IsTiled(x, s) THEN FloatingToggled(x, s) ELSE x
       IN IF Mapped(y, s)
          THEN [Unmapped(y, s) EXCEPT !.before = layer, !.stuck = TRUE,
                                      !.sticky = "shown", !.on = @ \ {s}]
          ELSE y
  ELSE IF x.sticky = "shown"
  THEN LET layer == IF x.before = None THEN "Floating" ELSE x.before
           y == [x EXCEPT !.sticky = "no", !.stuck = FALSE, !.before = None,
                          !.on = @ \cup {active}]
           z == IF layer = "Tiling" /\ tiling[active] THEN Tile(y, active)
                ELSE Float(y, active)
       IN IF x.max = None THEN z ELSE Maximized(z, active, layer)
  ELSE x

\* fullscreen_request, on the active workspace.  A minimized window stays.
FullscreenOf(x) ==
  CASE x.sticky = "shown" ->
         MadeFullscreen(
           [x EXCEPT !.sticky = "no", !.told = IF x.max = None THEN @ ELSE FALSE,
                     !.on = @ \cup {active}],
           active, [kind |-> "Sticky", space |-> active, max |-> x.max # None])
    [] x.sticky # "shown" /\ Homes(x) # {} /\ ~x.minimized ->
         LET s == CHOOSE h \in Homes(x) : TRUE
             y == Reannounced(Unmapped(x, s), s, active)
         IN MadeFullscreen(y, active, WayBack(x, s))
    [] OTHER -> x

\* unfullscreen_request and remap_unfullscreened_window.
UnfullscreenOf(x) ==
  IF x.full = None THEN x
  ELSE
    LET b == x.full.back
        y == [x EXCEPT !.full = None, !.fullscreen = FALSE]
        s == IF b = None THEN active ELSE b.space
        tile == (b = None \/ b.kind = "Tiling") /\ tiling[s]
        z == IF tile THEN Tile(y, s) ELSE Float(y, s)
        back == IF b # None /\ b.max
                THEN Maximized(z, s, IF tile THEN "Tiling" ELSE "Floating") ELSE z
    IN IF b # None /\ b.kind = "Sticky"
       THEN [y EXCEPT !.sticky = "shown", !.on = @ \ {x.full.space}]
       ELSE Reannounced(back, x.full.space, s)

-----------------------------------------------------------------------------
(* What is on the screen, and the rules that several actions share.         *)

\* Where a window is: its layer, workspace, and whether it is maximized; None
\* if it is minimized, fullscreen or closed.  Of a sticky window it is not
\* remembered that it was maximized.
Place(x) ==
  CASE x.sticky = "shown" -> [layer |-> "Sticky", space |-> None, max |-> FALSE]
    [] x.sticky # "shown" /\ \E s \in Spaces : Mapped(x, s) ->
         LET s == CHOOSE h \in Spaces : Mapped(x, h)
         IN [layer |-> IF x.nodes[s] > 0 THEN "Tiling" ELSE "Floating",
             space |-> s, max |-> x.max # None]
    [] OTHER -> None

\* The history of the windows new that are away.
Remembered(new) ==
  [w \in Windows |->
     IF ~new[w].open \/ Place(new[w]) # None THEN None
     ELSE IF Place(win[w]) # None THEN Place(win[w])
     ELSE was[w]]

\* Before a window is tiled on s, the other windows mapped there are unmaximized.
RoomFor(w, s) ==
  [v \in Windows |-> IF v # w /\ Mapped(win[v], s)
                      THEN Unmaximized(win[v], s, tiling[s]) ELSE win[v]]

\* Some window of s has not acknowledged whether it is maximized.
Unanswered(s) == \E w \in Windows : Mapped(win[w], s) /\ win[w].told # win[w].acked

\* The surface belongs to an element (element_for_surface): it is not fullscreen.
HasElement(w) == /\ win[w].open
                 /\ win[w].full = None
                 /\ win[w].mini # None => win[w].mini.kind # "Fullscreen"

\* A request turns window w into x and touches nothing else.
Change(w, x) ==
  LET new == [win EXCEPT ![w] = x] IN
  /\ win' = new
  /\ was' = Remembered(new)
  /\ UNCHANGED <<tiling, mode, restore>>

(***************************************************************************)
(* Requests for one window, by its client, a panel, its menu or a shortcut.*)
(***************************************************************************)

\* map_window on workspace s, with what the client asked for before it was
\* mapped.  float: a dialog, a window rule or a tiling exception.
Open(w, s, float, sticky, maximize, minimize) ==
  LET opened == [Fresh EXCEPT !.open = TRUE, !.on = {s}]
      tile == ~float /\ tiling[s]
      x == IF tile THEN Tile(opened, s)
           ELSE [Float(opened, s) EXCEPT !.told = mode[s] = "Monocle" /\ ~float]
      y == IF sticky THEN StickyToggled(x) ELSE x
      z == IF maximize THEN MaximizeOf(y) ELSE y
      new == [(IF tile THEN RoomFor(w, s) ELSE win)
                EXCEPT ![w] = IF minimize THEN MinimizeOf(z) ELSE z]
  IN /\ ~win[w].open
     /\ win' = new
     /\ was' = Remembered(new)
     /\ UNCHANGED <<tiling, mode, restore, active, usual>>

OpenFullscreen(w, s) ==
  /\ ~win[w].open
  /\ Change(w, MadeFullscreen([Fresh EXCEPT !.open = TRUE, !.on = {s}], s, None))
  /\ UNCHANGED <<active, usual>>

\* Shell::unmap_surface, for a window that is destroyed.
Close(w) ==
  /\ win[w].open
  /\ Change(w, Fresh)
  /\ UNCHANGED <<active, usual>>

\* The client commits the state it was sent.
Acknowledge(w) ==
  /\ win[w].told # win[w].acked
  /\ Change(w, [win[w] EXCEPT !.acked = win[w].told])
  /\ UNCHANGED <<active, usual>>

Minimize(w) ==
  /\ win[w].open
  /\ Change(w, MinimizeOf(win[w]))
  /\ UNCHANGED <<active, usual>>

Unminimize(w) ==
  /\ win[w].open
  /\ Change(w, UnminimizeOf(win[w]))
  /\ UNCHANGED <<active, usual>>

Maximize(w) ==
  /\ HasElement(w)
  /\ Change(w, MaximizeOf(win[w]))
  /\ UNCHANGED <<active, usual>>

Unmaximize(w) ==
  /\ HasElement(w)
  /\ Change(w, UnmaximizeOf(win[w]))
  /\ UNCHANGED <<active, usual>>

Fullscreen(w) ==
  /\ HasElement(w)
  /\ Change(w, FullscreenOf(win[w]))
  /\ UNCHANGED <<active, usual>>

Unfullscreen(w) ==
  /\ win[w].full # None
  /\ Change(w, UnfullscreenOf(win[w]))
  /\ UNCHANGED <<active, usual>>

ToggleSticky(w) ==
  /\ HasElement(w)
  /\ Change(w, StickyToggled(win[w]))
  /\ usual' = (usual /\ win[w].told = win[w].acked)
  /\ UNCHANGED active

\* The shortcut acts on the focused window and the active workspace, the menu
\* on a window where it is.
ToggleFloating(w, s) ==
  /\ Mapped(win[w], s) \/ (s = active /\ Focusable(win[w], s))
  /\ Change(w, FloatingToggled(win[w], s))
  /\ usual' = (usual /\ win[w].told = win[w].acked)
  /\ UNCHANGED active

\* move_current and move_element: the focused window moves to workspace to.  One
\* that is not in a layer of the active workspace stays.
MoveCurrent(w, to, follow) ==
  LET x == win[w]
      y == Unmapped(x, active)
      back == WayBack(x, active)
      tile == back # None /\ tiling[to]
      moved == IF back = None THEN y
               ELSE IF tile THEN Tile(y, to)
               ELSE IF back.kind = "Floating" /\ back.max THEN Maximized(y, to, "Floating")
               ELSE Float(y, to)
  IN /\ Focusable(x, active) /\ to # active
     /\ win' = [(IF tile THEN RoomFor(w, to) ELSE win) EXCEPT
                  ![w] = IF back = None THEN moved
                         ELSE Reannounced(moved, active, to)]
     /\ was' = [was EXCEPT ![w] = None]
     /\ active' = IF follow /\ back # None THEN to ELSE active
     /\ UNCHANGED <<tiling, mode, restore, usual>>

\* Mutant: a minimized window that moves is marked as shown.
MoveWindow_Shown(w, from, to, follow) ==
  LET x == win[w]
      y == [Unmapped(x, from) EXCEPT !.before = None]
      tile == x.full = None /\ x.mini = None /\ tiling[to]
      moved == CASE x.full # None -> [x EXCEPT !.full.space = to]
                 [] x.mini # None -> [y EXCEPT !.mini = [x.mini EXCEPT !.space = to]]
                 [] tile -> Tile(y, to)
                 [] OTHER -> Float(y, to)
  IN /\ IF x.full # None THEN x.full.space = from ELSE from \in Homes(x)
     /\ win' = [(IF tile THEN RoomFor(w, to) ELSE win) EXCEPT ![w] = moved]
     /\ was' = [was EXCEPT ![w] = None]
     /\ active' = IF follow /\ ~x.minimized THEN to ELSE active
     /\ UNCHANGED <<tiling, mode, restore, usual>>

\* move_window: from a panel or a menu, also for minimized and fullscreen
\* windows.  A mapped window gets a new CosmicMapped; a fullscreen one shall
\* return to the workspace it moves to.
MoveWindow(w, from, to, follow) ==
  LET x == win[w]
      y == [Unmapped(x, from) EXCEPT !.before = None]
      tile == x.full = None /\ x.mini = None /\ tiling[to]
      b == x.full.back
      back == IF b = None THEN None
              ELSE IF tiling[to] /\ ~tiling[from]
              THEN [kind |-> "Tiling", space |-> to, max |-> b.max]
              ELSE IF b.kind = "Sticky" THEN b ELSE [b EXCEPT !.space = to]
      moved == CASE x.full # None -> MadeFullscreen(x, to, back)
                 [] x.mini # None -> [y EXCEPT !.mini = [x.mini EXCEPT !.space = to],
                                              !.minimized = TRUE]
                 [] tile -> Tile(y, to)
                 [] OTHER -> Float(y, to)
  IN /\ IF x.full # None THEN x.full.space = from ELSE from \in Homes(x)
     /\ win' = [(IF tile THEN RoomFor(w, to) ELSE win) EXCEPT
                  ![w] = Reannounced(moved, from, to)]
     /\ was' = [was EXCEPT ![w] = None]
     /\ active' = IF follow /\ ~x.minimized THEN to ELSE active
     /\ UNCHANGED <<tiling, mode, restore, usual>>

\* A panel activates a window.  elsewhere: another one has the focus.
Activate(w, elsewhere) ==
  LET x == UnminimizeOf(win[w])
      at == {s \in Spaces : Mapped(x, s) \/ (x.full # None /\ x.full.space = s)}
      room == {s \in at : elsewhere /\ IsTiled(x, s)}
      new == [v \in Windows |->
                IF v = w THEN x
                ELSE IF \E s \in room : Mapped(win[v], s)
                THEN RoomFor(w, CHOOSE s \in room : Mapped(win[v], s))[v]
                ELSE win[v]]
  IN /\ win[w].open
     /\ win' = new
     /\ was' = Remembered(new)
     /\ active' = IF at = {} THEN active ELSE CHOOSE s \in at : TRUE
     /\ UNCHANGED <<tiling, mode, restore, usual>>

(***************************************************************************)
(* Requests for a workspace.                                               *)
(***************************************************************************)

Switch(s) ==
  /\ s # active
  /\ active' = s
  /\ UNCHANGED <<win, tiling, mode, restore, was, usual>>

\* set_tiling of s to b, with whatever becomes of its layout mode.
SetTiling(s, b, layout) ==
  /\ win' = [w \in Windows |-> TilingSet(win[w], s, b)]
  /\ tiling' = [tiling EXCEPT ![s] = b]
  /\ mode' = [mode EXCEPT ![s] = layout]
  /\ was' = [w \in Windows |-> None]
  /\ usual' = (usual /\ ~Unanswered(s) /\ b # tiling[s])
  /\ UNCHANGED <<restore, active>>

\* The shortcut, with autotile_behavior PerWorkspace.
ToggleTiling ==
  SetTiling(active, ~tiling[active], IF tiling[active] THEN "Floating" ELSE "Tiling")

\* SetTilingState of the workspace protocol: layout_mode stays.
RequestTiling(s, b) == SetTiling(s, b, mode[s])

EnterMonocle ==
  /\ mode[active] # "Monocle"
  /\ win' = [w \in Windows |-> MonocleEntered(win[w], active)]
  /\ tiling' = [tiling EXCEPT ![active] = FALSE]
  /\ mode' = [mode EXCEPT ![active] = "Monocle"]
  /\ restore' = [restore EXCEPT ![active] = mode[active]]
  /\ was' = [w \in Windows |-> None]
  /\ usual' = FALSE
  /\ UNCHANGED active

ExitMonocle ==
  /\ mode[active] = "Monocle"
  /\ win' = [w \in Windows |-> MonocleExited(win[w], active)]
  /\ tiling' = [tiling EXCEPT ![active] = @ \/ restore[active] = "Tiling"]
  /\ mode' = [mode EXCEPT ![active] = restore[active]]
  /\ restore' = [restore EXCEPT ![active] = None]
  /\ was' = [w \in Windows |-> None]
  /\ usual' = FALSE
  /\ UNCHANGED active

\* set_layout_mode, from the desktop shell: monocle is left first, then tiling
\* is set.  Entering monocle is EnterMonocle.
SetLayoutMode(layout) ==
  LET s == active
      leave == mode[s] = "Monocle"
      now == tiling[s] \/ (leave /\ restore[s] = "Tiling")
      b == layout = "Tiling"
      Left(x) == IF leave THEN MonocleExited(x, s) ELSE x
  IN /\ layout # mode[s]
     /\ win' = [w \in Windows |->
                  IF now = b THEN Left(win[w]) ELSE TilingSet(Left(win[w]), s, b)]
     /\ tiling' = [tiling EXCEPT ![s] = b]
     /\ mode' = [mode EXCEPT ![s] = layout]
     /\ restore' = IF leave THEN [restore EXCEPT ![s] = None] ELSE restore
     /\ was' = [w \in Windows |-> None]
     /\ usual' = (usual /\ ~Unanswered(s))
     /\ UNCHANGED active

-----------------------------------------------------------------------------

\* The layers that hold a window.  One that is maximized out of the tiling
\* layer is shown in the floating one and keeps its node.
Layers(x) ==
  {<<s, "Tiling">> : s \in {t \in Spaces : x.nodes[t] > 0}}
    \cup {<<s, "Floating">> : s \in {t \in x.floating : ~(x.max = "Tiling" /\ x.nodes[t] > 0)}}
    \cup (IF x.mini # None THEN {<<x.mini.space, "Minimized">>} ELSE {})
    \cup (IF x.full # None THEN {<<x.full.space, "Fullscreen">>} ELSE {})
    \cup (IF Sticks(x) THEN {<<None, "Sticky">>} ELSE {})

InOneLayer(x) == Cardinality(Layers(x)) = 1 /\ \A s \in Spaces : x.nodes[s] <= 1

Panicked == \E w \in Windows : win[w].crash # "no"

Followed == ~Panicked /\ \A w \in Windows : win[w].open => InOneLayer(win[w])

WindowRequest(w) ==
  \/ \E s \in Spaces, float, sticky, maximize, minimize \in BOOLEAN :
       Open(w, s, float, sticky, maximize, minimize)
  \/ \E s \in Spaces : OpenFullscreen(w, s) \/ ToggleFloating(w, s)
  \/ Close(w)
  \/ Acknowledge(w)
  \/ Minimize(w)
  \/ Unminimize(w)
  \/ Maximize(w)
  \/ Unmaximize(w)
  \/ Fullscreen(w)
  \/ Unfullscreen(w)
  \/ ToggleSticky(w)
  \/ \E to \in Spaces, follow \in BOOLEAN : MoveCurrent(w, to, follow)
  \/ \E from, to \in Spaces, follow \in BOOLEAN : MoveWindow(w, from, to, follow)
  \/ \E elsewhere \in BOOLEAN : Activate(w, elsewhere)

WorkspaceRequest ==
  \/ \E s \in Spaces : Switch(s)
  \/ ToggleTiling
  \/ \E s \in Spaces, b \in BOOLEAN : RequestTiling(s, b)
  \/ EnterMonocle
  \/ ExitMonocle
  \/ \E layout \in {"Floating", "Tiling"} : SetLayoutMode(layout)

Next == Followed /\ ((\E w \in Windows : WindowRequest(w)) \/ WorkspaceRequest)

Spec == Init /\ [][Next]_vars

-----------------------------------------------------------------------------

\* Types.  What monocle mode goes back to is never monocle mode: enter_monocle
\* returns early when it is on.
WindowRecords ==
  [open : BOOLEAN, floating : SUBSET Spaces, nodes : [Spaces -> 0..2],
   mini : {None} \cup MinimizedWindows, full : {None} \cup FullscreenSurfaces,
   sticky : {"no", "shown", "minimized"},
   max : {None, "Floating", "Tiling", "Sticky"},
   before : {None, "Floating", "Tiling"},
   told : BOOLEAN, acked : BOOLEAN, minimized : BOOLEAN,
   fullscreen : BOOLEAN, stuck : BOOLEAN, on : SUBSET Spaces, crash : {"no", "Sticky", "other"}]

TypeOK ==
  /\ win \in [Windows -> WindowRecords]
  /\ tiling \in [Spaces -> BOOLEAN]
  /\ mode \in [Spaces -> Layouts]
  /\ restore \in [Spaces -> {None, "Floating", "Tiling"}]
  /\ active \in Spaces
  /\ was \in [Windows -> {None} \cup Places]
  /\ usual \in BOOLEAN

\* Whatever requests come in whatever order, an open window is in exactly one
\* layer of one workspace (or in the sticky layer), once: unmap_element,
\* minimize, map_fullscreen and the others never leave a copy behind that is
\* still drawn, and never drop the window.  Usual histories only.
OneLayer == usual /\ ~Panicked => \A w \in Windows : win[w].open => InOneLayer(win[w])

\* The client is told that it is maximized exactly while maximized_state is set;
\* the layer noted there is the sticky one exactly for sticky windows, and a
\* window that is maximized in a workspace is in its floating layer, where a
\* maximized window is drawn; one that keeps its node in the tree was maximized
\* out of it.  unmaximize_request relies on all of this.
MaximizedAgrees ==
  usual /\ ~Panicked =>
    \A w \in Windows :
      LET x == win[w] IN
      /\ x.told <=> x.max # None
      /\ x.max = "Sticky" <=> x.max # None /\ Sticks(x)
      /\ x.max # None /\ ~Sticks(x) => x.floating # {}
      /\ \A s \in Spaces : x.nodes[s] > 0 /\ x.max # None => x.max = "Tiling"

\* The layers of the workspaces and what a window remembers of its own layer
\* (maximized_state) agree, whatever requests came.
LayersAgree == TypeOK /\ OneLayer /\ MaximizedAgrees

\* What panels and clients are told follows where the window is: minimized while
\* it is in minimized_windows, fullscreen while it is a fullscreen surface or one
\* that is minimized, sticky while it is in the sticky layer of the set.
FlagsAgree ==
  ~Panicked =>
    \A w \in Windows :
      LET x == win[w] IN
      /\ x.minimized <=> x.mini # None
      /\ x.fullscreen <=> x.full # None \/ (x.mini # None /\ x.mini.kind = "Fullscreen")
      /\ Sticks(x) => x.stuck

\* toplevel_info announces a window on the workspace where it is, shown,
\* minimized or fullscreen, and on no other; one in the sticky layer on none.
\* What is announced is changed by hand next to every change of the layers.
AnnouncedWhereItIs ==
  usual /\ ~Panicked =>
    \A w \in Windows :
      LET x == win[w] IN
      x.on = {s \in Spaces : \/ Mapped(x, s)
                             \/ x.mini # None /\ x.mini.space = s
                             \/ x.full # None /\ x.full.space = s}

\* Unminimizing and unfullscreening are the way back of minimizing and
\* fullscreen, in any nesting and with any requests between them that do not move
\* the window or change tiling: it comes back to the layer and the workspace it
\* had, and maximized if it was (MinimizedWindow, WorkspaceRestoreData).
ComesBack ==
  [][\A w \in Windows :
       was[w] # None /\ win'[w].open /\ Place(win'[w]) # None =>
         LET p == Place(win'[w]) IN
         /\ p.layer = was[w].layer
         /\ p.space = was[w].space
         /\ was[w].max => p.max]_vars

\* No unreachable!() and no failed expectation about layers is met, except for
\* the one that NoPanic is about: a window that a workspace minimizes is in one
\* of its layers, and a sticky one that is unmaximized was maximized as such.
OnlyStickyPanics == usual => \A w \in Windows : win[w].crash # "other"

\* unmaximize_request of a workspace is never asked for a window that is
\* maximized in the sticky layer: the arm for ManagedLayer::Sticky is marked
\* unreachable!().
NoPanic == ~Panicked
=============================================================================
