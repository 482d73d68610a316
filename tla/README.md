# A TLA+ verification of the Arlen compositor

The compositor (`cosmic-comp` in the Arlen fork) is one process with a main
loop (calloop) that handles clients, input, D-Bus, configuration and hotplug,
one rendering thread per enabled output, and a few helper threads. This
directory holds TLA+ models of its parts, TLC configurations that check them on
small instances, and TLAPS proofs. `PROJECT.json` lists the components, runs,
hazards and theorems, and maps every definition to the lines it models. Paths
below are relative to the repository.

| module | models | checked by |
|---|---|---|
| `FrameLoop` | what the thread of an output promises, without timers and commands | implemented by `KmsSurface` |
| `KmsSurface` | one output of the KMS backend: the `Surface` handle of the main loop, the surface thread, its command channel, its timers, the kernel's page flips | `kms_surface`, `outputs` |
| `KmsDevice` | GPUs and monitors that come and go, CRTCs, VT switches, the configuration of outputs and its protocol | `outputs`, `outputs_crtcs` |
| `SessionLock` | the session lock between lock clients, the main loop and the surface threads of several outputs | `session_lock`, `session_lock_held_back` |
| `Workspaces` | workspace sets of all outputs, both workspace modes, hotplug, the workspace protocol's state, pinned workspaces | `workspaces`, `workspaces_more` |
| `WorkspaceProtocol` | what clients are told of workspaces: handles, what is told at once and what after an update, requests and commits | `workspaces` |
| `ToplevelInfo` | what clients are told of windows: what each handle was sent, the difference a refresh sends, `done` | `workspaces` |
| `WindowLayers` | the windows of one output: layers, states and flags, under every request of clients, panels and shortcuts | `window_layers`, `window_layers_panic` |
| `TilingTree` | the tree of a tiling layout, minimizing and restoring, the keyboard's moves, stacking, dragging | `layout` |
| `Stack` | a stack of windows: tabs, the keyboard, the tab list of the shell | `layout` |
| `Focus` | the keyboard focus of a seat, its focus stacks, dialogs, layer surfaces, the lock screen | `layout`, `outputs`, `lock_screen_keys` |
| `NameOwners` | owners of bus names, learned from a stream and from answers, and the keyboard grabs that depend on them | `services` |
| `AppBindings` | applications registered over D-Bus, their key bindings, and which binding answers a key | `services` |
| `EventBus` | the bounded channel to the event bus, its writer thread, and the reports of focus | `services` |
| `KeyFilter` | which keys and buttons of a seat go to clients and which the compositor keeps, from press to release | `services` |

The modules `...Proofs` and `KmsSurfaceRefinement` hold the proofs (section 4). The
modules `MC...` instantiate the others for TLC: try
`tlc -config MCWorkspaces.cfg MCWorkspaces`, and `tlapm KmsSurfaceProofs.tla`.

## 1. Inventory

What each part keeps and does, what is hard about it, and what makes it
correct. "Modelled" names the module; what is not modelled is in section 5.

### Output pipeline

* **KMS surface thread** (`src/backend/kms/surface/`) - *modelled:
  `KmsSurface`*. State: `QueueState` (Idle, Queued, WaitingForVBlank and the two
  estimated-VBlank states), the DRM compositor, `Timings`, mirroring; shared with
  the main loop: a command channel and the `active` flag. Operations: render
  requests, VBlanks, real and estimated, suspend, resume, DPMS, mirroring, render
  nodes, end. Hard: page-flip events, commands and timers come in any order, and
  `unreachable!()` guards the combinations nobody expected. Correct when every
  callback finds the state it was armed for, a thread that waits is owed an
  event, scheduled content is drawn, blocking calls return.
* **KMS devices, hotplug, VT switches** (`src/backend/kms/{mod,device}.rs`,
  `src/config/mod.rs`, `src/state.rs`) - *modelled: `KmsDevice`*. State: devices,
  the output of each connector, the surface of each CRTC, the heads of the
  configuration protocol, the outputs of the shell, the configurations
  remembered. Operations: device added, changed, removed; session paused and
  activated; `apply_config_for_outputs`, which drops surfaces, tries a
  configuration and falls back; requests of clients. Hard: errors half-way,
  events in the wrong order, five lists kept by hand. Correct when the lists
  agree, and what the user chose for a set of displays is remembered.
* **Winit and X11 backends**: nested, single-threaded, for development.
* **Rendering** (`src/backend/render/`): elements, shaders, cursors, blur,
  window headers, animations. What a frame looks like; no control.

### Shell

* **Workspaces and workspace sets** (`src/shell/mod.rs`) - *modelled:
  `Workspaces`*. State: a set per output with its workspaces, active index,
  previous index and animation; a backup set when no output is left; the
  protocol's groups and Active flags; the outputs each workspace remembers;
  pinned workspaces and their saved copy. Operations: activate, swipe, add and
  remove outputs, migrate, move before and after, pin, change of mode, and
  `refresh`, which reaps empty workspaces and keeps a spare one. Hard: indices
  into lists that change, workspaces that must find their way home, protocol
  state kept beside the real one. Correct when no workspace is lost, duplicated
  or reaped with something on it, and clients see what is shown.
* **Windows of a workspace** (`src/shell/workspace.rs`, `src/shell/mod.rs`) -
  *modelled: `WindowLayers`*. State: which of the floating, tiling, minimized,
  fullscreen and sticky layers holds a window, the state remembered for the way
  back, and the flags clients see, each pending or acknowledged. Operations: map,
  unmap, move, minimize, maximize, fullscreen, tile, stick, their inverses,
  monocle, grabs. Hard: every pair of operations; several read the acknowledged
  flag while others change the pending one. Correct when a window is in exactly
  one layer, returns to where it was, and is told what is true.
* **Tiling layout** (`src/shell/layout/tiling/`) - *modelled: `TilingTree`*. A
  tree of groups and tiles; map, unmap, minimize, remap, move, swap, stack, drag.
  Hard: a group's sizes are kept apart from its children, nodes are remembered by
  number while the tree changes, a group with one child is dissolved. Correct
  when every window is a leaf once, a group has as many sizes as children, and a
  minimized tile comes back to its place.
* **Stacks** (`src/shell/element/stack.rs`) - *modelled: `Stack`*. The active
  index, read unchecked; the index the keyboard was last at; idle callbacks that
  tell the shell of tabs by index. Correct when the index is one of a window, keys
  go to that window, and the shell's list becomes the list of tabs.
* **Focus** (`src/shell/focus/`, `seats.rs`) - *modelled: `Focus`*. A focus stack
  per seat and workspace, the focus last known, the output that has it, wishes
  left for the next refresh. Hard: everything may change between a request and
  the refresh that repairs the focus. Correct when keys go only to what may have
  them, and what waits for them gets them.
* **Input dispatch** (`src/input/`, `src/libei.rs`) - *keys and buttons modelled:
  `KeyFilter`*. State: keys and buttons that are kept from clients, by source, timers
  of actions that repeat, the queue of modifiers that may become a binding, resize
  mode. Hard: a release is handled by other rules than its press, and everything the
  rules ask may have changed between. Correct when nothing stays pressed for clients,
  nothing stays suppressed, and nothing repeats for a key that was let go.
* **Floating layout**, **windows and surfaces**, **grabs**, **scratchpad**,
  **fullscreen reveal**, **header policy**, **zoom**, **night light**: section 5.

### Protocols and services

* **Session lock** (`src/wayland/handlers/session_lock.rs`, `src/presented.rs`,
  `send_frames` in `src/state.rs`) - *modelled: `SessionLock`*. State: the lock,
  its surfaces, the outputs that have not presented a locked frame, the marks on
  lock surfaces; frames under way in the threads. Hard: frames drawn before the
  lock arrive after it; outputs leave; the lock client dies. Correct when
  `locked` is sent only once nothing of the desktop is visible, and is sent.
* **Name owners and the keyboard monitor** (`src/dbus/name_owners.rs`,
  `a11y_keyboard_monitor.rs`) - *modelled: `NameOwners`*. Hard: signals and answers
  race, and a call is answered after its client left. Correct when the owners
  known are the bus's, and who loses the name loses its grab.
* **Registered applications and bindings** (`src/dbus/app_interface.rs`,
  `input_manager.rs`, `src/input/binding_resolver.rs`) - *modelled: `AppBindings`*.
  Two services with a task per call and a cleanup task each. Correct when an
  accepted binding answers its key, alone, and who leaves leaves nothing behind.
* **Event bus** (`src/event_bus.rs`) - *modelled: `EventBus`*. A bounded channel to
  a thread that reconnects; focus is reported when it changes. Correct when who
  follows the bus is not misled by what was lost.
* **Workspace protocol** (`src/wayland/protocols/workspace/`) - *modelled:
  `WorkspaceProtocol`; what a request does in `Workspaces`*. State: groups and
  workspaces under an update guard, and what each handle of each client was sent.
  Hard: removals and moves are told at once, the rest by comparison, and clients
  destroy handles in between. Correct when every client knows what is, and has its
  `done`.
* **Toplevel information** (`src/wayland/protocols/toplevel_info.rs`) - *modelled:
  `ToplevelInfo`; which workspaces a window is announced on in `WindowLayers`*. Hard:
  the comparison is with what was sent before, to objects that may be gone. Correct
  when a refresh leaves every handle with what is so.
* **Output configuration** (*in
  `KmsDevice`*), **output power** (*in `KmsSurface` and `SessionLock`*), **XDG
  activation** (tokens *in `Workspaces`*), **toplevel management** (requests *in
  `WindowLayers` and `Focus`*), **shell overlay** (tabs *in `Stack`*).

### How they interact

Clients, input and D-Bus reach the main loop, which changes the shell under a
write lock and calls `schedule_render` on surfaces: a command in each thread's
channel. The thread takes a read lock on the shell to collect elements, renders,
submits a page flip, and sends back what it drew (`RenderStates`, `SendFrames`).
The kernel's page-flip event is read by the main loop and passed to the thread as
a command. Hotplug and configuration change the backend's surfaces first, then
`Workspaces::add_output` and `remove_output`, then the protocol state. `refresh`
runs after a batch of events, throttled, so many requests may be handled before
it. The D-Bus services run in tasks and threads of their own and share registries
behind locks with the key filter.

## 2. The models

### KmsSurface and FrameLoop

`mainpc`, `active`, `dpms`, `startup` belong to the main loop; `cmds` is the
channel; `comp`, `queue`, `timers`, `frame`, `feedback`, `mirroring` are fields of
`SurfaceThreadState`; `flip` and `events` are the kernel's. A frame's contents
are one bit, `damage`: something was scheduled and has not been rendered since.
Each `ThreadCommand` is an action (`OnSuspend`, `OnResume`, `OnVBlank`, ...), each
timer callback one per outcome of the render it makes (`RedrawFails`,
`RedrawSubmits`, `RedrawEmpty`, `OnEstimatedVBlank`). `Suspend`, the node
commands and `drop_and_join` block the main loop until the thread answers.

`FrameLoop` says the same without channel, timers and kernel: it waits for
nothing, a VBlank or an estimate; a render waits or does not; a redraw asked for
while a frame is on its way is drawn after it. `KmsSurface!Loop` is the refinement
mapping, from the timers that are armed and the head of the channel. Two of its
actions are weaker than one would wish, and are what the code does: `Late`, the
event of a flip from before a blanking, takes a waiting render with it
(`surface/mod.rs:759`, against the comment at `:933`), and `Stop` forgets all.

### KmsDevice

A connector with a monitor has an `Output`, made anew whenever the monitor is found
again; a `Surface` drives it from a CRTC. A handler is a chain of steps, each of
which may fail, and is modelled by the set of its outcomes: `Then` composes them
as `?` does, `Try` adds the failure, and `faults` bounds how many calls of the
kernel fail. `Handled` is what `init_udev` does after every event: read the
configuration that belongs to the displays present, apply it, fall back.
`OutputConfiguration` is a request to enable and disable any heads, tested or
applied.

`oddities` is a history variable. It names what happened that the code does not
make good, and each property says with which of them it holds: `fault` and
`faults`, a call that failed, once or more often; `stale`, a GPU removed on another VT,
whose outputs nobody takes out of the shell (`device.rs:639`); `unseen`, a
configuration accepted unchecked while the session is not active
(`output_configuration.rs:180`); `test`, a tested configuration that is remembered
as if applied; `reset`, one that could not be had and was taken back; `collision`,
two monitors on one CRTC (the run `outputs_crtcs`).

### SessionLock

A lock client takes the lock, creates a surface per output and commits it. Each
output has a thread that, when asked (`wanted`), collects a frame - the desktop,
a blank locked screen or a lock surface - (`drawn`), submits it to the `panel`,
and sends two messages (`mail`). The main loop turns them into marks on the
lock surface and into `lock.waiting`, and sends `locked` when nothing is waited
on. Meanwhile outputs are plugged, unplugged, blanked, disabled, enabled and set
to mirror others, and lock clients give up, unlock or die. `shown`, `stayed` and
`apart` are history variables for the properties. The thread is an abstraction
of `KmsSurface`: it draws what it is asked for, in order.

### Workspaces

`sets`, `backup`, `mode`, `persisted` are the fields of `Workspaces`; `space` and
`groups` hold the protocol state and the remembered outputs of each workspace;
`occupied`, `awaited`, `pinned` say what keeps a workspace from being reaped;
`saved` is the copy on disk; `panicked` records a slice or index panic. Operations
on `Workspaces` are operators on a record `World`, composed as the code calls
them (`add_output` ends in a refresh of every set, `migrate` saves pins), and the
actions apply them. An animation's end is a choice made in `Refresh`.

Where `Global` mode departs from what clients should see, reading the code:
`active` is overwritten by the refresh without moving the protocol's Active flag
(`src/shell/mod.rs:1421`), a removed output's group stays (`:1125`), and
`previously_active` is stale after `move_workspace` (`:1228`) and after the refresh
(`:1419`), against the comment at `:793`. `ProtocolAgrees`, `LabelsAreStable` and
`PreviousIsTheOneLeft` are therefore claimed for the instances without `Global`
mode, the last one also without reordering. A `MoveAfter` relative to the
workspace of the same number on another output makes `move_workspace` rotate an
empty slice, which panics (`:1261`): the model stops there. Nor does a
`MoveBefore` or `MoveAfter` that takes a pinned workspace to another output save
it (`:1215`), although `:1603` asks for that: `SavedIsCurrent` is claimed for one
output.

### WorkspaceProtocol and ToplevelInfo

In `WorkspaceProtocol`, `outputsOf`, `home`, `label` and `tiling` are the groups and
workspaces; `toldGroup` and `toldSpace` are the handles and what they remember having
sent. `updating` is a guard and what the shell may still do under it; dropping it is
`Done`. `late`, `heard` and `orphaned` are history variables: what a client did itself
since the last update, the events it got since its `done`, and whether a group was
removed before a workspace left it. In `ToplevelInfo`, `outputs` and `workspaces` are
the lists of a window, `told` its handles, and `Sent` and `SentSome` what
`send_toplevel_to_client` makes of the difference. `seen`, `missed` and `undone` are
history variables: the workspaces a client heard of, the objects it has but was not
told of, and who waits for `done`. Code that is not as one may expect, and that the
properties leave room for:

* a client that sent `stop` still gets `removed` and `workspace_leave`, which go to the
  handles directly (`ext.rs:114` says there is no way for it to), and no `finished`;
* removing a group, or moving a workspace between groups of which neither changes its
  number, sends no `done` (`mod.rs:311`, `ext.rs:420`);
* the `id` of a workspace is sent at every update, since nothing sets
  `handle_state.ext_id` (`ext.rs:487`);
* an output or workspace handle that a client gets after a window was announced on it
  is not announced (`missed`) before the window's lists or geometry change
  (`toplevel_info.rs:552`), and titles of the foreign list are renewed only if some
  client has a handle of this protocol.

### WindowLayers

`win[w]` is a window: the workspaces in whose floating layer it is, its nodes in
each tiling tree, whether and from where it is minimized (`MinimizedWindow`), where
it is fullscreen and what `FullscreenRestoreData` remembers, whether it is in the
sticky layer of the set, `maximized_state`, `previous_layer`, and the flags its
client and panels see, and the workspaces it is announced on (`on`). `Maximized` is there twice, as sent (`told`) and as
acknowledged (`acked`). A workspace has `tiling_enabled`, `layout_mode` and
`monocle_restore`. The operations of a workspace on one window (`Unmaximized`,
`Unmapped`, `MinimizedFrom`, ...) and those of the shell (`MinimizeOf`,
`StickyToggled`, ...) are operators on the record, composed as the functions call
each other; an action per request applies them, `SetTiling` and monocle to every
window. A maximized window is drawn in the floating layer, and keeps its node
if it was tiled: `Layers` counts that once.

`usual` is a history variable. `LayersAgree`, `AnnouncedWhereItIs` and `OnlyStickyPanics`
are claimed as long as it holds, since three things break them in the code:

* a request that reads `is_maximized(false)`, the acknowledged flag, while another
  state has been sent (`workspace.rs:1477`, `:1497`, `:1527`): toggling floating
  right after maximizing a tiled window takes it out of the tree only, and
  unmaximizing it then takes it out of the floating layer too;
* monocle mode: `enter_monocle` maximizes windows without `maximized_state`, and
  `exit_monocle` clears only the pending flag, so that `set_tiling`, called by it,
  maximizes them again (`:1625`, `:1636`);
* `SetTilingState` for the state a workspace already has, which maps its floating
  windows into the tree (or its tiled ones out of it) again.

Where else the code departs from what one may expect, and no property claims
it: unfullscreening puts a sticky window that was maximized back as not maximized
(`ComesBack` does not ask for it); `move_window` drops the maximized state; a sticky
window moved while fullscreen to a tiling workspace from one that is not comes
back tiled, still marked sticky; `SetTilingState` and the shortcut leave
`layout_mode` and `monocle_restore` as they were.

### TilingTree

`tree` is the latest tree of the queue: groups with their children and the number
of their sizes (`len`, kept apart as in `Data::Group`), leaves with a window, a stack
or a placeholder. Geometry is a free choice wherever the code compares lengths.
Node ids of `id_tree` are numbers in the order of the screen after every step, and
what is remembered of a node (`saved`, `zone`) follows it, or is `NoNode` once the
node is gone. `Flatten` is the clean-up of `update_positions`, part of every action
that ends in it. `trouble` says that the program would panic or lay out a group whose
sizes and children differ; the model stops there. Two places are known to: the
`expect` at `tiling/mod.rs:3768`, met when a tile is dropped on a placeholder whose
group is gone, and `remap` (`:527`), which puts the sizes of a group of another
shape back into it.

### Stack

Tabs are counted from 1. `Key` is what `keyboard_leave_if_previous` and
`keyboard_enter` make of the next key event; `queue` holds the idle callbacks.
`strayed`, `unannounced` and `unshown` are history variables, each for something the
code leaves undone: indices the keyboard needs are not adjusted when a tab in front
of them goes; tabs moved by a shortcut or lost in `refresh` are not told to the
shell; and another tab that becomes active by a shortcut, or because the active
one went, is not either, although `arlen-shell-overlay.xml:145` says it is.

### Focus

`stacks`, `focus` (`ActiveFocus` and the keyboard's focus), `focused` and
`activeOutput` are the seat's; `home`, `minimized`, `seen`, `modal`, `active`, `layers`,
`locked` and `lockSurfaces` are what the shell says of windows, layer surfaces and
the lock. An operator on a record `Desk` stands for each function that changes the
focus at once (`SetFocus`, `AppendFocusStack`, `ModalRedirect`); `Refresh` is
`Common::refresh_focus` with all it decides: wishes left by dialogs that closed,
whether the last focus stands (`Stands`), and what gets the keys instead
(`FocusTargets`). Two departures: a window is focused when it is mapped, before
it was ever in a frame, against the comments in `focus/mod.rs` and
`presented.rs:5`; and the lock screen may stay without keys (`lock_screen_keys`).

### KeyFilter

`held` is the state of smithay's keyboard by source of input, `forwarded` what clients
were told; `suppressed`, `repeating`, `modQueue` and `suppressedButtons` are the maps
of a seat, `resizeMode` and `resizing` the fields of the shell. `PressVerdict` is the
order in which `filter_keyboard_input` decides on a press; `ReleaseResizes`,
`ReleaseIsSkipped` and `ReleaseIsForwarded` are its three ways with a release.
`WorldChanges` lets locks, inhibitors and keyboard monitors come and go between any
two events, `Disconnect` is the end of a connection of emulated input.

Three things are not as `HeldIsOwnedOnce` would have them without exception. An arrow
pressed before resize mode and released in it is swallowed, so that clients never
see its release (`strayed`; against the comment at `input/mod.rs:2365`).
`clear_input_source_state` forgets the timers of a connection without removing them
from the event loop (`:2227`), so that an arrow held when the connection closes
resizes for ever (`departed`). And a timer that fires after resize mode has ended
sets `resize_state` again, which only the release of that arrow in a later resize
mode, or the end of one, clears (`late`).

### NameOwners, AppBindings, EventBus

`NameOwners` has the bus with its clients, the stream of `NameOwnerChanged`
signals, what the compositor noted (`uniqueNames`, `nameOwner`; of the signals it reads
at once, the last about a name decides), and a call of each client, which goes through the steps between two `await`s: read the stream, ask
the bus, be answered, note it, check the sender, apply. `refresh` takes grabs back.

`AppBindings` has the two services. `registering` is how far a `register_app` is - it
waits for the bus and then for the disk - and `requests` are bindings asked for;
`leaving` are the departures each cleanup task still has to handle. `Resolve` is the key
filter with the resolver's precedence. A registration or binding inserted after
its client left, or before the cleanup tasks listen, stays for ever, against the
comments at `app_interface.rs:15` and `input_manager.rs:545`: `QuietExitIsForgotten`
is about the other clients (`quiet`).

`EventBus` has the channel with its capacity, the writer thread, the bus that stops
and starts, and the state the reports are made from. Fullscreen is reported by
several handlers that do not agree on what was reported (`event_bus.rs:256`), so that
no property is about it.

## 3. The runs

Every run is one TLC invocation. Three of the `MC` modules hold several instances
of parts that share no state: the variable `part` says of which instance a
behaviour is, the variables of the others stay in an initial state, and the
state space is the sum and not the product. Fairness is stated per part.

| run | question | result |
|---|---|---|
| `kms_surface` | in every interleaving with blanking, VT switches, failed renders and late events: timers match the state, a frame is submitted before it is presented, a VBlank that is awaited comes, the flags shared between the threads are true, and the thread implements `FrameLoop` | holds |
| `outputs` | hotplugs, VT switches, requests and failing calls in any order: devices, protocol, shell and surfaces agree once all is handled, the primary GPU is there, choices are remembered; an output that is not blanked is drawn and calls to its thread return; who may have the keyboard and waits for it gets it | holds |
| `outputs_crtcs` | "test failed, we don't have a crtc": a configuration with too few CRTCs is refused | **violated**: two outputs are paired with the same free CRTC, one stays without a surface |
| `session_lock` | two lock clients, two outputs, any two changes to them: with `locked` sent, no output shows the desktop, the lock surface was shown on every output that stayed, the event is owed exactly while an output is waited on, and a client that keeps the lock is told | holds |
| `session_lock_held_back` | an output that is gone holds `locked` back no longer | **violated**: disabling an output by configuration does not stop waiting on it |
| `workspaces` | two outputs, `OutputBound` mode, with reordering, pins and hotplug: nothing is lost or shown twice, clients see what is active and where, workspaces come home, what an output shows changes only when it may, numbers of workspaces are stable under refresh; after an update a client knows of groups and workspaces what is, after a refresh of windows too, and has its `done` | holds |
| `workspaces_more` | one output with animations, swipes and tokens: the animation keeps its source, saved pins are current; two outputs in both modes: nothing is lost, and the workspaces of one number stay together | holds |
| `window_layers` | every request in any order: a window is in one layer of one workspace, the maximized state agrees with the layers and with what the client was told, so do the other flags and the workspaces it is announced on, a window comes back from minimized and fullscreen to where it was, maximized if it was, and no other panic is met than the one below | holds |
| `window_layers_panic` | `ManagedLayer::Sticky => unreachable!()` | **violated**: a sticky window, maximized, focused and moved to another workspace |
| `layout` | the tree stays a tree with as many sizes as children, restoring undoes minimizing; the active index of a stack is one of a window, keys go to it, the shell's tabs catch up; after a refresh, keys go only to what may have them, and a closed dialog gives them back | holds |
| `lock_screen_keys` | "a lock screen that cannot take keys is a machine that cannot be unlocked" | **violated**: locked from an empty workspace with no focus, no refresh gives the lock screen the keys |
| `services` | the owners known are the bus's once the signals are read, lost names end grabs; an accepted binding answers its key alone, and who leaves quietly leaves nothing; only a lost latest event misleads who follows the bus; a key or button belongs to clients or to the compositor from press to release, whatever changes meanwhile | holds |

### Bounds

* `KmsSurface`: 4 commands (2 with fairness) in the channel, 2 page-flip events,
  one failed render, 3 timer registrations - the state names at most two, so a
  third is always free. Every state of the queue meets every command within these.
* `KmsDevice`: two GPUs, three connectors, two of which share the only CRTC of the
  first GPU; three changes with no failing call, or two with one. A monitor is there,
  goes and comes back within three changes, with or without a VT switch between.
* `SessionLock`: two outputs (one may mirror the other, one may leave while the other
  answers), two lock objects (a second is rejected, or takes over from a dead one),
  two changes; a thread starts a frame when the main loop has read its last
  messages, so at most one old frame is under way when the lock is taken.
* `Workspaces`: up to 3 workspaces per set with two outputs, 4 with one, 2 (3) of them
  kept, 2 pinned, 2 groups alive. Two outputs show every case of arrival and
  departure (the last one leaving fills the backup set); three workspaces have a
  first, an active and a last one that differ. Protocol handles are names, so TLC
  compares states up to their renaming (`VIEW StateUpToNames`).
* `WorkspaceProtocol`: one client (nothing it is told depends on another, but for a
  `done` too many), two groups, a workspace that moves, comes and goes, one output, two changes in one
  update, one handle destroyed or output bound between two. `ToplevelInfo`: one client
  of either version, a window, an output, a workspace, two titles and geometries.
* `WindowLayers`: two windows, two workspaces (`Bound` in `MCWindowLayers`). A window
  alone goes through all requests, with one workspace at a time in monocle mode or
  in a layout mode that contradicts its tiling state. While two are open neither is,
  one window at most is minimized, fullscreen or sticky, and one at most has to
  acknowledge: windows meet only where one is tiled and the others have to be
  unmaximized, and in the requests for a workspace, which treat all windows alike.
* `TilingTree`: four `Scopes`: three windows with a stack and one minimized, four
  windows of which two minimized (groups in groups), three with one placeholder,
  two with two placeholders and stacks while a tile is dragged.
* `Stack`: three windows and two changes of modifiers without a shell, two windows and
  three waiting callbacks with one.
* `Focus`: a window and its dialog on two outputs with a workspace each and one change of
  locks and layers (`layout`); one window, three workspaces on two outputs and three
  changes (`outputs`): a lock over an exclusive layer, or either taken away again.
* `NameOwners`: two clients, three signals; `AppBindings`: two clients of two
  applications, one accelerator, one with a grant for global bindings; `EventBus`: a
  channel of two, four events, so that it overflows and drains.
* `KeyFilter`: the devices of the session and one connection of emulated input; the
  modifier, the key of resize mode, an arrow, a key that switches VTs and one that is
  Escape, bound by the user, by an application and a virtual modifier in turn; a
  button; three held at a time, as resizing with an arrow needs.

The runs do not check for deadlock: a handle is dropped, a lock object or a client's
only manager used up, a program stopped by a panic, or a bound reached.

### Fairness

* Surface thread: the thread's loop dispatches commands and due timers, the kernel
  completes flips, `join` returns (weak). Reading the DRM descriptor is strongly
  fair: a pass of the main loop dispatches all ready sources, so being busy
  elsewhere cannot starve it. Clients and the user are not obliged to anything.
* Session lock: each thread collects and submits, the main loop reads its channels, the
  lock client covers the outputs it was given. Monitors, DPMS and configuration owe
  nothing: `LockIsConfirmedIfKept` assumes that no output waited on stays dark or
  disabled.
* Focus: `refresh` runs again and again (weak): the main loop calls it after every
  batch of events. The lock client and windows owe nothing.
* D-Bus: the tasks that the executor polls go on, the bus answers (weak, per task).

## 4. Proofs

`KmsSurfaceProofs` proves, for any number of timer registrations (at least three)
and any bounds:

* `SurfaceInvariant`: `TypeOK`, `TimersMatchState` and `SubmittedBeforePresented`
  always hold. They form the inductive invariant together. The timers in the event
  loop decide which callbacks can fire, so typing alone does not bound the
  state: that `RedrawSubmits(t)` runs only in a state that queued `t` follows from
  `TimersMatchState`; that a frame which is awaited was marked submitted holds
  because only `RedrawSubmits` enters `WaitingForVBlank`, and everything that
  leaves the mark behind also leaves that state; and a compositor is absent
  only with an idle queue, so a resume finds nothing armed.
* `TimersAlwaysMatch`: no `unreachable!()` of the thread is reached.
* `AlwaysSubmittedBeforePresented`: `Timings::presented` never unwraps `None`.
* `SharedFlagsAlwaysAgree` and `VBlankAlwaysComes`. The main thread sets and reads
  `active` and `dpms` while commands that change what they stand for are still in the
  channel, so that they agree with the surface thread only up to those commands. `SharedInv`
  says which: while `suspend` waits for its answer the channel holds nothing else
  that matters (`SuspendWaits`), a thread that is dark by the flag is dark or has the
  command that darkens it on its way, and no `ScheduleRender` after it (`Darkened`);
  a flip is pending only under a compositor; and a VBlank that is awaited is in the
  kernel or in a channel, which needs the other three.

The proof has a lemma per action. `QueueRedrawMatches` and `AbandonMatches`
say what `queue_redraw` and `suspend` do to a matching pair of state and timers,
and are used wherever those are called. Assumptions: `TokensAssumption`, two
registrations never exhaust what calloop hands out, and `BoundsAssumption`.

`KmsSurfaceRefinement` proves `Refinement`: every behaviour of `KmsSurface` is one of
`FrameLoop`. By the invariant the armed timers say the same as the kind of the
queue state (`MappedState`), so each action is shown to be a step or a stutter of
the abstract loop by what it does to that kind: `QuietStep` disposes of the actions
that leave queue and compositor alone, a lemma per command and per callback of the rest.

`ServicesProofs` proves every safety property of `services`. Of `AppBindings`, for any
clients, applications and grants:

* `QuietExitsAreForgotten`. `DepartureInv`: a client that has left and still has an
  application or a binding is quiet only if the task that will remove it has the
  departure in its list; a task that does not listen, or a call under way, is why a
  client is not quiet.
* `BindingsAlwaysAnswer`. `BindingTypes` says that a client is registered as its own
  application or not at all; `AloneInv`, that of two bindings of one accelerator by
  different clients neither dominates the other, and that one which depends on the focus
  is of its client's application. The theorem assumes one spelling per key:
  `find_conflicts` compares what was written, and the key filter what it means.

Of `KeyFilter`, `HeldIsAlwaysOwnedOnce` for any sources, keys, buttons and bindings.
`FilterInv` adds to the property its types and `OneHolder`: a release takes
a key from one source, and would be wrong for clients if another held it. Resize
mode and the two maps meet only in the arrows, so the lemmas on `Leave` and
on actions stand apart from those on keys.

Of `NameOwners`, `AlwaysCaughtUp` for any clients and any number of signals, assuming only
that a client is none of the other entries of the map (`ClientsAssumption`). `NamesInv`
says what each source of knowledge is worth: since the subscription the
stream ends with the truth about each name it speaks of (`StreamIsRight`); since the listing what
is noted about the others is right, an owner that was not asked for included
(`KnownIsRight`); and an answer that no signal in the stream contradicts names the owner
(`AnswersAreRight`), which is why it may be noted only over `Unknown`.

Of `EventBus`, `OnlyTheLatestLossEverMisleads` for any windows, capacity and crashes of the
bus. `EventInv` says that the events of focus which the bus has or will have are numbered
in order, none beyond the latest, and that the one with the number of the latest says where
focus is (`InOrder`). Whatever is lost, at the end of the channel or at the end of what the
bus received, leaves a part of such a sequence.

What the last signal or event says after one more is queued or lost is said by lemmas on
sequences (`IsLastIndex`, `SignalIsNews`). That a last index exists needs induction,
which the library's theorems state for an operator; `Induction` states it for a set
of numbers instead, from the well-founded order on them.

`SessionLockProofs` proves `LockedMeansSeenAlways` for any outputs, lock clients and
bounds: when `locked` was sent, no output it could be on shows the desktop, and those that
stayed show the lock screen. `LockInv` follows a frame from the thread that draws it
to the main loop that hears of it: what is in a mailbox was on the panel first
(`SeenIsShown`), so that an output is struck from the list only when the desktop left
both its panel and the frame that comes next (`Covered`, `Clean`); a client that does not
hold the lock has left nothing that could be mistaken for its successor's (`NoTraces`).

`ToplevelInfoProofs` proves `ClientsAlwaysSeeTheWindows` for any clients, windows, outputs and workspaces. A refresh sends the difference to
what a handle remembers; `HandlesRemember` says that what it remembers is what the
client has, up to what was announced or went since, in every state and not only
after a refresh. That invariant is what the property needs: a refresh that
finds no difference must have none to find. Assumed of the constants (`InfoConstants`):
outputs are not workspaces, and None is neither a title nor a handle. The proof
attempt found a limit of the property. The title of the foreign list is sent only when
some handle of the list differs, so with two clients a title that changes and
changes back, with a client that binds and leaves in between, may stay wrong for
the foreign list until the next change. The property therefore promises that title where
some client's handle was last sent the title of the foreign list, or none yet
(`Followed`); with one client every handle is such.

`WorkspaceProtocolProofs` proves `ClientsAlwaysSeeTheWorkspaces` for any clients, outputs,
groups and workspaces and any number of changes in an update. What is hard is `done`:
removing a workspace tells clients at once and marks nothing as changed, so that
the `done` comes only if the guard, when dropped, finds another difference. It
does, for a counting reason: the removed workspace leaves its group with another number
than the handle of the group remembers, or another workspace took its place, which
is new to the client. `UnderWay` carries this through the update as a ghost, the groups the
workspaces had when it began (`Began`); `NothingRemoved` concludes from `NoneIsLeftOver`,
which joins a bijection per group into one of all workspaces. Where it fails is where
`AllDone` makes its exception: the handle of a group that was removed takes its number
with it. Assumed of the constants (`ProtocolConstants`): finitely many workspaces, None
is none of the values, and an inactive workspace has a label.

`WindowLayersProofs` proves the five properties of `window_layers` for any windows and
finitely many workspaces: `LayersAlwaysAgree`, `AnnouncedAlwaysWhereItIs`,
`FlagsAlwaysAgree`, `OnlyStickyEverPanics` and `AlwaysComesBack`. That every window is in one layer is not
inductive: each operation looks at some of the layers and relies on what it does not look
at. `WindowInv` says of every window which of five things it is (`Floats`, `Tiled`,
`Hidden`, `Fills`, `Stuck`), with what goes with it: a window maximized out of the tree
floats on the workspace of its node, and without a node only where tiling is off;
one that is minimized or fullscreen is not noted as maximized, since its
`original_layer` was read and cleared on the way out; a window whose way back is the
sticky layer still has that flag; a workspace in monocle mode has a mode to go back to.
The proof is in two halves. First each operation on one window record (`Unmapped`,
`StickyToggled`, `TilingSet`, ...) is shown to be `Fit`, that is, to keep types and flags
in any history, and to leave a window that lies right lying right (`Settled`). Then each action is
shown to keep `WindowInv` through `OneChanges` or `StepKeeps`. As for the run, three
things are understood. Behaviours are followed while each open window is in one layer
and nothing panicked (`Followed`); `LayersAlwaysAgree` shows that in usual histories
nothing but the known panic ends one. Monocle mode, a tiling state that is requested
again, and a flag that is read before the client acknowledged it make a history unusual;
of such histories only the types, `FlagsAlwaysAgree` and `AlwaysComesBack` are proved. And the bound on ways back in
`MCWindowLayers` is TLC's alone. Assumed of the constants: finitely many workspaces, and None is
none of the values (`NoneAssumption`).

`AlwaysComesBack` has an invariant of its own, `ReturnInv`, since it holds in unusual
histories too, where `WindowInv` says little of the layers. Of each window it says that a
node in a tree means that its workspace tiles (`Rooted`: otherwise a window would come
back floating where it had been tiled), that nothing put aside is still noted as maximized
(`MaxRight`: otherwise `unmaximize_request` would be met on the way back), and that what
the history remembers has a way back that leads there (`Away`): directly, or through the
fullscreen surface that was minimized. Each operation on one window record is shown
to turn it (`Turned`): it leaves a way back to where the window was, goes where the way
back leads, or leaves it as it is. Requests for a workspace touch only the windows that are mapped there (`Retiled`),
and so none that is away. Moves and changes of tiling forget where a window was, as the
property says.

`StackProofs` proves of a stack, for any windows, changes of modifiers and waiting
callbacks, that its indices stay sound (`StackAlwaysSound`, the `Stack` part of `TypeOK`),
`KeyboardAlwaysFollows` and `TabsAlwaysCatchUp`. The hard part of the first is `IndicesInv`:
the index to go back to (`remembered`) must be forgotten as tabs go, or `handle_focus`
makes it the active one later. `KeyboardInv` says where the keyboard may be between a
change of the active tab and the next key: at the tab it was last at, or already
at the active one, where `handle_move` took it along or a tab in front of the last one
went; only in the first case has `keyboard_leave_if_previous` anything to do, and it
leaves the active window alone with it (`FollowedIsActive`). For the shell, `ListInv` says
that the events which wait lead from the list it has to the tabs there are:
there is a sequence of lists, one step of the shell apart, that begins with the one and ends with the
other (`Arrives`), so that an event sent or applied only lengthens or shortens that sequence
and no induction over the queue is needed.

Each inductive invariant was checked by TLC before it was proved.

Only model-checked: liveness under fairness, and the safety properties of the modules not
named here. Of these,
`PreOrder` of `TilingTree` is a recursive function of a tree, and the indices of
`Workspaces` and the lists of `KmsDevice` come from sequences that are folded over, filtered and spliced:
each would need its own theory of those operators first.

## 5. Not modelled

Drawing, geometry, floating-point animation, buffer and GPU I/O, parsing and
writing of files, and glue to smithay (which keeps the state of most Wayland
objects and is not in the repository). `PROJECT.json` lists every such component
with its reason. In the modelled parts:

* `KmsSurface`: VRR, frame flags, screen capture of frames, and the arithmetic of the
  timing prediction. `KmsDevice`: modes, VRR, mirroring, leases, the lid switch.
* `Workspaces`: tiling state, names and coordinates of workspaces. `WorkspaceProtocol`:
  ids, several managers of a client. `ToplevelInfo`: rectangles, and a second handle of a
  client for one window, which is never sent anything. `WindowLayers`:
  geometry, snapping, stacks, modal dialogs, drags, X11 windows and focus stacks.
* `KeyFilter`: the super tap, overview and swap modes, serials of modifiers, a key held on
  two sources at once, Caps Lock as a virtual modifier, virtual keyboards.
* `TilingTree`: trees of two workspaces (moving and swapping between them), the queue of
  animated trees and its blockers. `Stack`: the pointer on the tabs.
* `Focus`: fullscreen windows, stacks, popups and their grabs, groups, focus that
  follows the cursor, several seats, outputs that come and go.
* `SessionLock`: focus and input under the lock (the keyboard is in `Focus`), and layers
  shown above it. Surfaces of a client whose lock was rejected are not created:
  whether such a request reaches `new_surface` is decided in smithay. A mirroring
  monitor has its own thread and is not waited on: it may show the desktop after
  `locked`, against the comment at `session_lock.rs:40`; the properties leave it out.

Parts with state that were left out, and why:

* **Scratchpad** (`scratchpad.rs`): a short list and an index into it. Reading it is
  enough to see where it departs from its comments: `scratchpad_remove_dead` only
  compares the index with the new length (`:178`), so that when the shown window is
  closed the index names another one, which is not shown; the key then asks for the
  focus of that window, which it cannot have, instead of showing one (`:62`).
* **Fullscreen reveal** (`fullscreen_reveal.rs`): a machine of three phases; what is
  hard is that time is only read when an event comes, which a model would have to
  invent.
* **Pointer grabs**, **gestures**, **tablets**, **zoom**: they follow positions.
* **Header policy**, **night light schedule**, **binding parsing**: pure decisions with a
  unit test per row.
* **Screen capture**: a frame asked for is answered by the next render of its output,
  which is `DamageIsDrawn`; sessions and frames live in smithay's objects.
* **XWayland**: its windows go through the same shell operations as Wayland's.
