---------------------------- MODULE ToplevelInfo -----------------------------
(***************************************************************************)
(* What clients are told of windows: zcosmic_toplevel_info_v1, and the     *)
(* titles in ext_foreign_toplevel_list_v1.                                 *)
(*                                                                         *)
(* Source: src/wayland/protocols/toplevel_info.rs; the lists are filled in *)
(* map_window, unmap_surface and the moves of src/shell/mod.rs.            *)
(*                                                                         *)
(* A window keeps the outputs and workspaces it is announced on.  Each     *)
(* handle of a client keeps what it was sent, and every refresh sends the  *)
(* difference.  `done` follows when a refresh finds nothing to send.       *)
(*                                                                         *)
(* Abstractions.  Title, app_id and states are one value, `title`.  A      *)
(* client has one info object, of the first version (Legacy: handles are   *)
(* made for it) or a later one (it asks), one wl_output for an output and  *)
(* one handle of a workspace at a time.  Rectangles are left out.          *)
(***************************************************************************)
EXTENDS Naturals, ProtocolObjects

CONSTANTS Windows, Titles, Geometries

VARIABLES
  state,      \* "none", "open", or "dead": its surface is gone
  title, geometry,
  outputs, workspaces,  \* the lists of ToplevelStateInner
  foreign,    \* title last sent in the foreign list, None without a handle
  legacy,     \* clients with the first version
  info,       \* of a client: "none", "bound", "stopped"
  wlOutputs, spaceHandles,  \* what a client has
  told,       \* what the handle of a client for a window remembers, or None
  seen,       \* history: workspaces the client was told the window is on
  missed,     \* history: outputs and workspaces the client got an object of
              \* after it was told of a window on them
  dirty, lastDirty,
  undone      \* history: clients that were sent events since their `done`

infoVars == <<state, title, geometry, outputs, workspaces, foreign, legacy,
              info, wlOutputs, spaceHandles, told, seen, missed, dirty,
              lastDirty, undone>>
windowVars == <<title, geometry, outputs, workspaces>>
clientVars == <<legacy, info, wlOutputs, spaceHandles>>

Toplevels == {w \in Windows : state[w] # "none"}
Instances == {c \in Clients : info[c] = "bound"}

InfoInit ==
  /\ state = [w \in Windows |-> "none"]
  /\ title \in [Windows -> Titles] /\ geometry \in [Windows -> Geometries]
  /\ outputs = [w \in Windows |-> {}] /\ workspaces = [w \in Windows |-> {}]
  /\ foreign = [w \in Windows |-> None]
  /\ legacy \in SUBSET Clients
  /\ info = [c \in Clients |-> "none"]
  /\ wlOutputs = [c \in Clients |-> {}]
  /\ spaceHandles = [c \in Clients |-> {}]
  /\ told = [c \in Clients |-> [w \in Windows |-> None]]
  /\ seen = [c \in Clients |-> [w \in Windows |-> {}]]
  /\ missed = [c \in Clients |-> [w \in Windows |-> {}]]
  /\ dirty = FALSE /\ lastDirty = FALSE /\ undone = {}

-----------------------------------------------------------------------------
(* send_toplevel_to_client.                                                 *)

Handle == [title : Titles \cup {None}, geometry : Geometries \cup {None},
           outputs : SUBSET Screens, bound : SUBSET Screens, stale : BOOLEAN,
           workspaces : SUBSET Spaces]

\* What is assumed of the constants: None is no title and no handle, and an
\* output is not a workspace.
InfoConstants ==
  /\ None \notin Titles /\ None \notin Handle
  /\ Screens \cap Spaces = {}
ASSUME InfoAssumption == InfoConstants

\* A handle that was sent nothing.  bound: the wl_outputs it entered; stale:
\* one of these is gone.
Blank == [title |-> None, geometry |-> None, outputs |-> {}, bound |-> {},
          stale |-> FALSE, workspaces |-> {}]

\* While the window is resized its geometry is held back.
NewGeometry(h, w, held) ==
  IF held THEN h.geometry ELSE geometry[w]

\* Mutant: an output that the client released counts only with a new list.
ResendOutputs_Lists(h, w, held) ==
  outputs[w] # h.outputs \/ NewGeometry(h, w, held) # h.geometry

ResendOutputs(h, w, held) ==
  \/ outputs[w] # h.outputs \/ h.stale
  \/ NewGeometry(h, w, held) # h.geometry

\* What handle h of client c remembers after it was sent what is new.
Sent(h, c, w, held) ==
  LET again == ResendOutputs(h, w, held) IN
  [title |-> title[w], geometry |-> NewGeometry(h, w, held),
   outputs |-> IF again THEN outputs[w] ELSE h.outputs,
   bound |-> IF again THEN outputs[w] \cap wlOutputs[c] ELSE h.bound,
   stale |-> h.stale /\ ~again, workspaces |-> workspaces[w]]

\* Whether anything was sent: a workspace only to a handle the client has, and
\* a new geometry alone does not count.
SentSome(h, c, w, held) ==
  LET s == Sent(h, c, w, held) IN
  \/ h.title # s.title
  \/ h.bound # s.bound \/ h.stale # s.stale
  \/ \E x \in (h.workspaces \ s.workspaces) \cup (s.workspaces \ h.workspaces) :
       x \in spaceHandles[c]

\* The handle that a client has of a window; clients of the first version get
\* one.
HandleOf(c, w) ==
  IF told[c][w] = None /\ c \in legacy THEN Blank ELSE told[c][w]

IsTold(c, w, cs, ws) == c \in cs /\ w \in ws /\ HandleOf(c, w) # None

\* Clients cs are told of windows ws; the windows gone are forgotten: what
\* handles are left stay with their clients, and nothing is sent to them.
Send(cs, ws, gone, held) ==
  /\ told' = [c \in Clients |-> [w \in Windows |->
       IF w \in gone THEN None
       ELSE IF IsTold(c, w, cs, ws) THEN Sent(HandleOf(c, w), c, w, held)
       ELSE told[c][w]]]
  /\ foreign' = [w \in Windows |->
       IF w \in gone THEN None
       ELSE IF foreign[w] # None
                 /\ \E c \in cs : /\ IsTold(c, w, cs, ws)
                                  /\ HandleOf(c, w).title # title[w]
       THEN title[w] ELSE foreign[w]]
  /\ seen' = [c \in Clients |-> [w \in Windows |->
       IF w \in gone THEN {}
       ELSE IF ~IsTold(c, w, cs, ws) THEN seen[c][w]
       ELSE (seen[c][w] \cap workspaces[w]) \cup
            ((workspaces[w] \ HandleOf(c, w).workspaces) \cap spaceHandles[c])]]
  /\ missed' = [c \in Clients |-> [w \in Windows |->
       IF w \in gone THEN {}
       ELSE IF ~IsTold(c, w, cs, ws) THEN missed[c][w]
       ELSE (missed[c][w] \cap (outputs[w] \cup workspaces[w]))
              \ IF ResendOutputs(HandleOf(c, w), w, held) THEN Screens ELSE {}]]
  /\ outputs' = [w \in Windows |-> IF w \in gone THEN {} ELSE outputs[w]]
  /\ workspaces' = [w \in Windows |-> IF w \in gone THEN {} ELSE workspaces[w]]

Changes(cs, ws, held) ==
  {c \in cs : \E w \in ws : /\ IsTold(c, w, cs, ws)
                            /\ SentSome(HandleOf(c, w), c, w, held)}

-----------------------------------------------------------------------------
(* The shell.                                                               *)

\* new_toplevel, and the lists that map_window fills after it
NewToplevel(w, o, s) ==
  /\ state[w] = "none"
  /\ state' = [state EXCEPT ![w] = "open"]
  /\ foreign' = [foreign EXCEPT ![w] = title[w]]
  /\ told' = [c \in Clients |->
       IF c \in Instances \cap legacy
       THEN [told[c] EXCEPT ![w] = Sent(Blank, c, w, FALSE)] ELSE told[c]]
  /\ outputs' = [outputs EXCEPT ![w] = {o}]
  /\ workspaces' = [workspaces EXCEPT ![w] = {s}]
  /\ dirty' = TRUE
  /\ UNCHANGED <<title, geometry, clientVars, seen, missed, lastDirty, undone>>

\* toplevel_enter_output and the others, one or several before a refresh; a
\* window that is dragged is on nothing
Announce(w, os, ss) ==
  /\ w \in Toplevels /\ <<os, ss>> # <<outputs[w], workspaces[w]>>
  /\ outputs' = [outputs EXCEPT ![w] = os]
  /\ workspaces' = [workspaces EXCEPT ![w] = ss]
  /\ UNCHANGED <<state, title, geometry, foreign, clientVars, told, seen,
                 missed, dirty, lastDirty, undone>>

Change(w, t, g) ==
  /\ state[w] = "open" /\ <<t, g>> # <<title[w], geometry[w]>>
  /\ title' = [title EXCEPT ![w] = t] /\ geometry' = [geometry EXCEPT ![w] = g]
  /\ UNCHANGED <<state, outputs, workspaces, foreign, clientVars, told, seen,
                 missed, dirty, lastDirty, undone>>

\* the surface is destroyed
Die(w) ==
  /\ state[w] = "open" /\ state' = [state EXCEPT ![w] = "dead"]
  /\ UNCHANGED <<windowVars, foreign, clientVars, told, seen, missed, dirty,
                 lastDirty, undone>>

RemoveToplevel(w) ==
  /\ w \in Toplevels
  /\ state' = [state EXCEPT ![w] = "none"]
  /\ Send({}, {}, {w}, FALSE)
  /\ dirty' = TRUE
  /\ UNCHANGED <<title, geometry, clientVars, lastDirty, undone>>

\* ToplevelInfoState::refresh.  Clients of the first version have their `done`
\* with every change; the others when nothing has changed any more.
RefreshInfo(held) ==
  LET dead == {w \in Toplevels : state[w] = "dead"}
      open == Toplevels \ dead
      changed == Changes(Instances, open, held)
      anything == dirty \/ dead # {} \/ changed # {}
  IN /\ Send(Instances, open, dead, held)
     /\ state' = [w \in Windows |-> IF w \in dead THEN "none" ELSE state[w]]
     /\ dirty' = FALSE /\ lastDirty' = anything
     /\ undone' = IF ~anything /\ lastDirty THEN undone \ Instances
                  ELSE undone \cup (changed \ legacy)
     /\ UNCHANGED <<title, geometry, clientVars>>

-----------------------------------------------------------------------------
(* Clients.                                                                 *)

BindInfo(c) ==
  /\ info[c] = "none" /\ info' = [info EXCEPT ![c] = "bound"]
  /\ Send({c}, Toplevels, {}, FALSE)
  /\ UNCHANGED <<state, title, geometry, legacy, wlOutputs, spaceHandles,
                 dirty, lastDirty, undone>>

\* also when the object is destroyed
StopInfo(c) ==
  /\ info[c] = "bound" /\ info' = [info EXCEPT ![c] = "stopped"]
  /\ UNCHANGED <<state, windowVars, foreign, legacy, wlOutputs, spaceHandles,
                 told, seen, missed, dirty, lastDirty, undone>>

\* for a window the client knows from the foreign list
GetCosmicToplevel(c, w) ==
  /\ info[c] # "none" /\ c \notin legacy /\ told[c][w] = None
  /\ w \in Toplevels /\ foreign[w] # None
  /\ told' = [told EXCEPT ![c][w] = Blank]
  /\ UNCHANGED <<state, windowVars, foreign, clientVars, seen, missed, dirty,
                 lastDirty, undone>>

DestroyHandle(c, w) ==
  /\ told[c][w] # None
  /\ told' = [told EXCEPT ![c][w] = None]
  /\ seen' = [seen EXCEPT ![c][w] = {}]
  /\ missed' = [missed EXCEPT ![c][w] = {}]
  /\ UNCHANGED <<state, windowVars, foreign, clientVars, dirty, lastDirty,
                 undone>>

BindWlOutput(c, o) ==
  /\ o \notin wlOutputs[c]
  /\ wlOutputs' = [wlOutputs EXCEPT ![c] = @ \cup {o}]
  /\ missed' = [missed EXCEPT ![c] = [w \in Windows |->
       IF told[c][w] # None /\ o \in told[c][w].outputs
       THEN @[w] \cup {o} ELSE @[w]]]
  /\ UNCHANGED <<state, windowVars, foreign, legacy, info, spaceHandles, told,
                 seen, dirty, lastDirty, undone>>

ReleaseWlOutput(c, o) ==
  /\ o \in wlOutputs[c]
  /\ wlOutputs' = [wlOutputs EXCEPT ![c] = @ \ {o}]
  /\ told' = [told EXCEPT ![c] = [w \in Windows |->
       IF @[w] # None /\ o \in @[w].bound THEN [@[w] EXCEPT !.stale = TRUE]
       ELSE @[w]]]
  /\ missed' = [missed EXCEPT ![c] = [w \in Windows |-> @[w] \ {o}]]
  /\ UNCHANGED <<state, windowVars, foreign, legacy, info, spaceHandles, seen,
                 dirty, lastDirty, undone>>

\* WorkspaceProtocol: handles of workspaces come and go.
GetSpaceHandle(c, s) ==
  /\ s \notin spaceHandles[c]
  /\ spaceHandles' = [spaceHandles EXCEPT ![c] = @ \cup {s}]
  /\ missed' = [missed EXCEPT ![c] = [w \in Windows |->
       IF told[c][w] # None /\ s \in told[c][w].workspaces
       THEN @[w] \cup {s} ELSE @[w]]]
  /\ UNCHANGED <<state, windowVars, foreign, legacy, info, wlOutputs, told,
                 seen, dirty, lastDirty, undone>>

LoseSpaceHandle(c, s) ==
  /\ s \in spaceHandles[c]
  /\ spaceHandles' = [spaceHandles EXCEPT ![c] = @ \ {s}]
  /\ seen' = [seen EXCEPT ![c] = [w \in Windows |-> @[w] \ {s}]]
  /\ missed' = [missed EXCEPT ![c] = [w \in Windows |-> @[w] \ {s}]]
  /\ UNCHANGED <<state, windowVars, foreign, legacy, info, wlOutputs, told,
                 dirty, lastDirty, undone>>

AtMostOne(s) == {{}} \cup {{x} : x \in s}

InfoNext ==
  \/ \E held \in BOOLEAN : RefreshInfo(held)
  \/ \E w \in Windows : Die(w) \/ RemoveToplevel(w)
  \/ \E w \in Windows, o \in Screens, s \in Spaces : NewToplevel(w, o, s)
  \/ \E w \in Windows, os \in AtMostOne(Screens), ss \in AtMostOne(Spaces) :
       Announce(w, os, ss)
  \/ \E w \in Windows, t \in Titles, g \in Geometries : Change(w, t, g)
  \/ \E c \in Clients : BindInfo(c) \/ StopInfo(c)
  \/ \E c \in Clients, w \in Windows : GetCosmicToplevel(c, w) \/ DestroyHandle(c, w)
  \/ \E c \in Clients, o \in Screens :
       BindWlOutput(c, o) \/ ReleaseWlOutput(c, o)
  \/ \E c \in Clients, s \in Spaces : GetSpaceHandle(c, s) \/ LoseSpaceHandle(c, s)

InfoSpec == InfoInit /\ [][InfoNext]_infoVars

-----------------------------------------------------------------------------
\* What client c was told of w, by the handle told' has of it now, is so.
Right(c, w, held) ==
  LET h == told'[c][w] IN
  /\ h.title = title[w]
  /\ held \/ h.geometry = geometry[w]
  /\ h.bound \subseteq wlOutputs[c] \cap outputs[w]
  /\ (wlOutputs[c] \cap outputs[w]) \ h.bound \subseteq missed'[c][w]
  /\ seen'[c][w] \subseteq spaceHandles[c] \cap workspaces[w]
  /\ (spaceHandles[c] \cap workspaces[w]) \ seen'[c][w] \subseteq missed'[c][w]

\* The foreign list has its titles from what is news to a client: it follows
\* the window w as long as a client is told of w who knows no other title than
\* the list has.  Two clients are enough to lose it: one knows a title, another
\* is told the next one when it binds, and leaves after the window took the
\* first title again.
Followed(w) ==
  /\ state[w] = "open"
  /\ \E c \in Instances : /\ HandleOf(c, w) # None
                         /\ HandleOf(c, w).title \in {None, foreign[w]}

(* After a refresh, a client with handles was told of each window what is:   *)
(* its title, geometry unless it is being resized, and the outputs and       *)
(* workspaces it is on, but for those it got an object of only after they    *)
(* were sent; no window that is gone is in the foreign list, and the title   *)
(* there is right where it is followed (refresh, send_toplevel_to_client).   *)
EveryRefreshTells ==
  \A held \in BOOLEAN :
    RefreshInfo(held) =>
      /\ \A c \in Instances, w \in Windows :
           told'[c][w] # None => Right(c, w, held)
      /\ \A w \in Windows : foreign'[w] # None <=> state[w] = "open"
      /\ \A w \in Windows : Followed(w) => foreign'[w] = title[w]

(* Once a refresh found nothing to tell, no client waits for a `done`.       *)
NobodyWaitsForDone == ~dirty /\ ~lastDirty => undone \cap Instances = {}

(* Both, of a behaviour: after a refresh, clients know of windows what is so,  *)
(* and nobody waits for a `done` that does not come.                         *)
ClientsSeeTheWindows ==
  [][EveryRefreshTells]_infoVars /\ []NobodyWaitsForDone
=============================================================================
