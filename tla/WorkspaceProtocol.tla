-------------------------- MODULE WorkspaceProtocol --------------------------
(***************************************************************************)
(* What clients are told of workspaces: ext-workspace-v1 with the handles  *)
(* of zcosmic_workspace_manager_v2.                                        *)
(*                                                                         *)
(* Source: src/wayland/protocols/workspace/{mod,ext,cosmic_v2}.rs and the  *)
(* requests committed in src/wayland/handlers/workspace.rs.                *)
(*                                                                         *)
(* The shell changes groups and workspaces under an update guard.  Some    *)
(* changes are told at once; the others when the guard is dropped, by      *)
(* comparing what each client was told with what is.  Then, if anything    *)
(* was different, every client gets `done`.                                *)
(*                                                                         *)
(* Abstractions.  The name, the coordinates, the capabilities and the      *)
(* states of a workspace are one value, `label`, which says whether it is  *)
(* active; what only the handle of the second protocol carries (tiling,    *)
(* pinned) is another, `tiling`.  A client has one manager.  Ids are given *)
(* out once (id_gen); here a name is used again when nothing refers to it  *)
(* any more.                                                               *)
(***************************************************************************)
EXTENDS Naturals, Sequences, FiniteSets, ProtocolObjects

CONSTANTS
  Groups,
  Labels,      \* values of name, coordinates, capabilities, states
  Active,      \* the label of an active workspace
  Tilings,     \* values of tiling_state and the pinned state
  MaxChanges,  \* bound on what the shell does in one update
  MaxLate,     \* bound on what a client binds and destroys between updates
  MaxRequests  \* bound on the requests of a client that wait for a commit

VARIABLES
  outputsOf,  \* outputs of a group, None when there is no such group
  home,       \* group of a workspace, None when there is no such workspace
  label, tiling,
  updating,   \* 0, or a WorkspaceUpdateGuard exists
  manager,    \* of a client: "none", "bound", "stopped"
  bound,      \* wl_outputs a client has
  toldGroup,  \* what the handle of a group remembers having sent
  toldSpace,  \* what the handle of a workspace remembers having sent
  requests,   \* requests of a client before its commit
  todo,       \* committed requests that are still to be handled
  late,       \* history: outputs a client bound or released, and groups and
              \* workspaces whose handle it destroyed, since the last update
  heard,      \* history: the kinds of events since the last `done`
  orphaned    \* history: a group was removed that a workspace had not left

protocolVars ==
  <<outputsOf, home, label, tiling, updating, manager, bound, toldGroup,
    toldSpace, requests, todo, late, heard, orphaned>>

\* What a handle remembers.
ToldGroups == [outputs : SUBSET Screens, count : Nat]
ToldSpaces == [group : Groups \cup {None}, label : Labels \cup {None},
               tiling : Tilings \cup {None}]

\* What is assumed of the constants: None is nothing else, and a workspace
\* that is not active has a label.
ProtocolConstants ==
  /\ None \notin Groups /\ \A os \in SUBSET Screens : os # None
  /\ None \notin ToldGroups /\ None \notin ToldSpaces
  /\ IsFiniteSet(Spaces)
  /\ Active \in Labels /\ \E l \in Labels : l # Active
  /\ MaxChanges \in Nat
ASSUME ProtocolAssumption == ProtocolConstants

LiveGroups == {g \in Groups : outputsOf[g] # None}
LiveSpaces == {w \in Spaces : home[w] # None}
SpacesIn(g) == {w \in Spaces : home[w] = g}
Bound == {c \in Clients : manager[c] = "bound"}
Idle == updating = 0 /\ todo = <<>>

ProtocolInit ==
  /\ outputsOf = [g \in Groups |-> None]
  /\ home = [w \in Spaces |-> None]
  /\ label = [w \in Spaces |-> None] /\ tiling = [w \in Spaces |-> None]
  /\ updating = 0
  /\ manager = [c \in Clients |-> "none"]
  /\ bound = [c \in Clients |-> {}]
  /\ toldGroup = [c \in Clients |-> [g \in Groups |-> None]]
  /\ toldSpace = [c \in Clients |-> [w \in Spaces |-> None]]
  /\ requests = [c \in Clients |-> <<>>] /\ todo = <<>>
  /\ late = [c \in Clients |-> {}] /\ heard = [c \in Clients |-> {}]
  /\ orphaned = FALSE

-----------------------------------------------------------------------------
(* What is sent when a guard is dropped.                                   *)

\* send_group_to_client: outputs and number of workspaces, a new handle if
\* the client has none
Announced(c, g) ==
  [outputs |-> outputsOf[g] \cap bound[c], count |-> Cardinality(SpacesIn(g))]

\* ext and cosmic_v2 send_workspace_to_client; `tiling` is None without a
\* handle of the second protocol
AnnouncedSpace(c, w) ==
  [group |-> home[w], label |-> label[w],
   tiling |-> IF toldSpace[c][w] = None \/ toldSpace[c][w].tiling = None
                THEN None ELSE tiling[w]]

\* entering a group alone is not a change
SpaceChanged(c, w) ==
  \/ toldSpace[c][w] = None
  \/ [AnnouncedSpace(c, w) EXCEPT !.group = None]
       # [toldSpace[c][w] EXCEPT !.group = None]

\* Mutant: the number of workspaces is not compared.
GroupChanged_Outputs(c, g) ==
  toldGroup[c][g] = None \/ toldGroup[c][g].outputs # Announced(c, g).outputs
GroupChanged(c, g) == toldGroup[c][g] # Announced(c, g)

Changed(c) == \/ \E g \in LiveGroups : GroupChanged(c, g)
              \/ \E w \in LiveSpaces : SpaceChanged(c, w)
Entered(c) == \E w \in LiveSpaces :
                toldSpace[c][w] = None \/ toldSpace[c][w].group # home[w]

TellGroups(c) == [g \in Groups |->
                    IF g \in LiveGroups THEN Announced(c, g) ELSE None]
TellSpaces(c) == [w \in Spaces |->
                    IF w \in LiveSpaces THEN AnnouncedSpace(c, w) ELSE None]

\* WorkspaceState::done
Done ==
  LET changed == \E c \in Bound : Changed(c)
  IN /\ toldGroup' = [c \in Clients |-> IF c \in Bound THEN TellGroups(c)
                                        ELSE toldGroup[c]]
     /\ toldSpace' = [c \in Clients |-> IF c \in Bound THEN TellSpaces(c)
                                        ELSE toldSpace[c]]
     /\ heard' = [c \in Clients |->
          IF c \notin Bound THEN heard[c]
          ELSE IF changed THEN {}
          ELSE heard[c] \cup (IF Entered(c) THEN {"enter"} ELSE {})]
     /\ late' = [c \in Clients |-> IF c \in Bound THEN {} ELSE late[c]]

-----------------------------------------------------------------------------
(* What the shell does under a guard.                                      *)

\* `updating` counts down what the shell may still do (MaxChanges).
Shell == updating > 1 /\ updating' = updating - 1

\* Nothing is told of it once every client has stopped.
Update ==
  /\ Idle /\ \E c \in Clients : manager[c] # "stopped"
  /\ updating' = MaxChanges + 1
  /\ UNCHANGED <<outputsOf, home, label, tiling, manager, bound, toldGroup,
                 toldSpace, requests, todo, late, heard, orphaned>>

\* WorkspaceUpdateGuard::drop
UpdateEnds ==
  /\ updating > 0 /\ updating' = 0
  /\ Done
  /\ UNCHANGED <<outputsOf, home, label, tiling, manager, bound, requests,
                 todo, orphaned>>

CreateWorkspaceGroup(g) ==
  /\ Shell /\ outputsOf[g] = None
  /\ \A c \in Clients : toldGroup[c][g] = None
  /\ outputsOf' = [outputsOf EXCEPT ![g] = {}]
  /\ UNCHANGED <<home, label, tiling, manager, bound, toldGroup, toldSpace,
                 requests, todo, late, heard, orphaned>>

\* add_group_output, remove_group_output
SetGroupOutputs(g, os) ==
  /\ Shell /\ outputsOf[g] \notin {None, os}
  /\ outputsOf' = [outputsOf EXCEPT ![g] = os]
  /\ UNCHANGED <<home, label, tiling, manager, bound, toldGroup, toldSpace,
                 requests, todo, late, heard, orphaned>>

CreateWorkspace(w, g, l, t) ==
  /\ Shell /\ home[w] = None /\ outputsOf[g] # None
  /\ \A c \in Clients :
       /\ toldSpace[c][w] = None
       /\ \A i \in DOMAIN requests[c] : requests[c][i].space # w
  /\ home' = [home EXCEPT ![w] = g]
  /\ label' = [label EXCEPT ![w] = l] /\ tiling' = [tiling EXCEPT ![w] = t]
  /\ UNCHANGED <<outputsOf, manager, bound, toldGroup, toldSpace, requests,
                 todo, late, heard, orphaned>>

\* set_workspace_name and the like, add_workspace_state
SetLabel(w, l) ==
  /\ Shell /\ home[w] # None /\ label[w] # l
  /\ label' = [label EXCEPT ![w] = l]
  /\ UNCHANGED <<outputsOf, home, tiling, manager, bound, toldGroup,
                 toldSpace, requests, todo, late, heard, orphaned>>

SetTilingState(w, t) ==
  /\ Shell /\ home[w] # None /\ tiling[w] # t
  /\ tiling' = [tiling EXCEPT ![w] = t]
  /\ UNCHANGED <<outputsOf, home, label, manager, bound, toldGroup,
                 toldSpace, requests, todo, late, heard, orphaned>>

\* workspace_leave and removed, to every handle of these workspaces
Forget(ws) ==
  /\ home' = [w \in Spaces |-> IF w \in ws THEN None ELSE home[w]]
  /\ label' = [w \in Spaces |-> IF w \in ws THEN None ELSE label[w]]
  /\ tiling' = [w \in Spaces |-> IF w \in ws THEN None ELSE tiling[w]]
  /\ toldSpace' = [c \in Clients |-> [w \in Spaces |->
                     IF w \in ws THEN None ELSE toldSpace[c][w]]]

Knows(c, ws) == \E w \in ws : toldSpace[c][w] # None

RemoveWorkspace(w) ==
  /\ Shell /\ home[w] # None
  /\ Forget({w})
  /\ heard' = [c \in Clients |->
       heard[c] \cup (IF Knows(c, {w}) THEN {"removed"} ELSE {})]
  /\ UNCHANGED <<outputsOf, manager, bound, toldGroup, requests, todo, late,
                 orphaned>>

\* its workspaces are removed first
RemoveGroup(g) ==
  /\ Shell /\ outputsOf[g] # None
  /\ Forget(SpacesIn(g))
  /\ outputsOf' = [outputsOf EXCEPT ![g] = None]
  /\ toldGroup' = [c \in Clients |-> [toldGroup[c] EXCEPT ![g] = None]]
  /\ heard' = [c \in Clients |->
       heard[c] \cup (IF Knows(c, SpacesIn(g)) THEN {"removed"} ELSE {})
                \cup {"group"}]
  /\ orphaned' = (\/ orphaned
                  \/ \E c \in Clients, w \in Spaces :
                       toldSpace'[c][w] # None /\ toldSpace'[c][w].group = g)
  /\ UNCHANGED <<manager, bound, requests, todo, late>>

\* Mutant: the handle keeps its group when the workspace moves.
Left_Kept(c, w) == toldSpace[c]

\* the handle's group is taken, with a workspace_leave if there was one
Left(c, w) == IF toldSpace[c][w] = None THEN toldSpace[c]
              ELSE [toldSpace[c] EXCEPT ![w].group = None]

MoveWorkspaceToGroup(g, w) ==
  /\ Shell /\ outputsOf[g] # None /\ home[w] # None
  /\ home' = [home EXCEPT ![w] = g]
  /\ toldSpace' = [c \in Clients |-> Left(c, w)]
  /\ heard' = [c \in Clients |->
       heard[c] \cup (IF Knows(c, {w}) THEN {"leave"} ELSE {})]
  /\ UNCHANGED <<outputsOf, label, tiling, manager, bound, toldGroup,
                 requests, todo, late, orphaned>>

-----------------------------------------------------------------------------
(* Clients.                                                                *)

MayAct(c) == Idle /\ Cardinality(late[c]) < MaxLate

Bind(c) ==
  /\ Idle /\ manager[c] = "none"
  /\ manager' = [manager EXCEPT ![c] = "bound"]
  /\ toldGroup' = [toldGroup EXCEPT ![c] = TellGroups(c)]
  /\ toldSpace' = [toldSpace EXCEPT ![c] = TellSpaces(c)]
  /\ late' = [late EXCEPT ![c] = {}]
  /\ UNCHANGED <<outputsOf, home, label, tiling, updating, bound, requests,
                 todo, heard, orphaned>>

\* also what happens when the manager is destroyed
Stop(c) ==
  /\ Idle /\ manager[c] = "bound"
  /\ manager' = [manager EXCEPT ![c] = "stopped"]
  /\ UNCHANGED <<outputsOf, home, label, tiling, updating, bound, toldGroup,
                 toldSpace, requests, todo, late, heard, orphaned>>

\* wl_output: nobody listens (OutputHandler is empty)
BindOutput(c, o) ==
  /\ MayAct(c) /\ o \notin bound[c]
  /\ bound' = [bound EXCEPT ![c] = @ \cup {o}]
  /\ late' = [late EXCEPT ![c] = @ \cup {o}]
  /\ UNCHANGED <<outputsOf, home, label, tiling, updating, manager,
                 toldGroup, toldSpace, requests, todo, heard, orphaned>>

ReleaseOutput(c, o) ==
  /\ MayAct(c) /\ o \in bound[c]
  /\ bound' = [bound EXCEPT ![c] = @ \ {o}]
  /\ late' = [late EXCEPT ![c] = @ \cup {o}]
  /\ UNCHANGED <<outputsOf, home, label, tiling, updating, manager,
                 toldGroup, toldSpace, requests, todo, heard, orphaned>>

\* A workspace that was told to be in this group is in none the client has.
DestroyGroupHandle(c, g) ==
  /\ MayAct(c) /\ toldGroup[c][g] # None
  /\ toldGroup' = [toldGroup EXCEPT ![c][g] = None]
  /\ toldSpace' = [toldSpace EXCEPT ![c] = [w \in Spaces |->
       IF @[w] # None /\ @[w].group = g THEN [@[w] EXCEPT !.group = None]
       ELSE @[w]]]
  /\ late' = [late EXCEPT ![c] = @ \cup {g} \cup
       {w \in Spaces : toldSpace[c][w] # None /\ toldSpace[c][w].group = g}]
  /\ UNCHANGED <<outputsOf, home, label, tiling, updating, manager, bound,
                 requests, todo, heard, orphaned>>

DestroySpaceHandle(c, w) ==
  /\ MayAct(c) /\ toldSpace[c][w] # None
  /\ toldSpace' = [toldSpace EXCEPT ![c][w] = None]
  /\ late' = [late EXCEPT ![c] = @ \cup {w}]
  /\ UNCHANGED <<outputsOf, home, label, tiling, updating, manager, bound,
                 toldGroup, requests, todo, heard, orphaned>>

\* send_workspace_to_client of the second protocol, and done
GetCosmicWorkspace(c, w) ==
  /\ Idle /\ toldSpace[c][w] # None /\ toldSpace[c][w].tiling = None
  /\ toldSpace' = [toldSpace EXCEPT ![c][w].tiling = tiling[w]]
  /\ heard' = [heard EXCEPT ![c] = {}]
  /\ UNCHANGED <<outputsOf, home, label, tiling, updating, manager, bound,
                 toldGroup, requests, todo, late, orphaned>>

DestroyCosmicHandle(c, w) ==
  /\ Idle /\ toldSpace[c][w] # None /\ toldSpace[c][w].tiling # None
  /\ toldSpace' = [toldSpace EXCEPT ![c][w].tiling = None]
  /\ UNCHANGED <<outputsOf, home, label, tiling, updating, manager, bound,
                 toldGroup, requests, todo, late, heard, orphaned>>

\* A request is kept with the manager, also with one that was stopped.
Request(c, r) ==
  /\ Idle /\ toldSpace[c][r.space] # None
  /\ r.tiling # None => toldSpace[c][r.space].tiling # None
  /\ Len(requests[c]) < MaxRequests
  /\ requests' = [requests EXCEPT ![c] = Append(@, r)]
  /\ UNCHANGED <<outputsOf, home, label, tiling, updating, manager, bound,
                 toldGroup, toldSpace, todo, late, heard, orphaned>>

Commit(c) ==
  /\ Idle /\ manager[c] = "bound" /\ requests[c] # <<>>
  /\ todo' = requests[c] /\ requests' = [requests EXCEPT ![c] = <<>>]
  /\ UNCHANGED <<outputsOf, home, label, tiling, updating, manager, bound,
                 toldGroup, toldSpace, late, heard, orphaned>>

\* commit_requests: each under a guard of its own, in which the shell may do
\* more; one for a workspace that is gone does nothing.  Activate takes the
\* active state from the others of the group.
HandleRequest ==
  /\ updating = 0 /\ todo # <<>> /\ todo' = Tail(todo)
  /\ LET r == Head(todo)
         here == {w \in SpacesIn(home[r.space]) : label[w] = Active}
     IN IF home[r.space] = None THEN UNCHANGED <<label, tiling, updating>>
        ELSE /\ updating' = MaxChanges + 1
             /\ label' = IF r.tiling # None THEN label
                         ELSE [w \in Spaces |->
                           IF w = r.space THEN Active
                           ELSE IF w \in here
                           THEN CHOOSE l \in Labels : l # Active
                           ELSE label[w]]
             /\ tiling' = IF r.tiling = None THEN tiling
                          ELSE [tiling EXCEPT ![r.space] = r.tiling]
  /\ UNCHANGED <<outputsOf, home, manager, bound, toldGroup, toldSpace,
                 requests, late, heard, orphaned>>

Requests == [space : Spaces, tiling : Tilings \cup {None}]

ProtocolNext ==
  \/ Update \/ UpdateEnds \/ HandleRequest
  \/ \E g \in Groups : CreateWorkspaceGroup(g) \/ RemoveGroup(g)
  \/ \E g \in Groups, os \in SUBSET Screens : SetGroupOutputs(g, os)
  \/ \E w \in Spaces, g \in Groups, l \in Labels, t \in Tilings :
       CreateWorkspace(w, g, l, t)
  \/ \E w \in Spaces, l \in Labels : SetLabel(w, l)
  \/ \E w \in Spaces, t \in Tilings : SetTilingState(w, t)
  \/ \E w \in Spaces : RemoveWorkspace(w)
  \/ \E w \in Spaces, g \in Groups : MoveWorkspaceToGroup(g, w)
  \/ \E c \in Clients : Bind(c) \/ Stop(c) \/ Commit(c)
  \/ \E c \in Clients, o \in Screens : BindOutput(c, o) \/ ReleaseOutput(c, o)
  \/ \E c \in Clients, g \in Groups : DestroyGroupHandle(c, g)
  \/ \E c \in Clients, w \in Spaces :
       \/ DestroySpaceHandle(c, w)
       \/ GetCosmicWorkspace(c, w) \/ DestroyCosmicHandle(c, w)
  \/ \E c \in Clients, r \in Requests : Request(c, r)

ProtocolSpec == ProtocolInit /\ [][ProtocolNext]_protocolVars

-----------------------------------------------------------------------------
\* Except for what the client did itself since the last update.
Tells(c) ==
  /\ \A g \in Groups \ late[c] :
       /\ toldGroup[c][g] # None <=> outputsOf[g] # None
       /\ toldGroup[c][g] # None =>
            toldGroup[c][g].outputs \ late[c]
              = (outputsOf[g] \cap bound[c]) \ late[c]
  /\ \A w \in Spaces \ late[c] :
       /\ toldSpace[c][w] # None <=> home[w] # None
       /\ toldSpace[c][w] # None =>
            /\ toldSpace[c][w].group = home[w]
            /\ toldSpace[c][w].label = label[w]
            /\ toldSpace[c][w].tiling \in {None, tiling[w]}
\* Nothing was left without `done`, but for groups that went and workspaces
\* that changed places.
AllDone(c) == heard[c] \subseteq {"enter", "leave"} \/ "group" \in heard[c]

(* After every update a client has been told of groups and workspaces what   *)
(* is, whatever handles it threw away before and whatever the shell did in   *)
(* one update; nothing it was told of lacks its `done`, but for the removal  *)
(* of a group or workspaces that changed places; and no group was removed    *)
(* before its workspaces left it (WorkspaceState::done,                      *)
(* send_group_to_client, move_workspace_to_group).                           *)
ClientsSeeTheWorkspaces ==
  /\ Idle => \A c \in Bound : Tells(c) /\ AllDone(c)
  /\ ~orphaned

=============================================================================
