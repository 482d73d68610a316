----------------------------- MODULE MCWorkspaces -----------------------------
(* TLC instance of Workspaces, with two connectors and different monitors,    *)
(* and of what one client is told: WorkspaceProtocol, with two groups and one *)
(* workspace, and ToplevelInfo, with one window and one output.  They share   *)
(* no state: a behaviour is of one of them, and `part` says of which.         *)
EXTENDS Workspaces, WorkspaceProtocol, ToplevelInfo

CONSTANTS o1, o2, dell, lg, c1, g1, g2, workspace, window

VARIABLE part

\* What does not run is in an initial state of its own.
MCInit ==
  /\ part \in {"shell", "protocol", "windows"}
  /\ Init /\ ProtocolInit /\ InfoInit
  /\ part # "shell" => persisted = <<>>
  /\ part # "windows" => legacy = {} /\ title[window] = "before" /\ geometry[window] = 1

Only(p) == part = p /\ UNCHANGED part

MCNext ==
  \/ Only("shell") /\ Next /\ UNCHANGED <<protocolVars, infoVars>>
  \/ Only("protocol") /\ ProtocolNext /\ UNCHANGED <<vars, infoVars>>
  \/ Only("windows") /\ InfoNext /\ UNCHANGED <<vars, protocolVars>>

MCSpec == MCInit /\ [][MCNext]_<<part, vars, protocolVars, infoVars>>

MCEdid == [o \in Outputs |-> IF o = o2 THEN lg ELSE dell]
SomePins == {<<>>, <<o2>>}
NotAnimated == {Outputs}

\* Handles are interchangeable: a state is what it is up to their names, so
\* they are numbered by their place, 0 being a handle that is gone.
Places == FlattenSeq([k \in DOMAIN sets |-> sets[k].spaces])
          \o IF backup = NoSet THEN <<>> ELSE backup.spaces
PlaceOf(h) == SelectInSeq(Places, LAMBDA x : x = h)
PlacesOf(hs) == {PlaceOf(h) : h \in hs}
PlacedSet(s) ==
  <<s.output, s.group, s.active, Len(s.spaces),
    IF s.prev = NoPrev THEN <<>>
    ELSE <<s.prev.idx, s.prev.delta, PlaceOf(s.prev.from)>>>>
StateUpToNames ==
  <<[k \in DOMAIN sets |-> PlacedSet(sets[k])],
    IF backup = NoSet THEN <<>> ELSE PlacedSet(backup),
    mode, persisted,
    {<<g, groups[g]>> : g \in Live(groups)},
    [i \in DOMAIN Places |-> space[Places[i]]],
    PlacesOf(occupied), PlacesOf(awaited), PlacesOf(pinned),
    {<<PlaceOf(p.id), p.output>> : p \in saved},
    Cardinality(Live(space)), swiping, panicked>>
View == IF part = "shell" THEN StateUpToNames
        ELSE <<part, protocolVars, infoVars>>
=============================================================================
