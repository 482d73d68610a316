--------------------------- MODULE MCWorkspacesMore ---------------------------
(* Two more TLC instances of Workspaces: `part` says of which a behaviour    *)
(* is.  One has a single output, long sets, tokens and the overview; the     *)
(* other has two outputs in both workspace modes and nothing pinned.         *)
EXTENDS Naturals, SequencesExt

CONSTANTS o1, o2, dell, lg, NoEdid

VARIABLES part,
    sets, backup, mode, persisted, groups, space, occupied, awaited, pinned,
    saved, swiping, panicked, step

One == INSTANCE Workspaces WITH
    Outputs <- {o1}, Edid <- [o \in {o1} |-> dell], Modes <- {"OutputBound"},
    Pins <- {<<>>, <<o1>>}, Reorder <- FALSE, Overviews <- {{}, {o1}},
    MaxLen <- 4, MaxContent <- 3, MaxTokens <- 1, MaxPins <- 2, MaxGroups <- 1

Two == INSTANCE Workspaces WITH
    Outputs <- {o1, o2},
    Edid <- [o \in {o1, o2} |-> IF o = o2 THEN lg ELSE dell],
    Modes <- {"OutputBound", "Global"}, Pins <- {<<>>}, Reorder <- TRUE,
    Overviews <- {{o1, o2}}, MaxLen <- 3, MaxContent <- 1, MaxTokens <- 0,
    MaxPins <- 0, MaxGroups <- 2

vars == <<part, sets, backup, mode, persisted, groups, space, occupied,
          awaited, pinned, saved, swiping, panicked, step>>

Init ==
    \/ part = "one" /\ One!Init
    \/ part = "two" /\ Two!Init

Next ==
    /\ UNCHANGED part
    /\ \/ part = "one" /\ One!Next
       \/ part = "two" /\ Two!Next

Spec == Init /\ [][Next]_vars

\* Handles are interchangeable, as in MCWorkspaces.
Places == FlattenSeq([k \in DOMAIN sets |-> sets[k].spaces])
          \o IF backup = Two!NoSet THEN <<>> ELSE backup.spaces
PlaceOf(h) == SelectInSeq(Places, LAMBDA x : x = h)
PlacesOf(hs) == {PlaceOf(h) : h \in hs}
PlacedSet(s) ==
    <<s.output, s.group, s.active, Len(s.spaces),
      IF s.prev = Two!NoPrev THEN <<>>
      ELSE <<s.prev.idx, s.prev.delta, PlaceOf(s.prev.from)>>>>
StateUpToNames ==
    <<part, [k \in DOMAIN sets |-> PlacedSet(sets[k])],
      IF backup = Two!NoSet THEN <<>> ELSE PlacedSet(backup),
      mode, persisted,
      {<<g, groups[g]>> : g \in Two!Live(groups)},
      [i \in DOMAIN Places |-> space[Places[i]]],
      PlacesOf(occupied), PlacesOf(awaited), PlacesOf(pinned),
      {<<PlaceOf(p.id), p.output>> : p \in saved},
      Cardinality(Two!Live(space)), swiping, panicked>>
-----------------------------------------------------------------------------
(* WorkspaceSet: previously_active "holds the index of the workspace the     *)
(* user is animating AWAY FROM" (the comment of ensure_last_empty).          *)
PreviousIsTheOneLeft == One!PreviousIsTheOneLeft

(* Workspaces::persist: the pinned workspaces saved for the next session are *)
(* those pinned now, on the outputs the user put them on.                    *)
SavedIsCurrent == One!SavedIsCurrent

(* Workspaces::move_workspace and refresh in Global mode: the workspaces     *)
(* with one number on different outputs stay together; and whether one mode  *)
(* or both in turn, no workspace that counts is lost or in two places        *)
(* (ensure_last_empty, update_config).                                       *)
ColumnsStay ==
    /\ [](IF part = "one" THEN One!NoneIsLost ELSE Two!NoneIsLost)
    /\ Two!ColumnsStay
=============================================================================
