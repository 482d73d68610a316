------------------------------ MODULE Workspaces ------------------------------
(***************************************************************************)
(* The workspaces of all outputs: one WorkspaceSet per connected output,   *)
(* its protocol objects, the outputs a workspace remembers, and the pinned *)
(* workspaces saved for the next session.                                  *)
(*                                                                         *)
(* Source: src/shell/mod.rs (WorkspaceSet, Workspaces, Common), the        *)
(* workspace parts of shell/workspace.rs, wayland/handlers/workspace.rs,   *)
(* wayland/protocols/workspace and the callers in input/.                  *)
(*                                                                         *)
(* Abstractions.  A workspace is its protocol handle, a number; what is on *)
(* it is whether anything is (occupied), whether a live activation token   *)
(* names it (awaited), and whether it is pinned.  Tiling state, names,     *)
(* capabilities, coordinates and the sticky layer are left out.  An output *)
(* is its connector; Edid says which monitor is plugged into it.  The      *)
(* refresh of the event loop is throttled (lib.rs), so any number of       *)
(* requests may be handled between two refreshes.                          *)
(***************************************************************************)
EXTENDS Naturals, SequencesExt

CONSTANTS
  Outputs,    \* connectors
  Edid,       \* Edid[o]: the monitor on connector o, or NoEdid
  NoEdid,
  Modes,      \* the workspace modes the configuration may ask for
  Pins,       \* the pinned workspaces an earlier session may have saved
  Reorder,    \* whether clients send MoveBefore and MoveAfter
  Overviews,  \* the sets of outputs on which the workspace overview may be
              \* open: nothing is animated there
  MaxLen,     \* bound on the workspaces of one set
  MaxContent, \* bound on the workspaces kept by content, token or pin
  MaxTokens,  \* bound on the workspaces live activation tokens name
  MaxPins,    \* bound on the pinned workspaces
  MaxGroups   \* bound on the workspace groups

ASSUME EdidAssumption == NoEdid \in {Edid[o] : o \in Outputs} \cup {NoEdid}
ASSUME ModesAssumption == Modes \subseteq {"OutputBound", "Global"}
ASSUME PinsAssumption == \A p \in Pins : p \in Seq(Outputs)
ASSUME OverviewsAssumption == Overviews \subseteq SUBSET Outputs
ASSUME WorkspaceBounds ==
  /\ MaxLen \in Nat /\ MaxContent \in Nat /\ MaxTokens \in Nat
  /\ MaxPins \in Nat /\ MaxGroups \in Nat /\ Reorder \in BOOLEAN

VARIABLES
  sets,      \* Workspaces::sets, in the order the outputs were added
  backup,    \* Workspaces::backup_set: the last set, without an output
  mode,      \* Workspaces::mode
  persisted, \* Workspaces::persisted_workspaces, outputs of pinned workspaces
  groups,    \* protocol: the outputs of every workspace group
  space,     \* protocol state and output_stack of every workspace
  occupied,  \* workspaces with a window on them
  awaited,   \* workspaces a live activation token names
  pinned,    \* workspaces with Workspace::pinned
  saved,     \* runtime_state.pinned_workspaces
  swiping,   \* gesture_state holds a workspace swipe
  panicked,  \* a Rust panic ended the compositor
  step       \* history: what kind of handler ran last

vars == <<sets, backup, mode, persisted, groups, space, occupied, awaited,
          pinned, saved, swiping, panicked, step>>

\* No backup set, no previous workspace, a freed protocol object
NoSet == [none |-> TRUE]
NoPrev == [none |-> TRUE]
Gone == [none |-> TRUE]

\* previously_active: an index and its WorkspaceDelta. "from" is a history
\* field: the workspace that was left.
Prev(idx, delta, from) == [idx |-> idx, delta |-> delta, from |-> from]

\* What one handler works on: Workspaces and the protocol objects.
World == [sets |-> sets, backup |-> backup, groups |-> groups,
          space |-> space, pinned |-> pinned]

Become(r) ==
  /\ \A k \in DOMAIN r.sets : Len(r.sets[k].spaces) <= MaxLen
  /\ Cardinality(occupied \cup awaited \cup r.pinned) <= MaxContent
  /\ Cardinality(r.pinned) <= MaxPins /\ Len(r.groups) <= MaxGroups
  /\ sets' = r.sets /\ backup' = r.backup /\ groups' = r.groups
  /\ space' = r.space /\ pinned' = r.pinned

Connected == {sets[k].output : k \in DOMAIN sets}
KeyOf(r, o) == CHOOSE k \in DOMAIN r.sets : r.sets[k].output = o
PositionOf(spaces, h) == CHOOSE i \in DOMAIN spaces : spaces[i] = h
SetWith(r, h) == CHOOSE k \in DOMAIN r.sets : Contains(r.sets[k].spaces, h)
Upto(n) == [k \in 1..n |-> k]

AllSets(r) == {r.sets[k] : k \in DOMAIN r.sets} \cup ({r.backup} \ {NoSet})
Listed(r) == UNION {Range(s.spaces) : s \in AllSets(r)}

Least(used) == CHOOSE n \in 1..(Cardinality(used) + 1) :
                 n \notin used /\ \A m \in 1..(n - 1) : m \in used

Live(table) == {i \in DOMAIN table : table[i] # Gone}
\* id_gen: numbers in use are skipped
Put(table, n, e) == IF n \in DOMAIN table THEN [table EXCEPT ![n] = e]
                    ELSE Append(table, e)

\* can_auto_remove
IsEmpty(h) == h \notin occupied
CanAutoRemove(r, h) == IsEmpty(h) /\ h \notin awaited /\ h \notin r.pinned

-----------------------------------------------------------------------------
(* The outputs a workspace remembers, oldest first: output_stack.          *)

\* output_matches
OutputMatches(m, o, disambiguate) ==
  /\ Edid[m] = Edid[o]
  /\ disambiguate \/ Edid[m] = NoEdid => m = o

\* Workspace::set_output
SetOutput(stack, o, explicit) ==
  LET known == IF explicit THEN <<>> ELSE stack
      first(dis) == SelectInSeq(known, LAMBDA m : OutputMatches(m, o, dis))
  IN IF first(TRUE) # 0 THEN SubSeq(known, 1, first(TRUE))
     ELSE Append(SubSeq(known, 1, IF first(FALSE) # 0 THEN first(FALSE)
                                  ELSE Len(known)), o)

\* Workspace::prefers_output, for a workspace that is on "here"
PrefersOutput(r, h, here, o) ==
  LET disambiguate == Edid[o] # NoEdid /\ Edid[here] = Edid[o]
  IN \E i \in DOMAIN r.space[h].stack :
       OutputMatches(r.space[h].stack[i], o, disambiguate)

-----------------------------------------------------------------------------
(* The protocol objects.                                                   *)

\* add_workspace_state and remove_workspace_state for Active
Show(r, h) == [r EXCEPT !.space[h].shown = TRUE]
Hide(r, h) == [r EXCEPT !.space[h].shown = FALSE]

\* WorkspaceUpdateGuard::remove_workspace
Destroy(r, hs) ==
  FoldSet(LAMBDA h, q : [q EXCEPT !.space[h] = Gone], r, hs)

\* remove_workspace_group takes its remaining workspaces with it
RemoveWorkspaceGroup(r, g) ==
  [Destroy(r, {h \in Live(r.space) : r.space[h].group = g})
     EXCEPT !.groups[g] = Gone]

\* Mutant: the workspace stays in the group of the set it leaves.
MoveTo_OldGroup(r, h, group, o, explicit) ==
  [r EXCEPT !.space[h].stack = SetOutput(@, o, explicit)]

\* move_workspace_to_group, and Workspace::set_output with it
MoveTo(r, h, group, o, explicit) ==
  [r EXCEPT !.space[h].group = group,
            !.space[h].stack = SetOutput(@, o, explicit)]

\* create_workspace and create_workspace_from_pinned, at a position of set k.
\* The handle is one no workspace and no "from" has.
InsertAs(r, k, pos, stack, h) ==
  [r EXCEPT !.sets[k].spaces = InsertAt(@, pos, h),
            !.space = Put(@, h, [group |-> r.sets[k].group,
                                  stack |-> stack, shown |-> FALSE])]
InsertSpace(r, k, pos, stack) ==
  InsertAs(r, k, pos, stack,
           Least(Live(r.space) \cup {s.prev.from : s \in
                   {t \in AllSets(r) : t.prev # NoPrev}}))

-----------------------------------------------------------------------------
(* WorkspaceSet.                                                           *)

AddEmptyWorkspace(r, k) ==
  InsertSpace(r, k, Len(r.sets[k].spaces) + 1, <<r.sets[k].output>>)

\* WorkspaceSet::activate of an index the set has; "still": the outputs on
\* which the workspace overview is open
ActivateIn(r, k, i, delta, still) ==
  LET s == r.sets[k]
      left == s.spaces[s.active]
  IN IF s.active # i
     THEN Show(Hide([r EXCEPT !.sets[k].active = i,
                              !.sets[k].prev = IF s.output \in still THEN NoPrev
                                               ELSE Prev(s.active, delta, left)],
                    left), s.spaces[i])
     ELSE IF s.prev = NoPrev THEN r
     ELSE [r EXCEPT !.sets[k].prev =
             IF s.prev.delta = "Gesture" /\ delta = "GestureEnd"
             THEN [@ EXCEPT !.delta = delta] ELSE NoPrev]

HasIndex(r, k, i) == i <= Len(r.sets[k].spaces)

UpdateDeltaIn(r, k) ==
  IF r.sets[k].prev = NoPrev THEN r
  ELSE [r EXCEPT !.sets[k].prev.delta = "Gesture"]

NeverNone(r, k) ==
  IF r.sets[k].spaces = <<>> THEN AddEmptyWorkspace(r, k) ELSE r

\* Mutant: active keeps its index.
Reactivate_KeepIndex(r, k, was) ==
  LET spaces == r.sets[k].spaces
  IN IF Contains(spaces, was) THEN r
     ELSE Show([r EXCEPT !.sets[k].active = Len(spaces)], Last(spaces))

\* post_remove_workspace; "was" is the workspace that was active before
Reactivate(r, k, was) ==
  LET spaces == r.sets[k].spaces
  IN IF Contains(spaces, was)
     THEN [r EXCEPT !.sets[k].active = PositionOf(spaces, was)]
     ELSE Show([r EXCEPT !.sets[k].active = Len(spaces)], Last(spaces))

\* remove_workspace and remove_workspaces
RemoveSpaces(r, k, hs) ==
  Reactivate(NeverNone([r EXCEPT !.sets[k].spaces =
                          SelectSeq(@, LAMBDA h : h \notin hs)], k),
             k, r.sets[k].spaces[r.sets[k].active])

Trim(spaces, kept) ==
  SelectSeq(spaces, LAMBDA h : \E i \in kept : spaces[i] = h)
Shifted(i, kept) == Cardinality({n \in kept : n <= i})

\* Mutant: as upstream, only the active and the last workspace are kept.
KeptIndices_Upstream(r, k) ==
  LET s == r.sets[k]
  IN {i \in DOMAIN s.spaces : ~CanAutoRemove(r, s.spaces[i])
                              \/ i = s.active \/ i = Len(s.spaces)}

\* Mutant: a live activation token does not spare a workspace.
KeptIndices_Untokened(r, k) ==
  LET s == r.sets[k]
  IN {i \in DOMAIN s.spaces : ~IsEmpty(s.spaces[i]) \/ s.spaces[i] \in r.pinned
                              \/ i <= s.active \/ i = Len(s.spaces)}

\* ensure_last_empty: the workspaces it keeps
KeptIndices(r, k) ==
  LET s == r.sets[k]
  IN {i \in DOMAIN s.spaces :
        \/ ~CanAutoRemove(r, s.spaces[i])
        \/ i <= s.active
        \/ i = Len(s.spaces)
        \/ s.prev # NoPrev /\ s.prev.idx = i}

\* Mutant: previously_active is not corrected.
ShiftedPrev_Stale(prev, kept) == prev

\* ensure_last_empty: previously_active still names the same workspace
ShiftedPrev(prev, kept) ==
  IF prev = NoPrev \/ prev.idx \notin kept THEN NoPrev
  ELSE [prev EXCEPT !.idx = Shifted(@, kept)]

\* Mutant: the protocol objects of reaped workspaces leak.
Reap_Leak(r, k, kept) ==
  [r EXCEPT !.sets[k].spaces = Trim(@, kept),
            !.sets[k].active = Shifted(@, kept),
            !.sets[k].prev = ShiftedPrev(@, kept)]

\* ensure_last_empty: remove the others
Reap(r, k, kept) ==
  LET spaces == r.sets[k].spaces
  IN Destroy([r EXCEPT !.sets[k].spaces = Trim(@, kept),
                       !.sets[k].active = Shifted(@, kept),
                       !.sets[k].prev = ShiftedPrev(@, kept)],
             {spaces[i] : i \in DOMAIN spaces \ kept})

WithSpare(r, k) ==
  LET spaces == r.sets[k].spaces
  IN IF spaces # <<>> /\ IsEmpty(Last(spaces)) /\ Last(spaces) \notin r.pinned
     THEN r ELSE AddEmptyWorkspace(r, k)

EnsureLastEmpty(r, k) ==
  LET clean(q) == Reap(q, k, KeptIndices(q, k)) IN clean(WithSpare(r, k))

\* WorkspaceSet::refresh ends an animation whose time is over
SettleIn(r, k) ==
  [r EXCEPT !.sets[k].prev =
     IF @ # NoPrev /\ @.delta # "Gesture" THEN NoPrev ELSE @]

-----------------------------------------------------------------------------
(* Workspaces::refresh; "settled": the outputs whose animation has ended.  *)

FillUp(r, n) ==
  LET fill(q, k) == FoldLeft(LAMBDA p, j : AddEmptyWorkspace(p, k), q,
                             Upto(n - Len(q.sets[k].spaces)))
  IN FoldLeft(fill, r, Upto(Len(r.sets)))

\* Mutant: only the first output's windows keep a column.
KeptColumns_First(r) ==
  LET s == r.sets[1]
  IN {i \in DOMAIN s.spaces : \/ ~CanAutoRemove(r, s.spaces[i])
                              \/ i = s.active \/ i = Len(s.spaces)}

\* The indices the branch for WorkspaceMode::Global keeps on every output
KeptColumns(r) ==
  LET len == Len(r.sets[1].spaces)
  IN {i \in 1..len :
        \/ \E k \in DOMAIN r.sets : ~CanAutoRemove(r, r.sets[k].spaces[i])
        \/ i = r.sets[1].active
        \/ i = len}

\* Mutant: every set is cleaned up on its own.
RefreshGlobal_PerSet(r) ==
  FoldLeft(EnsureLastEmpty, r, Upto(Len(r.sets)))

\* The branch for WorkspaceMode::Global: previously_active is not touched
RefreshGlobal(r) ==
  LET even(q) == FillUp(q, Max({Len(q.sets[k].spaces) : k \in DOMAIN q.sets}))
      busy(h, q) == ~IsEmpty(h) \/ h \in q.pinned
      spare(q) == IF \E k \in DOMAIN q.sets : busy(Last(q.sets[k].spaces), q)
                  THEN FillUp(q, Len(q.sets[1].spaces) + 1) ELSE q
      trim(q, kept, active) ==
        FoldLeft(LAMBDA p, k : [p EXCEPT !.sets[k].spaces = Trim(@, kept),
                                         !.sets[k].active = active],
                 Destroy(q, {q.sets[k].spaces[i] : k \in DOMAIN q.sets,
                              i \in DOMAIN q.sets[1].spaces \ kept}),
                 Upto(Len(q.sets)))
      trimTo(q, kept) == trim(q, kept, Shifted(q.sets[1].active, kept))
      clean(q) == trimTo(q, KeptColumns(q))
  IN clean(spare(even(r)))

Refreshed(r, m, settled) ==
  LET settle(q, k) == IF q.sets[k].output \in settled THEN SettleIn(q, k) ELSE q
  IN FoldLeft(settle, IF r.sets = <<>> THEN r
                      ELSE IF m = "Global" THEN RefreshGlobal(r)
                      ELSE FoldLeft(EnsureLastEmpty, r, Upto(Len(r.sets))),
              Upto(Len(r.sets)))

\* Common::refresh
Refresh ==
  /\ \E settled \in SUBSET Connected : Become(Refreshed(World, mode, settled))
  /\ UNCHANGED <<mode, persisted, occupied, awaited, saved, swiping, panicked>>

-----------------------------------------------------------------------------
(* Outputs come and go.                                                    *)

\* The set for a new output: the backup, or WorkspaceSet::new. The set is
\* appended first; the code builds it aside and inserts it at the end.
NewSet(r, o) ==
  LET g == IF r.backup # NoSet THEN r.backup.group ELSE Least(Live(r.groups))
      s == IF r.backup # NoSet THEN [r.backup EXCEPT !.output = o]
           ELSE [output |-> o, group |-> g, active |-> 1, prev |-> NoPrev,
                 spaces |-> <<>>]
      settle(q, h) == MoveTo(q, h, g, o, FALSE)
  IN FoldLeft(settle,
              [r EXCEPT !.sets = Append(@, s), !.backup = NoSet,
                        !.groups = Put(@, g, [outputs |-> {o}])],
              s.spaces)

\* The pinned workspaces of the last session go to the first output.
FromPinned(r, k, outs) ==
  LET o == r.sets[k].output
      create(q, p) ==
        LET q1 == InsertSpace(q, k, Len(q.sets[k].spaces) + 1,
                              IF p = o THEN <<p>> ELSE <<p, o>>)
        IN [q1 EXCEPT !.pinned = @ \cup {Last(q1.sets[k].spaces)}]
  IN FoldLeft(create, r, outs)

\* Mutant: nobody moves.
Fond_Nobody(r, n, o) == <<>>

\* The workspaces of set n that prefer output o
Fond(r, n, o) ==
  SelectSeq(r.sets[n].spaces,
            LAMBDA h : PrefersOutput(r, h, r.sets[n].output, o))

\* Mutant: a workspace that was active stays so on its new output.
Enter_StillShown(r, k, h) ==
  MoveTo(r, h, r.sets[k].group, r.sets[k].output, FALSE)

\* A workspace joins set k without being active there.
Enter(r, k, h) ==
  MoveTo(Hide(r, h), h, r.sets[k].group, r.sets[k].output, FALSE)

\* Workspaces::add_output
AddedOutput(r, o, outs) ==
  LET k == Len(r.sets) + 1
      enter(q, moved) ==
        [FoldLeft(LAMBDA p, h : Enter(p, k, h), q, moved)
           EXCEPT !.sets[k].spaces = @ \o moved]
      show(q) == Show(q, q.sets[k].spaces[q.sets[k].active])
  IN show(NeverNone(
       enter(FoldLeft(LAMBDA q, n : RemoveSpaces(q, n, Range(Fond(r, n, o))),
                      FromPinned(NewSet(r, o), k, outs), Upto(k - 1)),
             FlattenSeq([n \in 1..(k - 1) |-> Fond(r, n, o)])), k))

\* Common::add_output refreshes at once, State::apply_config leaves it to
\* the event loop.
AddOutput(o) ==
  /\ o \notin Connected
  /\ \E r \in {AddedOutput(World, o, persisted)} :
       \/ \E settled \in SUBSET (Connected \cup {o}) :
            Become(Refreshed(r, mode, settled))
       \/ Become(r)
  /\ persisted' = <<>>
  /\ UNCHANGED <<mode, occupied, awaited, saved, swiping, panicked>>

\* Mutant: only workspaces with windows are taken over.
TakeOver_Windows(r, s, i) ==
  LET h == s.spaces[i]
  IN IF IsEmpty(h) THEN Destroy(r, {h})
     ELSE [Enter(r, 1, h) EXCEPT !.sets[1].spaces = Append(@, h)]

\* Workspaces::remove_output, one workspace of the set "s" that goes away: it
\* is removed, or appended to the first remaining set, which shows it if it
\* was shown and the set shows an empty workspace.
TakeOver(r, s, i) ==
  LET h == s.spaces[i]
      t == r.sets[1]
      shown == t.spaces[t.active]
      enter(q) == [Enter(q, 1, h) EXCEPT !.sets[1].spaces = Append(@, h)]
  IN IF CanAutoRemove(r, h) THEN Destroy(r, {h})
     ELSE IF i = s.active /\ IsEmpty(shown)
     THEN Show([Hide(enter(r), shown)
                  EXCEPT !.sets[1].active = Len(t.spaces) + 1], h)
     ELSE enter(r)

RemovedOutput(r, m, o) ==
  LET s == r.sets[KeyOf(r, o)]
      without == [r EXCEPT !.sets = RemoveAt(@, KeyOf(r, o))]
      ungroup(q) == IF m = "OutputBound" THEN RemoveWorkspaceGroup(q, s.group)
                    ELSE [q EXCEPT !.groups[q.sets[1].group].outputs = @ \ {o}]
  IN IF without.sets = <<>>
     THEN [without EXCEPT !.backup = s, !.groups[s.group].outputs = @ \ {o}]
     ELSE ungroup(FoldLeft(LAMBDA q, i : TakeOver(q, s, i), without,
                           Upto(Len(s.spaces))))

RemoveOutput(o) ==
  /\ o \in Connected
  /\ \E settled \in SUBSET (Connected \ {o}) :
       Become(Refreshed(RemovedOutput(World, mode, o), mode, settled))
  /\ UNCHANGED <<mode, persisted, occupied, awaited, saved, swiping, panicked>>

-----------------------------------------------------------------------------
(* The user switches workspaces.                                           *)

\* The sets a request on output o reaches, given those it can be carried out
\* in: Global mode stops at the first other one, after it changed the sets
\* before it.
Addressed(r, m, o, able) ==
  IF m = "OutputBound"
  THEN IF KeyOf(r, o) \in able THEN <<KeyOf(r, o)>> ELSE <<>>
  ELSE SelectSeq(Upto(Len(r.sets)), LAMBDA k : 1..k \subseteq able)

\* Shell::activate
Activated(r, m, o, i, delta, still) ==
  FoldLeft(LAMBDA q, k : ActivateIn(q, k, i, delta, still), r,
           Addressed(r, m, o, {k \in DOMAIN r.sets : HasIndex(r, k, i)}))

\* Workspace shortcuts, clients' Activate requests, SwitchOutput
Activate(o, i) ==
  /\ o \in Connected
  /\ \E still \in Overviews :
       Become(Activated(World, mode, o, i, "Shortcut", still))
  /\ UNCHANGED <<mode, persisted, occupied, awaited, saved, swiping, panicked>>

DeltaUpdated(r, m, o) ==
  FoldLeft(UpdateDeltaIn, r, Addressed(r, m, o, DOMAIN r.sets))

\* to_next_workspace and to_previous_workspace: past an end the other end,
\* with wraparound, or nothing to activate
Neighbours(s) ==
  LET len == Len(s.spaces)
  IN (IF s.active < len THEN {s.active + 1} ELSE {1, s.active})
     \cup (IF s.active > 1 THEN {s.active - 1} ELSE {len, s.active})

\* The first update of a four-finger swipe decides its direction; it also
\* turns an animation that is still running into a gesture.
SwipeBegin(o) ==
  /\ ~swiping /\ o \in Connected
  /\ \E still \in {v \in Overviews : o \notin v} :
       LET r == DeltaUpdated(World, mode, o)
           s == sets[KeyOf(r, o)]
       IN \E i \in Neighbours(s) :
            Become(IF i = s.active THEN r
                   ELSE Activated(r, mode, o, i, "Gesture", still))
  /\ swiping' = TRUE
  /\ UNCHANGED <<mode, persisted, occupied, awaited, saved, panicked>>

SwipeUpdate(o) ==
  /\ swiping /\ o \in Connected
  /\ Become(DeltaUpdated(World, mode, o))
  /\ UNCHANGED <<mode, persisted, occupied, awaited, saved, swiping, panicked>>

\* end_workspace_swipe: on to the active workspace, or back to the previous
EndSwipeIn(r, k, commit, still) ==
  LET s == r.sets[k]
  IN IF s.prev = NoPrev \/ s.prev.delta # "Gesture" THEN r
     ELSE ActivateIn(r, k, IF commit THEN s.active ELSE s.prev.idx,
                     "GestureEnd", still)

CanEndSwipe(r, k, commit) ==
  LET prev == r.sets[k].prev
  IN prev # NoPrev /\ prev.delta = "Gesture" /\ ~commit
     => HasIndex(r, k, prev.idx)

SwipeEnd(o, commit) ==
  /\ swiping /\ o \in Connected
  /\ \E still \in Overviews :
       Become(FoldLeft(LAMBDA q, k : EndSwipeIn(q, k, commit, still), World,
                Addressed(World, mode, o,
                          {k \in DOMAIN sets : CanEndSwipe(World, k, commit)})))
  /\ swiping' = FALSE
  /\ UNCHANGED <<mode, persisted, occupied, awaited, saved, panicked>>

-----------------------------------------------------------------------------
(* The user reorders, moves and pins workspaces.                           *)

\* Workspaces::persist: the pinned workspaces and their explicit output
PinnedOf(r) ==
  {[id |-> h, output |-> Head(r.space[h].stack)] :
     h \in UNION {Range(r.sets[k].spaces) : k \in DOMAIN r.sets} \cap r.pinned}

\* migrate_workspace
Migrated(r, h, from, to) ==
  LET f == KeyOf(r, from)
      t == KeyOf(r, to)
      r1 == RemoveSpaces(r, f, {h})
  IN [MoveTo(Hide(r1, h), h, r1.sets[t].group, to, TRUE)
        EXCEPT !.sets[t].spaces = InsertAt(@, r1.sets[t].active + 1, h)]

\* Action::MigrateWorkspaceToOutput moves the active workspace, activates it,
\* persists, and switches to the output, which activates it again.
Migrate(from, to) ==
  /\ mode = "OutputBound"
  /\ {from, to} \subseteq Connected /\ from # to
  /\ LET k == KeyOf(World, from)
         h == sets[k].spaces[sets[k].active]
         r1 == Migrated(World, h, from, to)
         t == KeyOf(r1, to)
         i == PositionOf(r1.sets[t].spaces, h)
     IN \E still \in Overviews :
          LET r2 == ActivateIn(r1, t, i, "Shortcut", still)
          IN /\ Become(ActivateIn(r2, t, i, "Shortcut", still))
             /\ saved' = PinnedOf(r2)
  /\ UNCHANGED <<mode, persisted, occupied, awaited, swiping, panicked>>

Placed(spaces, h, pos) == InsertAt(Remove(spaces, h), pos, h)

\* Mutant: the active index is not looked up again.
IndexAfterMove_Kept(spaces, was, active) == active

\* Where the workspace that was active is now
IndexAfterMove(spaces, was, active) == PositionOf(spaces, was)

\* move_workspace in OutputBound mode
MovedBound(r, h, other, after) ==
  LET f == SetWith(r, h)
      t == SetWith(r, other)
      was == r.sets[t].spaces[r.sets[t].active]
      r1 == IF f = t
            THEN [r EXCEPT !.sets[f].spaces = Remove(@, h)]
            ELSE MoveTo(Hide(RemoveSpaces(r, f, {h}), h), h,
                        r.sets[t].group, r.sets[t].output, TRUE)
      at == PositionOf(r1.sets[t].spaces, other) + IF after THEN 1 ELSE 0
      spaces == InsertAt(r1.sets[t].spaces, at, h)
  IN [r1 EXCEPT !.sets[t].spaces = spaces,
                !.sets[t].active = IndexAfterMove(spaces, was, @)]

\* move_workspace in Global mode rotates the same slice of every set that
\* has both indices; p and q are the positions of the two workspaces.
RotateTo(p, q, after) ==
  IF q > p THEN IF after THEN q ELSE q - 1 ELSE IF after THEN q + 1 ELSE q

RotatedIn(s, p, q, after) ==
  LET spaces == Placed(s.spaces, s.spaces[p], RotateTo(p, q, after))
  IN IF p <= Len(s.spaces) /\ q <= Len(s.spaces)
     THEN [s EXCEPT !.spaces = spaces,
                    !.active = PositionOf(spaces, s.spaces[s.active])]
     ELSE s

\* An empty slice cannot be rotated by one: rotate_right panics.
RotatePanics(p, q, after) == q <= p /\ RotateTo(p, q, after) > p

MoveWorkspace(h, other, after) ==
  /\ Reorder /\ sets # <<>>
  /\ {h, other} \subseteq Listed(World) /\ h # other
  /\ LET f == SetWith(World, h)
         t == SetWith(World, other)
         p == PositionOf(sets[f].spaces, h)
         q == PositionOf(sets[t].spaces, other)
     IN \/ /\ mode = "OutputBound"
           /\ Become(MovedBound(World, h, other, after))
           /\ UNCHANGED panicked
        \/ /\ mode = "Global" /\ ~RotatePanics(p, q, after)
           /\ LET rotate(r, k) ==
                    [r EXCEPT !.sets[k] = RotatedIn(@, p, q, after)]
              IN Become(FoldLeft(rotate, World, Upto(Len(sets))))
           /\ UNCHANGED panicked
        \/ /\ mode = "Global" /\ RotatePanics(p, q, after)
           /\ panicked' = TRUE
           /\ UNCHANGED <<sets, backup, groups, space, pinned>>
  /\ UNCHANGED <<mode, persisted, occupied, awaited, saved, swiping>>

\* Mutant: unpinning is not saved.
SetPin_Unsaved(h, pin) ==
  /\ sets # <<>> /\ h \in Listed(World)
  /\ LET r == [World EXCEPT !.pinned = IF pin THEN @ \cup {h} ELSE @ \ {h}]
     IN Become(r) /\ saved' = IF pin THEN PinnedOf(r) ELSE saved
  /\ UNCHANGED <<mode, persisted, occupied, awaited, swiping, panicked>>

\* Request::SetPin
SetPin(h, pin) ==
  /\ sets # <<>> /\ h \in Listed(World)
  /\ LET r == [World EXCEPT !.pinned = IF pin THEN @ \cup {h} ELSE @ \ {h}]
     IN Become(r) /\ saved' = PinnedOf(r)
  /\ UNCHANGED <<mode, persisted, occupied, awaited, swiping, panicked>>

\* update_config from OutputBound to Global lines the sets up at the largest
\* active index, with new workspaces in front and behind.
LinedUp(r) ==
  LET longest == Max({Len(r.sets[k].spaces) : k \in DOMAIN r.sets})
      offset == Max({r.sets[k].active : k \in DOMAIN r.sets})
      missing(k) == {j \in 1..longest :
                       j + r.sets[k].active - offset
                         \notin 1..Len(r.sets[k].spaces)}
      fill(q, k) == FoldLeft(LAMBDA p, j : InsertSpace(p, k, j,
                                             <<p.sets[k].output>>), q,
                             SelectSeq(Upto(longest),
                                       LAMBDA j : j \in missing(k)))
  IN FoldLeft(fill, r, Upto(Len(r.sets)))

\* Workspaces::update_config
UpdateConfig(m) ==
  /\ m \in Modes /\ m # mode
  /\ mode' = m
  /\ IF Len(sets) <= 1 THEN Become(World)
     ELSE \E settled \in SUBSET Connected :
            Become(Refreshed(IF m = "Global" THEN LinedUp(World) ELSE World,
                             m, settled))
  /\ UNCHANGED <<persisted, occupied, awaited, saved, swiping, panicked>>

-----------------------------------------------------------------------------
(* Windows and activation tokens.                                          *)

WindowOpens(h) ==
  /\ h \in Listed(World) \ occupied
  /\ occupied' = occupied \cup {h}
  /\ Cardinality(occupied' \cup awaited \cup pinned) <= MaxContent
  /\ UNCHANGED <<sets, backup, mode, persisted, groups, space, awaited,
                 pinned, saved, swiping, panicked>>

LastWindowCloses(h) ==
  /\ h \in occupied
  /\ occupied' = occupied \ {h}
  /\ UNCHANGED <<sets, backup, mode, persisted, groups, space, awaited,
                 pinned, saved, swiping, panicked>>

\* token_created, for the active workspace of the seat's output (the backup
\* set's without outputs: Workspaces::active_mut)
TokenCreated(s) ==
  /\ s \in AllSets(World)
  /\ awaited' = awaited \cup {s.spaces[s.active]}
  /\ Cardinality(awaited') <= MaxTokens
  /\ Cardinality(occupied \cup awaited' \cup pinned) <= MaxContent
  /\ UNCHANGED <<sets, backup, mode, persisted, groups, space, occupied,
                 pinned, saved, swiping, panicked>>

\* The token is used, or ACTIVATION_TOKEN_EXPIRE_TIME is over
TokenGone(h) ==
  /\ h \in awaited
  /\ awaited' = awaited \ {h}
  /\ UNCHANGED <<sets, backup, mode, persisted, groups, space, occupied,
                 pinned, saved, swiping, panicked>>

-----------------------------------------------------------------------------
Init ==
  /\ sets = <<>> /\ backup = NoSet
  /\ mode \in Modes
  /\ persisted \in Pins
  /\ groups = <<>> /\ space = <<>>
  /\ occupied = {} /\ awaited = {} /\ pinned = {}
  /\ saved = {[id |-> i, output |-> persisted[i]] : i \in DOMAIN persisted}
  /\ swiping = FALSE /\ panicked = FALSE
  /\ step = "Init"

Switching ==
  \E o \in Outputs :
    \/ \E i \in 1..MaxLen : Activate(o, i)
    \/ SwipeBegin(o) \/ SwipeUpdate(o)
    \/ \E commit \in BOOLEAN : SwipeEnd(o, commit)

Plugging == \E o \in Outputs : AddOutput(o) \/ RemoveOutput(o)

Others ==
  \/ \E s \in AllSets(World) : TokenCreated(s)
  \/ \E h \in Listed(World) :
       \/ WindowOpens(h) \/ LastWindowCloses(h) \/ TokenGone(h)
       \/ \E b \in BOOLEAN : SetPin(h, b)
  \/ \E m \in Modes : UpdateConfig(m)

Moving ==
  \E h, other \in Listed(World), after \in BOOLEAN :
    MoveWorkspace(h, other, after)

Next ==
  /\ ~panicked
  /\ \/ Refresh /\ step' = "Refresh"
     \/ Switching /\ step' = "Switching"
     \/ Plugging /\ step' = "Plugging"
     \/ (\E o, p \in Outputs : Migrate(o, p)) /\ step' = "Migrate"
     \/ Moving /\ step' = "Moving"
     \/ Others /\ step' = "Others"

Spec == Init /\ [][Next]_vars

-----------------------------------------------------------------------------
(* Properties.                                                             *)

SetType ==
  [output : Outputs, group : Nat, active : Nat \ {0},
   prev : {NoPrev} \cup [idx : Nat, from : Nat,
                        delta : {"Shortcut", "Gesture", "GestureEnd"}],
   spaces : Seq(Nat)]

\* Types; the active index of every set, also of the backup, is in range,
\* for set.workspaces[set.active] is indexed everywhere.
TypeOK ==
  /\ sets \in Seq(SetType) /\ backup \in SetType \cup {NoSet}
  /\ backup # NoSet => sets = <<>>
  /\ \A s \in AllSets(World) : s.active <= Len(s.spaces)
  /\ mode \in Modes /\ persisted \in Seq(Outputs)
  /\ \A g \in Live(groups) : groups[g].outputs \subseteq Outputs
  /\ \A h \in Live(space) :
       space[h] \in [group : Nat, stack : Seq(Outputs) \ {<<>>},
                    shown : BOOLEAN]
  /\ \A f \in {occupied, awaited, pinned} : f \subseteq Nat
  /\ \A p \in saved : p.output \in Outputs
  /\ swiping \in BOOLEAN /\ panicked \in BOOLEAN

\* Whatever is plugged, unplugged, moved and reaped, every workspace is in
\* exactly one set, once, and has its protocol object; no protocol object
\* outlives its workspace.
OneHome ==
  /\ Listed(World) = Live(space)
  /\ \A s, t \in AllSets(World) :
       \A i \in DOMAIN s.spaces, j \in DOMAIN t.spaces :
         s.spaces[i] = t.spaces[j] => s = t /\ i = j

\* A workspace with windows, one an activation token is going to open a
\* window on, and a pinned one are never reaped, neither by a refresh nor
\* when their output is unplugged.
ContentIsKept == occupied \cup awaited \cup pinned \subseteq Listed(World)

\* No operation on outputs and workspaces (add_output, remove_output, refresh,
\* move, migrate) loses a workspace that counts or leaves one in two places.
NoneIsLost == TypeOK /\ OneHome /\ ContentIsKept

\* Clients see exactly the active workspaces as active.
ActiveIsShown ==
  {h \in Live(space) : space[h].shown}
    = {s.spaces[s.active] : s \in AllSets(World)}

\* Clients see every workspace in the group of its set, and every group on
\* the output of its set.
GroupsAgree ==
  /\ Live(groups) = {s.group : s \in AllSets(World)}
  /\ \A k \in DOMAIN sets : groups[sets[k].group].outputs = {sets[k].output}
  /\ \A s \in AllSets(World) : \A h \in Range(s.spaces) :
       space[h].group = s.group

\* The ext-workspace protocol state is kept next to the sets by hand, in some
\* twenty places: objects, groups and Active flags follow the sets.
ProtocolAgrees == ActiveIsShown /\ GroupsAgree

\* While the output a workspace was created on, or last moved to by the
\* user, is connected, the workspace is on it: unplugging a monitor and
\* plugging it in again, in any order with others, brings it back.
HomeIsKept ==
  \A k \in DOMAIN sets : \A h \in Range(sets[k].spaces) :
    Head(space[h].stack) \in Connected
      => Head(space[h].stack) = sets[k].output

\* The pinned workspaces saved for the next session are those pinned now, on
\* the outputs the user put them on (the comment of Workspaces::persist: any
\* mutation must call persist afterwards).
SavedIsCurrent ==
  persisted = <<>> =>
    saved = {[id |-> h, output |-> Head(space[h].stack)] : h \in pinned}

\* previously_active "holds the index of the workspace the user is animating
\* AWAY FROM" (ensure_last_empty).
PreviousIsTheOneLeft ==
  \A k \in DOMAIN sets :
    LET s == sets[k]
    IN s.prev # NoPrev =>
         s.prev.idx \in DOMAIN s.spaces /\ s.spaces[s.prev.idx] = s.prev.from

ActiveOf(s) == s.spaces[s.active]

\* What an output shows changes when the user switches or moves a workspace
\* there, or when the workspace it showed goes to another output, or was
\* empty while another output's visible workspace arrived. No reordering,
\* hotplug or clean-up elsewhere changes it.
ShownWorkspaceStays ==
  [][\A k \in DOMAIN sets, n \in DOMAIN sets' :
       LET h == ActiveOf(sets[k])
       IN sets[k].output = sets'[n].output /\ h # ActiveOf(sets'[n])
          => \/ step' \in {"Switching", "Migrate"}
             \/ ~Contains(sets'[n].spaces, h)
             \/ step' = "Plugging" /\ h \notin occupied]_vars

\* Refreshing never changes the position, the number the user sees, of a
\* workspace at or before the active one (the comment of ensure_last_empty).
LabelsAreStable ==
  [][step' = "Refresh"
     => \A k \in DOMAIN sets : \A i \in 1..sets[k].active :
          /\ i \in DOMAIN sets'[k].spaces
          /\ sets'[k].spaces[i] = sets[k].spaces[i]]_vars

\* In Global mode the workspaces with the same number on different outputs
\* form one workspace that spans them: once the sets are lined up, neither
\* reordering, switching nor cleaning up pulls them apart.
ColumnsStay ==
  [][\A k, n \in DOMAIN sets :
       /\ {mode, mode'} = {"Global"} /\ step' # "Plugging"
       /\ \A s, t \in AllSets(World) : Len(s.spaces) = Len(t.spaces)
       => \A i \in DOMAIN sets[k].spaces :
            LET h == sets[k].spaces[i]
                g == sets[n].spaces[i]
            IN Contains(sets'[k].spaces, h) /\ Contains(sets'[n].spaces, g)
               => PositionOf(sets'[k].spaces, h)
                    = PositionOf(sets'[n].spaces, g)]_vars

=============================================================================
