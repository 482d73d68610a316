----------------------------- MODULE TilingTree -----------------------------
(* The tree of a tiling layout (src/shell/layout/tiling/mod.rs): groups that *)
(* split their area among two or more children, leaves that hold a window or *)
(* a stack of windows, and placeholders while a tile is dragged.  Windows    *)
(* are mapped, closed, minimized and restored, moved and swapped from the    *)
(* keyboard, stacked, and dragged with the pointer.                          *)
(*                                                                           *)
(* A group's sizes are abstracted to their number, which the code keeps      *)
(* apart from the children; geometry is abstracted to a free choice wherever *)
(* the code compares lengths.  Nodes are numbered in the order of the screen *)
(* after every step; a number that is remembered follows its node, and is    *)
(* NoNode once the node is gone.  The model stops where the code would panic *)
(* or lay out a group whose sizes and children differ.                       *)
EXTENDS Integers, FiniteSets, SequencesExt

CONSTANTS
    Windows,    \* the windows of the workspace
    Scopes      \* bounds: how many `windows` there are at a time, how many of
                \* them are `minimized`, whether there are `stacks`, and how
                \* many `placeholders` are in the tree (0: nothing is dragged)

VARIABLES
    scope,      \* the bounds of this behaviour, one of Scopes
    tree,       \* the latest tree of the queue
    saved,      \* minimized elements and their RestoreTilingState
    grabbed,    \* the windows of the tile that is dragged
    zone,       \* last_overview_hover: where it would be dropped
    trouble     \* what stopped the program, or "none"

vars == <<scope, tree, saved, grabbed, zone, trouble>>

NoNode == 0
Directions == {"Left", "Right", "Up", "Down"}
Orientations == {"Horizontal", "Vertical"}
Before(d) == d \in {"Left", "Up"}
OrientationOf(d) ==
    IF d \in {"Left", "Right"} THEN "Vertical" ELSE "Horizontal"
Turned(o) == IF o = "Vertical" THEN "Horizontal" ELSE "Vertical"
Other(x, a, b) == IF x = a THEN b ELSE IF x = b THEN a ELSE x
NoZone == [kind |-> "None", node |-> NoNode, dir |-> "Left", idx |-> 0]
Zone(k, n, d, i) == [kind |-> k, node |-> n, dir |-> d, idx |-> i]

Window(w) == [kind |-> "window", wins |-> <<w>>]
GrabbedWindow == [kind |-> "grabbed", wins |-> <<>>]
DropZone == [kind |-> "dropzone", wins |-> <<>>]
EmptyTree ==
    [root |-> NoNode, kids |-> <<>>, ori |-> <<>>, len |-> <<>>, leaf |-> <<>>]

Init ==
    /\ scope \in Scopes
    /\ tree = EmptyTree /\ saved = {} /\ grabbed = <<>> /\ zone = NoZone
    /\ trouble = "none"
-----------------------------------------------------------------------------
(* Trees.                                                                    *)
Groups(T) == DOMAIN T.kids
Leaves(T) == DOMAIN T.leaf
In(T) == Groups(T) \cup Leaves(T)
IsMapped(T, n) == n \in Leaves(T) /\ T.leaf[n].kind \in {"window", "stack"}
IsPlaceholder(T, n) == n \in Leaves(T) /\ ~IsMapped(T, n)
HasDropZone(T, g) ==
    \E n \in Range(T.kids[g]) : n \in Leaves(T) /\ T.leaf[n].kind = "dropzone"

Parents(T, n) == {g \in Groups(T) : n \in Range(T.kids[g])}
Parent(T, n) ==
    IF Parents(T, n) = {} THEN NoNode ELSE CHOOSE g \in Parents(T, n) : TRUE
Position(s, x) == CHOOSE i \in DOMAIN s : s[i] = x

\* The nodes under n, n first, in the order of the screen.
PreOrder(T, n) ==
    LET under[m \in In(T)] ==
            LET kids == IF m \in Leaves(T) THEN <<>> ELSE T.kids[m]
                upto[i \in 0..Len(kids)] ==
                    IF i = 0 THEN <<m>> ELSE upto[i - 1] \o under[kids[i]]
            IN  upto[Len(kids)]
    IN  IF n = NoNode THEN <<>> ELSE under[n]

\* The windows under n.
WindowsUnder(T, n) ==
    LET leaves == SelectSeq(PreOrder(T, n), LAMBDA m : m \in Leaves(T))
        upto[i \in 0..Len(leaves)] ==
            IF i = 0 THEN <<>> ELSE upto[i - 1] \o T.leaf[leaves[i]].wins
    IN  upto[Len(leaves)]

\* `k` numbers for new nodes of T.
NewNodes(T, k) == [i \in 1..k |-> Cardinality(In(T)) + i]

Without(f, S) == [x \in DOMAIN f \ S |-> f[x]]
With(f, x, v) == [y \in DOMAIN f \cup {x} |-> IF y = x THEN v ELSE f[y]]
\* a and b change places in T.
Exchange(T, a, b) ==
    [T EXCEPT !.root = Other(@, a, b),
              !.kids = [g \in DOMAIN @ |->
                  [i \in DOMAIN @[g] |-> Other(@[g][i], a, b)]]]
Detach(T, n) ==
    [T EXCEPT !.kids = [g \in DOMAIN @ |-> SelectSeq(@[g], LAMBDA m : m # n)]]
Sized(T, g, d) == [T EXCEPT !.len[g] = @ + d]
AddLeaf(T, n, content) == [T EXCEPT !.leaf = With(@, n, content)]
DropNodes(T, S) ==
    [T EXCEPT !.kids = Without(@, S), !.ori = Without(@, S),
              !.len = Without(@, S), !.leaf = Without(@, S)]

\* A new group `g` in the place of `old`, of `old` and `new`; `new` is its
\* child number `idx`.
NewGroup(T, old, new, o, idx, g) ==
    LET U == Exchange(Detach(T, new), old, g)
    IN  [U EXCEPT !.kids = With(@, g, IF idx = 1 THEN <<new, old>>
                                                 ELSE <<old, new>>),
                  !.ori = With(@, g, o), !.len = With(@, g, 2)]

\* Node n as child number i of group g.
Insert(T, n, g, i) == [Detach(T, n) EXCEPT !.kids[g] = InsertAt(@, i, n)]

\* update_positions: a group with a single size gives its place to its child.
Flatten(T) ==
    LET Lift(g, U) == DropNodes(Exchange(U, g, U.kids[g][1]), {g})
    IN  FoldSet(Lift, T, {g \in Groups(T) : T.len[g] = 1})

\* unmap_internal: remove n and what is under it.
Unmap(T, n) ==
    LET p == Parent(T, n)
        U == DropNodes(Detach(T, n), Range(PreOrder(T, n)))
    IN  IF p = NoNode THEN [U EXCEPT !.root = NoNode]
        ELSE IF T.len[p] > 2 THEN Sized(U, p, -1)
        ELSE DropNodes(Exchange(U, p, U.kids[p][1]), {p})

\* map_to_tree: a new leaf `ids[1]`, beside `target` in a new group `ids[2]`,
\* or as the root of an empty tree.
MapToTree(T, content, target, o, idx, ids) ==
    LET U == AddLeaf(T, ids[1], content)
    IN  IF target = NoNode THEN [U EXCEPT !.root = ids[1]]
        ELSE NewGroup(U, target, ids[1], o, idx, ids[2])

\* Take every placeholder of T out of it.
Cleaned(T) ==
    FoldSeq(LAMBDA n, U : IF IsPlaceholder(T, n) THEN Unmap(U, n) ELSE U,
            T, PreOrder(T, T.root))
-----------------------------------------------------------------------------
(* Mapping, unmapping, minimizing.                                           *)
Here ==
    Range(WindowsUnder(tree, tree.root)) \cup Range(grabbed)
        \cup UNION {Range(s.content.wins) : s \in saved}
Elsewhere(w) == w \notin Here /\ Cardinality(Here) < scope.windows

Going == trouble = "none"

\* The nodes of T in their new order; any that hang outside it come last.
NewOrder(T) ==
    LET inside == PreOrder(T, T.root)
        outside == In(T) \ Range(inside)
        rest[i \in 1..Cardinality(outside)] ==
            Min(outside \ {rest[j] : j \in 1..(i - 1)})
    IN  inside \o [i \in 1..Cardinality(outside) |-> rest[i]]

\* update_positions and push_tree: T, laid out, is the tree; `S` is minimized
\* and `z` hovered.
Push(T, S, z) ==
    LET U == Flatten(T)
        order == NewOrder(U)
        Name(n) == IF n \in In(U) THEN Position(order, n) ELSE NoNode
        Of(nodes) == {i \in DOMAIN order : order[i] \in nodes}
        groups == Of(Groups(U))
    IN  /\ tree' =
              [root |-> Name(U.root),
               kids |-> [i \in groups |-> [j \in DOMAIN U.kids[order[i]] |->
                                              Name(U.kids[order[i]][j])]],
               ori |-> [i \in groups |-> U.ori[order[i]]],
               len |-> [i \in groups |-> U.len[order[i]]],
               leaf |-> [i \in Of(Leaves(U)) |-> U.leaf[order[i]]]]
        /\ saved' = {[t EXCEPT !.node = Name(@)] : t \in S}
        /\ zone' = [z EXCEPT !.node = Name(@)]
        /\ UNCHANGED trouble
PushTree(T) == Push(T, saved, zone) /\ UNCHANGED grabbed

\* A window is mapped beside the last focused one, or at an edge of the
\* workspace it was moved onto.
Map(w) ==
    LET ids == NewNodes(tree, 2)
        beside == {n \in In(tree) : IsMapped(tree, n)} \cup {tree.root}
    IN  /\ Going /\ Elsewhere(w)
        /\ \/ \E n \in beside, o \in Orientations :
                 PushTree(MapToTree(tree, Window(w), n, o, 2, ids))
           \/ \E d \in Directions :
                 PushTree(MapToTree(tree, Window(w), tree.root,
                                    OrientationOf(d),
                                    IF Before(d) THEN 2 ELSE 1, ids))

\* An element is closed.
Close(n) ==
    /\ Going /\ IsMapped(tree, n)
    /\ PushTree(Unmap(tree, n))

\* Mutant: the place of the element among the children is not remembered.
RestoreState_Last(T, n) ==
    LET p == Parent(T, n)
    IN  IF p = NoNode THEN
            [content |-> T.leaf[n], kind |-> "none", node |-> NoNode,
             ori |-> "Vertical", idx |-> 1, len |-> 0]
        ELSE
            [content |-> T.leaf[n],
             kind |-> IF T.len[p] = 2 THEN "sibling" ELSE "parent",
             node |-> IF T.len[p] = 2
                      THEN CHOOSE m \in Range(T.kids[p]) : m # n ELSE p,
             ori |-> T.ori[p], idx |-> T.len[p], len |-> T.len[p]]

\* Where to put element n of T back: into its group, which stays, or beside
\* its sibling, for which its group goes.
RestoreState(T, n) ==
    LET p == Parent(T, n)
    IN  IF p = NoNode THEN
            [content |-> T.leaf[n], kind |-> "none", node |-> NoNode,
             ori |-> "Vertical", idx |-> 1, len |-> 0]
        ELSE
            [content |-> T.leaf[n],
             kind |-> IF T.len[p] = 2 THEN "sibling" ELSE "parent",
             node |-> IF T.len[p] = 2
                      THEN CHOOSE m \in Range(T.kids[p]) : m # n ELSE p,
             ori |-> T.ori[p], idx |-> Position(T.kids[p], n),
             len |-> T.len[p]]

Minimize(n) ==
    /\ Going /\ IsMapped(tree, n) /\ Cardinality(saved) < scope.minimized
    /\ Push(Unmap(tree, n), saved \cup {RestoreState(tree, n)}, zone)
    /\ UNCHANGED grabbed

BackInGroup(T, s) == s.kind = "parent" /\ s.node \in Groups(T)
BackBeside(T, s) == s.kind = "sibling" /\ s.node \in In(T)
\* remap: the sizes remembered replace those the group has now.
Remapped(T, s, ids) ==
    LET U == AddLeaf(T, ids[1], s.content)
    IN  IF BackInGroup(T, s)
        THEN [Insert(U, ids[1], s.node, s.idx) EXCEPT !.len[s.node] = s.len]
        ELSE NewGroup(U, s.node, ids[1], s.ori, s.idx, ids[2])

Restore(s) ==
    LET ids == NewNodes(tree, 2)
        rest == saved \ {s}
        beside == {n \in In(tree) : IsMapped(tree, n)} \cup {tree.root}
    IN  /\ Going /\ s \in saved
        /\ \/ /\ BackInGroup(tree, s)
              /\ s.len = Len(tree.kids[s.node]) + 1
              /\ Push(Remapped(tree, s, ids), rest, zone)
           \/ /\ BackInGroup(tree, s)
              /\ s.len # Len(tree.kids[s.node]) + 1
              /\ trouble' = "misfit" /\ UNCHANGED <<tree, saved, zone>>
           \/ BackBeside(tree, s) /\ Push(Remapped(tree, s, ids), rest, zone)
           \/ /\ ~BackInGroup(tree, s) /\ ~BackBeside(tree, s)
              /\ \E n \in beside, o \in Orientations :
                    Push(MapToTree(tree, s.content, n, o, 2, ids), rest, zone)
        /\ UNCHANGED grabbed
-----------------------------------------------------------------------------
(* The keyboard.                                                             *)

\* Move n one step in direction d: past the end of its group p, beside p or
\* around it; else into, or around, its neighbour.
Across(T, n, p, d) == T.ori[p] # OrientationOf(d)
Around(T, n, p, d, g) ==
    NewGroup(T, p, n, OrientationOf(d), IF Before(d) THEN 1 ELSE 2, g)

IntoStack(T, n, to, d) ==
    [DropNodes(Detach(T, n), {n}) EXCEPT !.leaf[to].wins =
        IF d = "Right" THEN InsertAt(@, 1, Head(T.leaf[n].wins))
                       ELSE Append(@, Head(T.leaf[n].wins))]

IntoGroup(T, n, to, d, g) ==
    LET kids == T.kids[to]
        half == T.len[to] \div 2
    IN  IF ~Across(T, n, to, d)
        THEN Sized(Insert(T, n, to, IF Before(d) THEN Len(kids) + 1 ELSE 1),
                   to, 1)
        ELSE IF T.len[to] % 2 = 0 THEN Sized(Insert(T, n, to, half + 1), to, 1)
        ELSE NewGroup(T, kids[half + 1], n, OrientationOf(d),
                      IF Before(d) THEN 2 ELSE 1, g)

Towards(T, n, p, to, d, g) ==
    LET two == T.len[p] = 2
    IN  IF two /\ to \in Leaves(T) /\ T.leaf[to].kind = "stack"
               /\ n \in Leaves(T) /\ T.leaf[n].kind = "window"
        THEN Sized(IntoStack(T, n, to, d), p, -1)
        ELSE IF two /\ to \in Groups(T)
        THEN Sized(IntoGroup(T, n, to, d, g), p, -1)
        ELSE IF two
        THEN [T EXCEPT !.kids[p] = Reverse(@)]
        ELSE Sized(NewGroup(T, to, n, T.ori[p], IF Before(d) THEN 2 ELSE 1, g),
                   p, -1)

\* Mutant: the sizes of the group that is left stay as they are.
Outwards_SizesStay(T, n, p, d, g) ==
    LET q == Parent(T, p)
        i == Position(T.kids[q], p)
    IN  IF q = NoNode THEN T
        ELSE IF Across(T, n, q, d) THEN Around(T, n, q, d, g)
        ELSE Sized(Insert(T, n, q, IF Before(d) THEN i ELSE i + 1), q, 1)

Outwards(T, n, p, d, g) ==
    LET q == Parent(T, p)
        i == Position(T.kids[q], p)
    IN  IF q = NoNode THEN T
        ELSE IF Across(T, n, q, d) THEN Sized(Around(T, n, q, d, g), p, -1)
        ELSE Sized(Sized(Insert(T, n, q, IF Before(d) THEN i ELSE i + 1),
                         q, 1), p, -1)

Moved(T, n, p, d, g) ==
    LET i == Position(T.kids[p], n)
        next == IF Before(d) THEN i - 1 ELSE i + 1
    IN  IF Across(T, n, p, d) THEN Sized(Around(T, n, p, d, g), p, -1)
        ELSE IF next \in 1..T.len[p]
        THEN Towards(T, n, p, T.kids[p][next], d, g)
        ELSE Outwards(T, n, p, d, g)

MoveCurrentNode(n, d) ==
    LET ids == NewNodes(tree, 1)
        p == Parent(tree, n)
    IN  /\ Going /\ (IsMapped(tree, n) \/ n \in Groups(tree))
        /\ p # NoNode
        /\ PushTree(Moved(tree, n, p, d, ids[1]))

\* The window at the end of a stack, or any window of it, moves out of it.
MoveOutOfStack(n, d) ==
    LET ids == NewNodes(tree, 2)
        wins == tree.leaf[n].wins
    IN  /\ Going /\ IsMapped(tree, n) /\ Len(wins) > 1
        /\ \E i \in DOMAIN wins :
              /\ d = "Left" => i = 1
              /\ d = "Right" => i = Len(wins)
              /\ LET T == [tree EXCEPT !.leaf[n].wins = RemoveAt(@, i)]
                 IN  PushTree(MapToTree(T, Window(wins[i]), n,
                                        OrientationOf(d),
                                        IF Before(d) THEN 1 ELSE 2, ids))

UpdateOrientation(p) ==
    /\ Going /\ p \in Groups(tree)
    /\ PushTree([tree EXCEPT !.ori[p] = Turned(@)])

\* swap_trees in one tree: neither node is inside the other.
SwapNodes(a, b) ==
    /\ Going /\ {a, b} \subseteq In(tree)
    /\ a \notin Range(PreOrder(tree, b)) /\ b \notin Range(PreOrder(tree, a))
    /\ PushTree(Exchange(tree, a, b))

\* toggle_stacking: a window becomes a stack, or the windows of a stack are
\* mapped one beside the other.
Unstacked(T, n, o, ids) ==
    LET wins == T.leaf[n].wins
        Apart[i \in 1..Len(wins)] ==
            IF i = 1 THEN [T EXCEPT !.leaf[n] = Window(wins[1])]
            ELSE MapToTree(Apart[i - 1], Window(wins[i]),
                           IF i = 2 THEN n ELSE ids[2 * i - 5], o, 2,
                           <<ids[2 * i - 3], ids[2 * i - 2]>>)
    IN  Apart[Len(wins)]

ToggleStacking(n) ==
    /\ Going /\ scope.stacks /\ IsMapped(tree, n)
    /\ \/ /\ tree.leaf[n].kind = "window"
          /\ PushTree([tree EXCEPT !.leaf[n].kind = "stack"])
       \/ /\ tree.leaf[n].kind = "stack"
          /\ \E o \in Orientations :
                PushTree(Unstacked(tree, n, o,
                           NewNodes(tree, 2 * Len(tree.leaf[n].wins) - 2)))

\* toggle_stacking_focused on a group: its windows become one stack.
StackGroup(g) ==
    LET wins == WindowsUnder(tree, g)
    IN  /\ Going /\ scope.stacks /\ g \in Groups(tree) /\ wins # <<>>
        /\ PushTree(AddLeaf(DropNodes(tree, Range(PreOrder(tree, g))), g,
                            [kind |-> "stack", wins |-> wins]))
-----------------------------------------------------------------------------
(* Dragging a tile.                                                          *)

\* unmap_as_placeholder: the tile leaves a placeholder behind.
Grab(n) ==
    /\ Going /\ scope.placeholders > 0 /\ grabbed = <<>> /\ IsMapped(tree, n)
    /\ grabbed' = tree.leaf[n].wins
    /\ tree' = [tree EXCEPT !.leaf[n] = GrabbedWindow]
    /\ zone' = Zone("InitialPlaceholder", n, "Left", 0)
    /\ UNCHANGED <<saved, trouble>>

\* A group without a window of its own.
Bare(T, g) == \A n \in Range(T.kids[g]) : ~IsMapped(T, n)

\* What update_pointer_position may find under the pointer.
Targets(T) ==
    LET shut == {g \in Groups(T) : HasDropZone(T, g)}
        under == UNION {Range(Tail(PreOrder(T, g))) : g \in shut}
        open == In(T) \ under
        tiles == {n \in open : IsMapped(T, n)}
                    \cup {SelectSeq(T.kids[g], LAMBDA m : IsMapped(T, m))[1] :
                             g \in {h \in shut \cap open : ~Bare(T, h)}}
        groups == (Groups(T) \cap open) \ shut
    IN  {Zone("InitialPlaceholder", n, "Left", 0) :
            n \in {m \in open : IsPlaceholder(T, m)}}
        \cup {Zone("WindowStack", n, "Left", 0) : n \in tiles}
        \cup {Zone("WindowSplit", n, d, 0) : n \in tiles, d \in Directions}
        \cup {Zone("GroupEdge", g, d, 0) : g \in groups, d \in Directions}
        \cup UNION {{Zone("GroupInterior", g, "Left", i) :
                        i \in 0..(Len(T.kids[g]) - 1)} : g \in groups}

Unreadable(T) == \E g \in Groups(T) : HasDropZone(T, g) /\ Bare(T, g)

\* The zone was about a group that is a stack by now.
ZoneGone(T) ==
    zone.kind \in {"GroupEdge", "GroupInterior"} /\ zone.node \in Leaves(T)

\* Take the placeholder of the last zone out of the tree.
ZoneLeft(T) ==
    LET p == Parent(T, zone.node)
        drops == IF p = NoNode THEN {}
                 ELSE {n \in Range(T.kids[p]) :
                         n \in Leaves(T) /\ T.leaf[n].kind = "dropzone"}
    IN  IF zone.kind = "InitialPlaceholder" /\ zone.node \in In(T)
        THEN Unmap(T, zone.node)
        ELSE IF zone.kind = "WindowSplit" /\ zone.node \in In(T) /\ drops # {}
        THEN Unmap(T, CHOOSE n \in drops : TRUE)
        ELSE T

ZoneEntered(T, z, ids) ==
    IF z.kind # "WindowSplit" THEN T
    ELSE NewGroup(AddLeaf(T, ids[1], DropZone), z.node, ids[1],
                  OrientationOf(z.dir), IF Before(z.dir) THEN 1 ELSE 2, ids[2])

HoverEmpty ==
    LET ids == NewNodes(tree, 1)
    IN  /\ Going /\ grabbed # <<>> /\ tree.root = NoNode
        /\ PushTree([AddLeaf(tree, ids[1], DropZone) EXCEPT !.root = ids[1]])

HoverFirst ==
    LET own == {n \in Leaves(tree) : tree.leaf[n].kind = "grabbed"}
    IN  /\ Going /\ grabbed # <<>> /\ zone = NoZone /\ tree.root # NoNode
        /\ zone' = IF own = {} THEN Zone("Initial", NoNode, "Left", 0)
                   ELSE Zone("InitialPlaceholder", CHOOSE n \in own : TRUE,
                             "Left", 0)
        /\ UNCHANGED <<tree, saved, grabbed, trouble>>

\* The pointer has been over another zone for long enough.
Hover(z) ==
    LET ids == NewNodes(tree, 2)
        left == ZoneLeft(tree)
    IN  /\ Going /\ grabbed # <<>> /\ zone # NoZone
        /\ z # zone /\ ~ZoneGone(tree)
        /\ Cardinality({n \in In(left) : IsPlaceholder(left, n)})
              < scope.placeholders
        /\ Push(ZoneEntered(left, z, ids), saved, z)
        /\ UNCHANGED grabbed

HoverPanics ==
    /\ Going /\ grabbed # <<>> /\ zone # NoZone
    /\ Unreadable(tree) \/ ZoneGone(tree)
    /\ trouble' = "hover"
    /\ UNCHANGED <<tree, saved, grabbed, zone>>

Dropped(T, content, o, ids) ==
    LET n == zone.node
        U == AddLeaf(T, ids[1], content)
        first == Before(zone.dir)
        i == IF zone.idx + 1 < T.len[n] THEN zone.idx + 1 ELSE T.len[n]
    IN  CASE zone.kind = "GroupEdge" /\ n \in Groups(T) ->
                IF Across(T, n, n, zone.dir)
                THEN NewGroup(U, n, ids[1], OrientationOf(zone.dir),
                              IF first THEN 1 ELSE 2, ids[2])
                ELSE Sized(Insert(U, ids[1], n, IF first THEN 1
                                                ELSE Len(T.kids[n]) + 1), n, 1)
          [] zone.kind = "GroupInterior" /\ n \in Groups(T) ->
                Sized(Insert(U, ids[1], n, i + 1), n, 1)
          [] zone.kind = "InitialPlaceholder" /\ n \in In(T) ->
                [T EXCEPT !.leaf[n] = content]
          [] zone.kind = "WindowSplit" /\ n \in In(T) ->
                NewGroup(U, n, ids[1], OrientationOf(zone.dir),
                         IF first THEN 1 ELSE 2, ids[2])
          [] zone.kind = "WindowStack" /\ n \in In(T) ->
                [T EXCEPT !.leaf[n] = [kind |-> "stack",
                                       wins |-> @.wins \o content.wins]]
          [] OTHER -> MapToTree(T, content, T.root, o, 2, ids)

Content(wins) ==
    [kind |-> IF Len(wins) = 1 THEN "window" ELSE "stack", wins |-> wins]

\* drop_window, and the cleanup_drag that follows it.
Drop ==
    LET ids == NewNodes(tree, 2)
    IN  /\ Going /\ grabbed # <<>>
        /\ grabbed' = <<>>
        /\ \/ /\ ZoneGone(tree) /\ trouble' = "drop" /\ zone' = NoZone
              /\ UNCHANGED <<tree, saved>>
           \/ /\ ~ZoneGone(tree)
              /\ \E o \in Orientations :
                    Push(Cleaned(Dropped(tree, Content(grabbed), o, ids)),
                         saved, NoZone)

\* try_tile_swap, and the cleanup_drag that follows it.
SwapTile(n) ==
    LET p == zone.node
    IN  /\ Going /\ grabbed # <<>>
        /\ zone.kind = "InitialPlaceholder" /\ p # n
        /\ IsMapped(tree, n) /\ IsPlaceholder(tree, p)
        /\ Push(Cleaned([tree EXCEPT !.leaf[p] = tree.leaf[n],
                                     !.leaf[n] = Content(grabbed)]),
                saved, NoZone)
        /\ grabbed' = <<>>

\* The pointer goes to another output; the tile may be dropped there.
Leave ==
    /\ Going /\ grabbed # <<>>
    /\ Push(Cleaned(tree), saved, NoZone)
    /\ grabbed' \in {grabbed, <<>>}

Act ==
    \/ \E w \in Windows : Map(w)
    \/ \E n \in In(tree) : \/ Close(n) \/ Minimize(n) \/ Grab(n)
                        \/ UpdateOrientation(n) \/ ToggleStacking(n)
                        \/ StackGroup(n) \/ SwapTile(n)
    \/ \E n \in In(tree), d \in Directions :
          MoveCurrentNode(n, d) \/ MoveOutOfStack(n, d)
    \/ \E a, b \in In(tree) : SwapNodes(a, b)
    \/ \E s \in saved : Restore(s)
    \/ \E z \in Targets(tree) : Hover(z)
    \/ HoverEmpty \/ HoverFirst \/ HoverPanics \/ Drop \/ Leave

Next == Act /\ UNCHANGED scope

Spec == Init /\ [][Next]_vars
-----------------------------------------------------------------------------
(* The nodes of a tree belong together: every node has its place and every   *)
(* window, stack and placeholder is what it says.                            *)
TilingTypeOK ==
    /\ In(tree) = 1..Cardinality(In(tree))
    /\ tree.root \in In(tree) \cup {NoNode}
    /\ Groups(tree) \cap Leaves(tree) = {}
    /\ \A n \in Leaves(tree) :
          tree.leaf[n].kind \in {"window", "stack", "grabbed", "dropzone"}
    /\ trouble \in {"none", "misfit", "hover", "drop"}

(* Whatever is mapped, closed, minimized, restored, moved, stacked, dragged  *)
(* or dropped: every group has as many sizes as children, two at least,      *)
(* every node is under the root in one place, a window is in one tile, and   *)
(* there are placeholders only while a tile is dragged.                      *)
TreeIsSound ==
    LET nodes == PreOrder(tree, tree.root)
        wins == WindowsUnder(tree, tree.root)
    IN  /\ IsInjective(nodes) /\ Range(nodes) = In(tree)
        /\ IsInjective(wins)
        /\ \A g \in Groups(tree) :
              Len(tree.kids[g]) = tree.len[g] /\ tree.len[g] >= 2
        /\ \A n \in Leaves(tree) :
              IF IsMapped(tree, n) THEN tree.leaf[n].wins # <<>>
              ELSE grabbed # <<>>

\* The tree under n without the numbers of its nodes.
Shape(T, n) ==
    LET shape[m \in In(T)] ==
            IF m \in Leaves(T) THEN T.leaf[m]
            ELSE <<T.ori[m], [i \in DOMAIN T.kids[m] |-> shape[T.kids[m][i]]]>>
    IN  IF n = NoNode THEN <<>> ELSE shape[n]

(* Minimizing any tile and restoring it at once changes nothing: unmap       *)
(* remembers, and remap reads, all it takes to put a tile back.              *)
RestoreIsInverse ==
    \A n \in {m \in Leaves(tree) : IsMapped(tree, m)} :
        LET T == Flatten(Unmap(tree, n))
            s == RestoreState(tree, n)
            ids == NewNodes(tree, 2)
        IN  n # tree.root
            => LET U == Remapped(T, s, ids)
               IN  Shape(U, U.root) = Shape(tree, tree.root)
=============================================================================
