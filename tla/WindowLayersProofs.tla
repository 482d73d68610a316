-------------------------- MODULE WindowLayersProofs --------------------------
(***************************************************************************)
(* Theorems about WindowLayers: for any windows and any finite number of   *)
(* workspaces, and whatever requests come in whatever order, a window that *)
(* is open is in exactly one layer, announced there alone, and what its    *)
(* client and the panels are told is true.                                 *)
(*                                                                         *)
(* That every window is in one layer is not inductive.  Each operation     *)
(* asks some of the layers only (unmap_element looks at minimized_windows, *)
(* then at the floating layer, then at the tree) and relies on what is not *)
(* asked: that a window maximized out of the tree floats on the workspace  *)
(* of its node, that one that is minimized or fullscreen is not noted as   *)
(* maximized, that the way back to the sticky layer still has its flag.    *)
(* WindowInv says, for every window, which of five things it is, with all  *)
(* of its fields.                                                          *)
(*                                                                         *)
(* First what each operation does to one window record, then what each     *)
(* action does to the state.  Fit and Settled are what the two halves      *)
(* share.                                                                  *)
(*                                                                         *)
(* Then, with an invariant of its own (ReturnInv), that windows come back  *)
(* where they were before they were minimized or fullscreen: each          *)
(* operation is Turned, each request for a workspace Retiled.              *)
(***************************************************************************)
EXTENDS WindowLayers, FiniteSetTheorems, TLAPS

\* In no tiling tree; in no layer of a workspace; not put aside.
NoNode(x) == \A s \in Spaces : x.nodes[s] = 0
Bare(x) == x.floating = {} /\ NoNode(x)
Shown(x) == x.mini = None /\ x.full = None /\ ~Sticks(x)

\* Where an open window may be, in a workspace whose tiling is tl: floating
\* (maximized out of the tree only while that workspace does not tile), tiled (then
\* maximized out of the tree or not), minimized, fullscreen, or sticky.
Floats(x, s, tl) ==
  /\ x.floating = {s} /\ NoNode(x) /\ Shown(x) /\ x.on = {s}
  /\ x.max # "Sticky" /\ (x.max = "Tiling" => ~tl[s])
Tiled(x, s, tl) ==
  /\ x.nodes[s] = 1 /\ \A t \in Spaces \ {s} : x.nodes[t] = 0
  /\ Shown(x) /\ x.on = {s} /\ tl[s]
  /\ \/ x.max = None /\ x.floating = {}
     \/ x.max = "Tiling" /\ x.floating = {s}
Hidden(x, s) ==
  /\ Bare(x) /\ x.mini # None /\ x.mini.space = s
  /\ x.full = None /\ ~Sticks(x) /\ x.max = None /\ x.on = {s}
Fills(x, s) ==
  /\ Bare(x) /\ x.full # None /\ x.full.space = s
  /\ x.mini = None /\ ~Sticks(x) /\ x.max = None /\ x.on = {s}
Stuck(x) ==
  /\ Bare(x) /\ Sticks(x) /\ x.mini = None /\ x.full = None
  /\ x.max \in {None, "Sticky"} /\ x.on = {}

\* In one layer, and announced there; tl is tiling.
Lies(x, tl) ==
  \/ Stuck(x)
  \/ \E s \in Spaces : \/ Floats(x, s, tl) \/ Tiled(x, s, tl)
                        \/ Hidden(x, s) \/ Fills(x, s)

\* The client is told that it is maximized exactly when it is.
ToldRight(x) == x.told <=> x.max # None

Placed(x, tl) == ToldRight(x) /\ Lies(x, tl)

\* The flags follow the layers.  A window that is to go back to the sticky layer
\* keeps its flag.
Flagged(x) ==
  /\ x.minimized <=> x.mini # None
  /\ x.fullscreen <=> x.full # None \/ (x.mini # None /\ x.mini.kind = "Fullscreen")
  /\ Sticks(x) => x.stuck
  /\ x.full # None /\ x.full.back # None /\ x.full.back.kind = "Sticky" => x.stuck
  /\ x.mini # None /\ x.mini.kind = "Fullscreen" /\ x.mini.back # None
       /\ x.mini.back.kind = "Sticky" => x.stuck

\* What was can hold.
Memories == {None} \cup Places

\* One window; tl is tiling, and u whether the history is a usual one.
Good(x, tl, u) ==
  /\ x \in WindowRecords
  /\ ~x.open => x = Fresh
  /\ x.crash = "no" => Flagged(x)
  /\ u => /\ x.crash # "other"
          /\ x.open /\ x.crash = "no" => Placed(x, tl)

\* The inductive invariant.
WindowInv ==
  /\ TypeOK
  /\ \A s \in Spaces : mode[s] = "Monocle" => ~usual /\ restore[s] # None
  /\ \A w \in Windows : Good(win[w], tiling, usual)

\* What one layer means.
Apart(x) ==
  /\ \A s \in Spaces : x.nodes[s] <= 1
  /\ \A s, t \in Spaces : Mapped(x, s) /\ Mapped(x, t) => s = t
  /\ x.mini # None => x.full = None /\ ~Sticks(x) /\ \A s \in Spaces : ~Mapped(x, s)
  /\ x.full # None => ~Sticks(x) /\ \A s \in Spaces : ~Mapped(x, s)
  /\ Sticks(x) => \A s \in Spaces : ~Mapped(x, s)

-----------------------------------------------------------------------------
(* One layer, as Layers counts it and as the invariant says it.             *)

\* The members of Layers, one disjunct for each layer.
LEMMA InLayers ==
  ASSUME NEW x, NEW l
  PROVE  l \in Layers(x) <=>
           \/ \E s \in Spaces : x.nodes[s] > 0 /\ l = <<s, "Tiling">>
           \/ \E s \in x.floating : ~(x.max = "Tiling" /\ x.nodes[s] > 0)
                                     /\ l = <<s, "Floating">>
           \/ x.mini # None /\ l = <<x.mini.space, "Minimized">>
           \/ x.full # None /\ l = <<x.full.space, "Fullscreen">>
           \/ Sticks(x) /\ l = <<None, "Sticky">>
<1>1. l \in (IF x.mini # None THEN {<<x.mini.space, "Minimized">>} ELSE {})
        <=> x.mini # None /\ l = <<x.mini.space, "Minimized">>
  BY Zenon
<1>2. l \in (IF x.full # None THEN {<<x.full.space, "Fullscreen">>} ELSE {})
        <=> x.full # None /\ l = <<x.full.space, "Fullscreen">>
  BY Zenon
<1>3. l \in (IF Sticks(x) THEN {<<None, "Sticky">>} ELSE {})
        <=> Sticks(x) /\ l = <<None, "Sticky">>
  BY Zenon
<1>4. l \in {<<s, "Tiling">> : s \in {t \in Spaces : x.nodes[t] > 0}}
        <=> \E s \in Spaces : x.nodes[s] > 0 /\ l = <<s, "Tiling">>
  OBVIOUS
<1>5. l \in {<<s, "Floating">> : s \in {t \in x.floating : ~(x.max = "Tiling" /\ x.nodes[t] > 0)}}
        <=> \E s \in x.floating : ~(x.max = "Tiling" /\ x.nodes[s] > 0)
                                   /\ l = <<s, "Floating">>
  OBVIOUS
<1> QED BY <1>1, <1>2, <1>3, <1>4, <1>5, Zenon DEF Layers

\* The layers are finitely many, so that one is one.
LEMMA OneLayerOf ==
  ASSUME NEW x \in WindowRecords, InOneLayer(x)
  PROVE  \E l : Layers(x) = {l}
<1>1. PICK S : S = (Spaces \cup {None})
                     \X {"Tiling", "Floating", "Minimized", "Fullscreen", "Sticky"}
  OBVIOUS
<1>2. IsFiniteSet(S)
  <2>1. IsFiniteSet(Spaces \cup {None})
    BY SpacesAssumption, FS_AddElement
  <2>2. IsFiniteSet({"Tiling", "Floating", "Minimized", "Fullscreen", "Sticky"})
    <3>1. \A T, e : IsFiniteSet(T) => IsFiniteSet(T \cup {e})
      BY FS_AddElement
    <3>2. IsFiniteSet({"Tiling"})
      BY FS_Singleton
    <3>3. IsFiniteSet({"Tiling"} \cup {"Floating"})
      BY <3>1, <3>2, Zenon
    <3>4. IsFiniteSet(({"Tiling"} \cup {"Floating"}) \cup {"Minimized"})
      BY <3>1, <3>3, Zenon
    <3>5. IsFiniteSet((({"Tiling"} \cup {"Floating"}) \cup {"Minimized"})
                        \cup {"Fullscreen"})
      BY <3>1, <3>4, Zenon
    <3>6. PICK T : T = (({"Tiling"} \cup {"Floating"}) \cup {"Minimized"})
                          \cup {"Fullscreen"}
      OBVIOUS
    <3>7. IsFiniteSet(T \cup {"Sticky"})
      BY <3>1, <3>5, <3>6
    <3>8. T \cup {"Sticky"} = {"Tiling", "Floating", "Minimized", "Fullscreen",
                               "Sticky"}
      BY <3>6
    <3> QED BY <3>7, <3>8
  <2> QED BY <1>1, <2>1, <2>2, FS_Product
<1>3. PICK T : T = Layers(x)
  OBVIOUS
<1>4. T \in SUBSET S
  <2>1. x.floating \in SUBSET Spaces
    BY DEF WindowRecords
  <2>2. x.mini # None => x.mini.space \in Spaces
    BY DEF WindowRecords, MinimizedWindows
  <2>3. x.full # None => x.full.space \in Spaces
    BY DEF WindowRecords, FullscreenSurfaces
  <2> QED BY <1>1, <1>3, <2>1, <2>2, <2>3, InLayers
<1>5. IsFiniteSet(T)
  BY <1>2, <1>4, FS_Subset
<1>6. Cardinality(T) = 1
  BY <1>3 DEF InOneLayer
<1> QED BY <1>3, <1>5, <1>6, FS_Singleton

\* A window in one layer is mapped on at most one workspace, there with one node
\* at most, and nowhere while it is minimized, fullscreen or sticky.
LEMMA OneLayerApart ==
  ASSUME NEW x \in WindowRecords, InOneLayer(x)
  PROVE  Apart(x)
<1>1. PICK l : Layers(x) = {l}
  BY OneLayerOf
<1>2. ASSUME NEW s \in Spaces, Mapped(x, s)
      PROVE  l \in {<<s, "Tiling">>, <<s, "Floating">>}
  <2>1. CASE x.nodes[s] > 0
    <3>1. <<s, "Tiling">> \in Layers(x)
      BY <2>1, InLayers
    <3> QED BY <1>1, <3>1
  <2>2. CASE x.nodes[s] = 0 /\ s \in x.floating
    <3>1. <<s, "Floating">> \in Layers(x)
      BY <2>2, InLayers
    <3> QED BY <1>1, <3>1
  <2>3. x.nodes[s] \in 0 .. 2
    BY DEF WindowRecords
  <2> QED BY <1>2, <2>1, <2>2, <2>3 DEF Mapped
<1>3. x.mini # None => l = <<x.mini.space, "Minimized">>
  BY <1>1, InLayers
<1>4. x.full # None => l = <<x.full.space, "Fullscreen">>
  BY <1>1, InLayers
<1>5. Sticks(x) => l = <<None, "Sticky">>
  BY <1>1, InLayers
<1>6. \A s, t \in Spaces : Mapped(x, s) /\ Mapped(x, t) => s = t
  BY <1>2
<1> QED BY <1>2, <1>3, <1>4, <1>5, <1>6 DEF Apart, InOneLayer

\* What the invariant says of an open window implies that it is in one layer.
LEMMA LiesInOneLayer ==
  ASSUME NEW x \in WindowRecords, NEW tl, Lies(x, tl)
  PROVE  InOneLayer(x)
<1>1. \E l : Layers(x) = {l}
  <2>1. \A s \in Spaces : x.nodes[s] \in 0 .. 2
    BY DEF WindowRecords
  <2>2. ASSUME NEW l, \A k : k \in Layers(x) <=> k = l
        PROVE  Layers(x) = {l}
    <3>1. PICK S : S = Layers(x)
      OBVIOUS
    <3> QED BY <2>2, <3>1
  <2>3. ASSUME Stuck(x), NEW k
        PROVE  k \in Layers(x) <=> k = <<None, "Sticky">>
    BY <2>3, InLayers DEF Stuck, Bare, NoNode
  <2>4. ASSUME NEW s \in Spaces, Floats(x, s, tl), NEW k
        PROVE  k \in Layers(x) <=> k = <<s, "Floating">>
    BY <2>4, InLayers DEF Floats, NoNode, Shown
  <2>5. ASSUME NEW s \in Spaces, Tiled(x, s, tl), NEW k
        PROVE  k \in Layers(x) <=> k = <<s, "Tiling">>
    <3>1. \A t \in Spaces : x.nodes[t] > 0 <=> t = s
      BY <2>5 DEF Tiled
    <3>2. \A t \in x.floating : x.max = "Tiling" /\ x.nodes[t] > 0
      BY <2>5 DEF Tiled
    <3>3. x.mini = None /\ x.full = None /\ ~Sticks(x)
      BY <2>5 DEF Tiled, Shown
    <3> QED BY <3>1, <3>2, <3>3, InLayers
  <2>6. ASSUME NEW s \in Spaces, Hidden(x, s), NEW k
        PROVE  k \in Layers(x) <=> k = <<s, "Minimized">>
    BY <2>6, InLayers DEF Hidden, Bare, NoNode
  <2>7. ASSUME NEW s \in Spaces, Fills(x, s), NEW k
        PROVE  k \in Layers(x) <=> k = <<s, "Fullscreen">>
    BY <2>7, InLayers DEF Fills, Bare, NoNode
  <2>8. CASE Stuck(x)
    <3>1. PICK t : t = <<None, "Sticky">>
      OBVIOUS
    <3>2. \A k : k \in Layers(x) <=> k = t
      BY <3>1, <2>3, <2>8
    <3> QED BY <2>2, <3>2
  <2>9. ASSUME NEW s \in Spaces, Floats(x, s, tl)
        PROVE  \E l : Layers(x) = {l}
    <3>1. PICK t : t = <<s, "Floating">>
      OBVIOUS
    <3>2. \A k : k \in Layers(x) <=> k = t
      BY <3>1, <2>4, <2>9
    <3> QED BY <2>2, <3>2
  <2>10. ASSUME NEW s \in Spaces, Tiled(x, s, tl)
         PROVE  \E l : Layers(x) = {l}
    <3>1. PICK t : t = <<s, "Tiling">>
      OBVIOUS
    <3>2. \A k : k \in Layers(x) <=> k = t
      BY <3>1, <2>5, <2>10
    <3> QED BY <2>2, <3>2
  <2>11. ASSUME NEW s \in Spaces, Hidden(x, s)
         PROVE  \E l : Layers(x) = {l}
    <3>1. PICK t : t = <<s, "Minimized">>
      OBVIOUS
    <3>2. \A k : k \in Layers(x) <=> k = t
      BY <3>1, <2>6, <2>11
    <3> QED BY <2>2, <3>2
  <2>12. ASSUME NEW s \in Spaces, Fills(x, s)
         PROVE  \E l : Layers(x) = {l}
    <3>1. PICK t : t = <<s, "Fullscreen">>
      OBVIOUS
    <3>2. \A k : k \in Layers(x) <=> k = t
      BY <3>1, <2>7, <2>12
    <3> QED BY <2>2, <3>2
  <2> QED BY <2>8, <2>9, <2>10, <2>11, <2>12 DEF Lies
<1>2. PICK T : T = Layers(x)
  OBVIOUS
<1>3. Cardinality(T) = 1
  BY <1>1, <1>2, FS_Singleton
<1>4. \A s \in Spaces : x.nodes[s] <= 1
  BY DEF Lies, Stuck, Floats, Tiled, Hidden, Fills, Bare, NoNode, WindowRecords
<1> QED BY <1>2, <1>3, <1>4 DEF InOneLayer
-----------------------------------------------------------------------------
(* The changes of one layer.                                                *)

\* y differs from x only in the layers of a workspace, in what is said of being
\* maximized, and in whether it crashed.
Kept(y, x) ==
  /\ y.open = x.open /\ y.full = x.full
  /\ y.sticky = x.sticky /\ y.before = x.before /\ y.acked = x.acked
  /\ y.minimized = x.minimized /\ y.fullscreen = x.fullscreen
  /\ y.stuck = x.stuck /\ y.on = x.on
  /\ x.mini = None => y.mini = None
  /\ x.mini # None => /\ y.mini # None
                      /\ y.mini.space = x.mini.space /\ y.mini.kind = x.mini.kind
                      /\ y.mini.back = x.mini.back

\* The same, and what is minimized is the same.
Moved(y, x) == Kept(y, x) /\ y.mini = x.mini

\* What the changes of one layer do to the fields, and that they keep the rest.
LEMMA FloatMoves ==
  ASSUME NEW x \in WindowRecords, NEW s \in Spaces
  PROVE  /\ Float(x, s) \in WindowRecords /\ Moved(Float(x, s), x)
         /\ Float(x, s).floating = x.floating \cup {s}
         /\ Float(x, s).nodes = x.nodes /\ Float(x, s).max = x.max
         /\ Float(x, s).told = x.told /\ Float(x, s).crash = x.crash
<1>1. x.floating \cup {s} \in SUBSET Spaces
  BY DEF WindowRecords
<1> QED BY <1>1 DEF Float, Moved, Kept, WindowRecords

\* Taking a window out of a floating layer.
LEMMA UnfloatMoves ==
  ASSUME NEW x \in WindowRecords, NEW s \in Spaces
  PROVE  /\ Unfloat(x, s) \in WindowRecords /\ Moved(Unfloat(x, s), x)
         /\ Unfloat(x, s).floating = x.floating \ {s}
         /\ Unfloat(x, s).nodes = x.nodes /\ Unfloat(x, s).max = x.max
         /\ Unfloat(x, s).told = x.told /\ Unfloat(x, s).crash = x.crash
<1>1. x.floating \ {s} \in SUBSET Spaces
  BY DEF WindowRecords
<1> QED BY <1>1 DEF Unfloat, Moved, Kept, WindowRecords

\* Giving a window one more node; a tree that has one holds two at most.
LEMMA TileMoves ==
  ASSUME NEW x \in WindowRecords, NEW s \in Spaces, x.nodes[s] <= 1
  PROVE  /\ Tile(x, s) \in WindowRecords /\ Moved(Tile(x, s), x)
         /\ Tile(x, s).floating = x.floating /\ Tile(x, s).max = x.max
         /\ Tile(x, s).nodes[s] = x.nodes[s] + 1
         /\ \A t \in Spaces \ {s} : Tile(x, s).nodes[t] = x.nodes[t]
         /\ Tile(x, s).told = x.told /\ Tile(x, s).crash = x.crash
<1>1. x.nodes[s] + 1 \in 0 .. 2 /\ x.nodes \in [Spaces -> 0 .. 2]
  BY DEF WindowRecords
<1>2. Tile(x, s) = [x EXCEPT !.nodes = [x.nodes EXCEPT ![s] = x.nodes[s] + 1]]
  BY DEF Tile, WindowRecords
<1>3. PICK n \in [Spaces -> 0 .. 2] : n = [x.nodes EXCEPT ![s] = x.nodes[s] + 1]
  BY <1>1
<1>4. n[s] = x.nodes[s] + 1 /\ \A t \in Spaces \ {s} : n[t] = x.nodes[t]
  BY <1>1, <1>3
<1>5. Tile(x, s) = [x EXCEPT !.nodes = n]
  BY <1>2, <1>3
<1> QED BY <1>4, <1>5 DEF Moved, Kept, WindowRecords

\* Taking one node away.
LEMMA UntileMoves ==
  ASSUME NEW x \in WindowRecords, NEW s \in Spaces
  PROVE  /\ Untile(x, s) \in WindowRecords /\ Moved(Untile(x, s), x)
         /\ Untile(x, s).floating = x.floating /\ Untile(x, s).max = x.max
         /\ Untile(x, s).nodes[s] = IF x.nodes[s] > 0 THEN x.nodes[s] - 1 ELSE 0
         /\ \A t \in Spaces \ {s} : Untile(x, s).nodes[t] = x.nodes[t]
         /\ Untile(x, s).told = x.told /\ Untile(x, s).crash = x.crash
<1> DEFINE k == IF x.nodes[s] > 0 THEN x.nodes[s] - 1 ELSE 0
<1>1. k \in 0 .. 2 /\ x.nodes \in [Spaces -> 0 .. 2]
  BY DEF WindowRecords
<1>2. Untile(x, s) = [x EXCEPT !.nodes = [x.nodes EXCEPT ![s] = k]]
  BY DEF Untile, WindowRecords
<1> HIDE DEF k
<1>3. PICK n \in [Spaces -> 0 .. 2] : n = [x.nodes EXCEPT ![s] = k]
  BY <1>1
<1>4. n[s] = k /\ \A t \in Spaces \ {s} : n[t] = x.nodes[t]
  BY <1>1, <1>3
<1>5. Untile(x, s) = [x EXCEPT !.nodes = n]
  BY <1>2, <1>3
<1> QED BY <1>4, <1>5 DEF Moved, Kept, WindowRecords, k

\* Noting the layer a window is maximized from and floating it.
LEMMA MaximizedMoves ==
  ASSUME NEW x \in WindowRecords, NEW s \in Spaces,
         NEW layer \in {"Floating", "Tiling"}
  PROVE  /\ Maximized(x, s, layer) \in WindowRecords
         /\ Moved(Maximized(x, s, layer), x)
         /\ Maximized(x, s, layer).floating = x.floating \cup {s}
         /\ Maximized(x, s, layer).nodes = x.nodes
         /\ Maximized(x, s, layer).max = layer
         /\ Maximized(x, s, layer).told /\ Maximized(x, s, layer).crash = x.crash
<1>1. PICK y \in WindowRecords : y = Float(x, s)
  BY FloatMoves
<1>2. Maximized(x, s, layer) = [y EXCEPT !.max = layer, !.told = TRUE]
  BY <1>1 DEF Maximized
<1>3. /\ Moved(y, x) /\ y.floating = x.floating \cup {s} /\ y.nodes = x.nodes
      /\ y.crash = x.crash
  BY <1>1, FloatMoves
<1>4. /\ Maximized(x, s, layer) \in WindowRecords
      /\ Maximized(x, s, layer).told
  BY <1>2 DEF WindowRecords
<1>5. Moved(Maximized(x, s, layer), y)
  BY <1>2 DEF Moved, Kept, WindowRecords
<1>6. /\ Maximized(x, s, layer).floating = y.floating
      /\ Maximized(x, s, layer).nodes = y.nodes
      /\ Maximized(x, s, layer).max = layer
      /\ Maximized(x, s, layer).crash = y.crash
  BY <1>2 DEF WindowRecords
<1> QED BY <1>3, <1>4, <1>5, <1>6 DEF Moved, Kept

-----------------------------------------------------------------------------
(* The operations of a workspace on one window.                             *)

\* What keeps the flags and the ways back keeps Flagged.
LEMMA KeptFlags ==
  ASSUME NEW x, NEW y, Kept(y, x), Flagged(x)
  PROVE  Flagged(y)
BY DEF Kept, Flagged, Sticks

\* Two changes that keep the rest keep it together.
LEMMA KeptTwice ==
  ASSUME NEW x, NEW y, NEW z, Kept(y, x), Kept(z, y)
  PROVE  Kept(z, x)
BY DEF Kept

\* What unmaximize_request does, case by case.
UnmaximizedTo(y, x, s, t) ==
  /\ y \in WindowRecords /\ Kept(y, x) /\ y.nodes = x.nodes
  /\ x.max = None => y = x
  /\ x.max = "Sticky" /\ x.mini = None => y.crash = "Sticky"
  /\ x.max # None /\ (x.max = "Sticky" => x.mini # None) =>
       y.max = None /\ ~y.told /\ y.crash = x.crash
  /\ x.max # None /\ x.mini # None => y.floating = x.floating
  /\ x.max = "Tiling" /\ x.mini = None /\ t => y.floating = x.floating \ {s}
  /\ x.max \in {"Floating", "Tiling"} /\ x.mini = None /\ (x.max = "Tiling" => ~t) =>
       y.floating = x.floating \cup {s}

\* unmaximize_request of a workspace does one of the things of UnmaximizedTo.
LEMMA UnmaximizedMoves ==
  ASSUME NEW x \in WindowRecords, NEW s \in Spaces, NEW t \in BOOLEAN
  PROVE  UnmaximizedTo(Unmaximized(x, s, t), x, s, t)
<1>1. CASE x.max = None
  <2>1. Unmaximized(x, s, t) = x
    BY <1>1, NoneAssumption DEF Unmaximized
  <2> QED BY <2>1, <1>1, NoneAssumption DEF UnmaximizedTo, Kept
<1>2. CASE x.max # None
  <2>1. PICK y : y = [x EXCEPT !.max = None, !.told = FALSE]
    OBVIOUS
  <2>2. /\ y \in WindowRecords /\ Moved(y, x) /\ y.nodes = x.nodes
        /\ y.max = None /\ ~y.told /\ y.floating = x.floating /\ y.crash = x.crash
    BY <2>1 DEF WindowRecords, Moved, Kept
  <2>3. CASE x.mini # None
    <3>1. PICK m : m = [x.mini EXCEPT !.max = x.mini.kind = "Floating" /\ x.mini.max]
      OBVIOUS
    <3>2. x.mini \in MinimizedWindows
      BY <2>3 DEF WindowRecords
    <3>3. /\ m \in MinimizedWindows /\ m.space = x.mini.space
          /\ m.kind = x.mini.kind /\ m.back = x.mini.back
      BY <3>1, <3>2 DEF MinimizedWindows
    <3>4. Unmaximized(x, s, t) = [y EXCEPT !.mini = m]
      <4>1. y.mini = x.mini
        BY <2>2 DEF Moved
      <4>2. Unmaximized(x, s, t) = [y EXCEPT !.mini.max = x.mini.kind = "Floating" /\ @]
        BY <1>2, <2>1, <2>3, Zenon DEF Unmaximized
      <4> QED BY <4>1, <4>2, <3>1, <2>2 DEF WindowRecords
    <3>5. PICK z : z = [y EXCEPT !.mini = m]
      OBVIOUS
    <3>6. /\ z \in WindowRecords /\ z.nodes = y.nodes /\ z.max = y.max
          /\ z.told = y.told /\ z.floating = y.floating /\ z.crash = y.crash
          /\ z.mini = m
      BY <2>2, <3>3, <3>5 DEF WindowRecords
    <3>7. Kept(z, x)
      <4>1. /\ z.open = y.open /\ z.full = y.full
            /\ z.sticky = y.sticky /\ z.before = y.before /\ z.acked = y.acked
            /\ z.minimized = y.minimized /\ z.fullscreen = y.fullscreen
            /\ z.stuck = y.stuck /\ z.on = y.on
        BY <2>2, <3>5 DEF WindowRecords
      <4>2. m # None
        BY <3>3, NoneAssumption
      <4> QED BY <4>1, <4>2, <3>6, <3>3, <2>2, <2>3 DEF Kept, Moved
    <3> QED BY <1>2, <2>2, <2>3, <3>4, <3>5, <3>6, <3>7 DEF UnmaximizedTo
  <2>4. CASE x.mini = None /\ x.max = "Tiling" /\ t
    <3>1. Unmaximized(x, s, t) = Unfloat(y, s)
      BY <1>2, <2>1, <2>4, Zenon DEF Unmaximized
    <3>2. PICK z : z = Unfloat(y, s)
      OBVIOUS
    <3>3. /\ z \in WindowRecords /\ Moved(z, y) /\ z.floating = y.floating \ {s}
          /\ z.nodes = y.nodes /\ z.max = y.max /\ z.told = y.told /\ z.crash = y.crash
      BY <3>2, <2>2, UnfloatMoves
    <3> QED BY <1>2, <2>2, <2>4, <3>1, <3>2, <3>3, KeptTwice DEF UnmaximizedTo, Moved
  <2>5. CASE x.mini = None /\ x.max = "Sticky"
    <3>1. Unmaximized(x, s, t) = Crash(x, "Sticky")
      BY <1>2, <2>5, Zenon DEF Unmaximized
    <3>2. PICK z : z = Crash(x, "Sticky")
      OBVIOUS
    <3>3. z \in WindowRecords /\ Moved(z, x) /\ z.nodes = x.nodes /\ z.crash = "Sticky"
      BY <3>2 DEF Crash, WindowRecords, Moved, Kept
    <3> QED BY <1>2, <2>5, <3>1, <3>2, <3>3 DEF UnmaximizedTo, Moved
  <2>6. CASE x.mini = None /\ x.max # "Sticky" /\ ~(x.max = "Tiling" /\ t)
    <3>1. Unmaximized(x, s, t) = Float(y, s)
      BY <1>2, <2>1, <2>6, Zenon DEF Unmaximized
    <3>2. PICK z : z = Float(y, s)
      OBVIOUS
    <3>3. /\ z \in WindowRecords /\ Moved(z, y) /\ z.floating = y.floating \cup {s}
          /\ z.nodes = y.nodes /\ z.max = y.max /\ z.told = y.told /\ z.crash = y.crash
      BY <3>2, <2>2, FloatMoves
    <3> QED BY <1>2, <2>2, <2>6, <3>1, <3>2, <3>3, KeptTwice DEF UnmaximizedTo, Moved
  <2> QED BY <1>2, <2>3, <2>4, <2>5, <2>6
<1> QED BY <1>1, <1>2

\* A window that lies right is found where it is (space_for), and only there.
LEMMA LiesHome ==
  ASSUME NEW x, NEW tl, Lies(x, tl), NEW s \in Homes(x)
  PROVE  /\ s \in Spaces
         /\ \/ Floats(x, s, tl)
            \/ Tiled(x, s, tl)
            \/ Hidden(x, s) /\ x.mini.kind # "Fullscreen"
<1>1. s \in Spaces /\ (Mapped(x, s) \/ (x.mini # None /\ x.mini.space = s
                                          /\ x.mini.kind # "Fullscreen"))
  BY DEF Homes
<1>2. CASE Stuck(x)
  BY <1>1, <1>2 DEF Stuck, Bare, NoNode, Mapped
<1>3. ASSUME NEW t \in Spaces, Floats(x, t, tl)
      PROVE  t = s
  BY <1>1, <1>3 DEF Floats, NoNode, Mapped, Shown
<1>4. ASSUME NEW t \in Spaces, Tiled(x, t, tl)
      PROVE  t = s
  BY <1>1, <1>4 DEF Tiled, Mapped, Shown
<1>5. ASSUME NEW t \in Spaces, Hidden(x, t)
      PROVE  t = s /\ x.mini.kind # "Fullscreen"
  BY <1>1, <1>5 DEF Hidden, Bare, NoNode, Mapped
<1>6. ASSUME NEW t \in Spaces, Fills(x, t)
      PROVE  FALSE
  BY <1>1, <1>6 DEF Fills, Bare, NoNode, Mapped
<1> QED BY <1>1, <1>2, <1>3, <1>4, <1>5, <1>6 DEF Lies

\* Unmaximizing a window where it is leaves it there.
LEMMA UnmaximizedLies ==
  ASSUME NEW x \in WindowRecords, NEW tl \in [Spaces -> BOOLEAN], Lies(x, tl),
         NEW s \in Homes(x), NEW y, UnmaximizedTo(y, x, s, tl[s])
  PROVE  /\ Floats(x, s, tl) => Floats(y, s, tl)
         /\ Tiled(x, s, tl) => Tiled(y, s, tl) /\ y.floating = {}
         /\ Hidden(x, s) => Hidden(y, s)
         /\ Lies(y, tl) /\ y.max = None /\ y.crash = x.crash
         /\ ToldRight(x) => ToldRight(y)
<1>1. /\ s \in Spaces
      /\ \/ Floats(x, s, tl)
         \/ Tiled(x, s, tl)
         \/ Hidden(x, s) /\ x.mini.kind # "Fullscreen"
  BY LiesHome
<1>2. x.max \in {None, "Floating", "Tiling", "Sticky"}
  BY DEF WindowRecords
<1>3. CASE Floats(x, s, tl)
  <2>1. Floats(y, s, tl)
    BY <1>1, <1>2, <1>3, NoneAssumption
    DEF Floats, UnmaximizedTo, Kept, NoNode, Shown, Sticks
  <2>2. ~Tiled(x, s, tl) /\ ~Hidden(x, s)
    BY <1>3 DEF Floats, Tiled, Hidden, NoNode, Bare, Shown
  <2>3. y.max = None /\ y.crash = x.crash
    BY <1>1, <1>2, <1>3, NoneAssumption DEF Floats, UnmaximizedTo, Shown
  <2>4. ToldRight(x) => ToldRight(y)
    BY <1>1, <1>2, <1>3, <2>3, NoneAssumption DEF Floats, UnmaximizedTo, Shown, ToldRight
  <2> QED BY <1>1, <2>1, <2>2, <2>3, <2>4 DEF Lies
<1>4. CASE Tiled(x, s, tl)
  <2>1. Tiled(y, s, tl) /\ y.floating = {}
    BY <1>1, <1>2, <1>4, NoneAssumption
    DEF Tiled, UnmaximizedTo, Kept, Shown, Sticks
  <2>2. ~Floats(x, s, tl) /\ ~Hidden(x, s)
    BY <1>4 DEF Floats, Tiled, Hidden, NoNode, Bare, Shown
  <2>3. y.max = None /\ y.crash = x.crash
    BY <1>1, <1>2, <1>4, NoneAssumption DEF Tiled, UnmaximizedTo, Shown
  <2>4. ToldRight(x) => ToldRight(y)
    BY <1>1, <1>2, <1>4, <2>3, NoneAssumption DEF Tiled, UnmaximizedTo, Shown, ToldRight
  <2> QED BY <1>1, <2>1, <2>2, <2>3, <2>4 DEF Lies
<1>5. CASE Hidden(x, s)
  <2>1. y = x
    BY <1>5 DEF Hidden, UnmaximizedTo
  <2>2. ~Floats(x, s, tl) /\ ~Tiled(x, s, tl)
    BY <1>5 DEF Floats, Tiled, Hidden, NoNode, Bare, Shown
  <2> QED BY <1>5, <2>1, <2>2 DEF Hidden
<1> QED BY <1>1, <1>3, <1>4, <1>5

\* Taken out of its layer.
Lifted(y, x) ==
  /\ y \in WindowRecords /\ y.mini = None
  /\ y.open = x.open /\ y.full = x.full
  /\ y.sticky = x.sticky /\ y.before = x.before /\ y.acked = x.acked
  /\ y.fullscreen = x.fullscreen /\ y.stuck = x.stuck /\ y.on = x.on
  /\ IF x.mini = None THEN y.minimized = x.minimized ELSE ~y.minimized
  /\ \A s \in Spaces : y.nodes[s] <= x.nodes[s]

\* Taking a window out of its layer keeps Flagged.
LEMMA LiftedFlags ==
  ASSUME NEW x, NEW y, Lifted(y, x), Flagged(x),
         x.mini # None => x.mini.kind # "Fullscreen"
  PROVE  Flagged(y)
BY DEF Lifted, Flagged, Sticks

\* unmap_element takes a window out of its layer, wherever it is on s.
LEMMA UnmappedMoves ==
  ASSUME TypeOK, NEW x \in WindowRecords, NEW s \in Spaces
  PROVE  /\ Lifted(Unmapped(x, s), x)
         /\ s \in Homes(x) /\ Lies(x, tiling) =>
              /\ Bare(Unmapped(x, s))
              /\ Unmapped(x, s).max = None /\ Unmapped(x, s).crash = x.crash
              /\ ToldRight(x) => ~Unmapped(x, s).told
         /\ x.max = "Sticky" /\ x.mini = None => Unmapped(x, s).crash = "Sticky"
         /\ x.max = None => /\ Unmapped(x, s).crash = x.crash
                            /\ Unmapped(x, s).max = None
                            /\ Unmapped(x, s).told = x.told
                            /\ Bare(x) => Bare(Unmapped(x, s))
<1>1. tiling[s] \in BOOLEAN /\ tiling \in [Spaces -> BOOLEAN]
  BY DEF TypeOK
<1>2. PICK y : y = Unmaximized(x, s, tiling[s])
  OBVIOUS
<1>3. UnmaximizedTo(y, x, s, tiling[s])
  BY <1>1, <1>2, UnmaximizedMoves
<1>4. y \in WindowRecords /\ Kept(y, x) /\ y.nodes = x.nodes
  BY <1>3 DEF UnmaximizedTo
<1>5. \A t \in Spaces : y.nodes[t] \in 0 .. 2
  BY <1>4 DEF WindowRecords
<1>6. s \in Homes(x) /\ Lies(x, tiling) =>
        /\ Floats(y, s, tiling) \/ (Tiled(y, s, tiling) /\ y.floating = {}) \/ Hidden(y, s)
        /\ y.max = None /\ y.crash = x.crash
        /\ ToldRight(x) => ~y.told
  <2>1. SUFFICES ASSUME s \in Homes(x), Lies(x, tiling)
                 PROVE  /\ \/ Floats(y, s, tiling)
                           \/ Tiled(y, s, tiling) /\ y.floating = {}
                           \/ Hidden(y, s)
                        /\ y.max = None /\ y.crash = x.crash
                        /\ ToldRight(x) => ~y.told
    OBVIOUS
  <2>2. /\ Floats(x, s, tiling) => Floats(y, s, tiling)
        /\ Tiled(x, s, tiling) => Tiled(y, s, tiling) /\ y.floating = {}
        /\ Hidden(x, s) => Hidden(y, s)
        /\ y.max = None /\ y.crash = x.crash /\ (ToldRight(x) => ToldRight(y))
    BY <1>1, <1>3, <2>1, UnmaximizedLies
  <2>3. Floats(x, s, tiling) \/ Tiled(x, s, tiling) \/ Hidden(x, s)
    BY <2>1, LiesHome
  <2> QED BY <2>2, <2>3 DEF ToldRight
<1>7. x.max = "Sticky" /\ x.mini = None => y.crash = "Sticky"
  BY <1>3 DEF UnmaximizedTo
<1>8. x.max = None => /\ y.crash = x.crash /\ y.max = None /\ y.told = x.told
                      /\ Bare(x) => Bare(y)
  BY <1>3 DEF UnmaximizedTo
<1>9. PICK z : z = Unmapped(x, s)
  OBVIOUS
<1>10. CASE y.mini # None
  <2>1. z = [y EXCEPT !.mini = None, !.minimized = FALSE]
    BY <1>2, <1>9, <1>10, Zenon DEF Unmapped
  <2>2. /\ z \in WindowRecords /\ z.mini = None /\ ~z.minimized
        /\ z.open = y.open /\ z.full = y.full
        /\ z.sticky = y.sticky /\ z.before = y.before /\ z.acked = y.acked
        /\ z.fullscreen = y.fullscreen /\ z.stuck = y.stuck /\ z.on = y.on
        /\ z.nodes = y.nodes /\ z.floating = y.floating /\ z.max = y.max
        /\ z.told = y.told /\ z.crash = y.crash
    BY <2>1, <1>4 DEF WindowRecords
  <2>3. Lifted(z, x)
    BY <2>2, <1>4, <1>5, <1>10 DEF Kept, Lifted
  <2>4. s \in Homes(x) /\ Lies(x, tiling) => Bare(z)
    BY <2>2, <1>6, <1>10 DEF Floats, Tiled, Hidden, Shown, Bare, NoNode
  <2>5. Bare(y) => Bare(z)
    BY <2>2 DEF Bare, NoNode
  <2> QED BY <2>2, <2>3, <2>4, <2>5, <1>6, <1>7, <1>8, <1>9
<1>11. CASE y.mini = None /\ y.nodes[s] > 0
  <2>1. z = Untile(y, s)
    BY <1>2, <1>9, <1>11, Zenon DEF Unmapped
  <2>2. /\ z \in WindowRecords /\ Moved(z, y)
        /\ z.floating = y.floating /\ z.max = y.max
        /\ z.nodes[s] = y.nodes[s] - 1
        /\ \A t \in Spaces \ {s} : z.nodes[t] = y.nodes[t]
        /\ z.told = y.told /\ z.crash = y.crash
    BY <2>1, <1>4, <1>11, UntileMoves
  <2>3. Lifted(z, x)
    BY <2>2, <1>4, <1>5, <1>11 DEF Kept, Moved, Lifted
  <2>4. s \in Homes(x) /\ Lies(x, tiling) => Bare(z)
    BY <2>2, <1>6, <1>11 DEF Floats, Tiled, Hidden, Shown, Bare, NoNode
  <2>5. Bare(y) => Bare(z)
    BY <1>11 DEF Bare, NoNode
  <2> QED BY <2>2, <2>3, <2>4, <2>5, <1>6, <1>7, <1>8, <1>9
<1>12. CASE y.mini = None /\ ~(y.nodes[s] > 0)
  <2>1. z = Unfloat(y, s)
    BY <1>2, <1>9, <1>12, Zenon DEF Unmapped
  <2>2. /\ z \in WindowRecords /\ Moved(z, y)
        /\ z.floating = y.floating \ {s} /\ z.max = y.max /\ z.nodes = y.nodes
        /\ z.told = y.told /\ z.crash = y.crash
    BY <2>1, <1>4, UnfloatMoves
  <2>3. Lifted(z, x)
    BY <2>2, <1>4, <1>5, <1>12 DEF Kept, Moved, Lifted
  <2>4. s \in Homes(x) /\ Lies(x, tiling) => Bare(z)
    BY <2>2, <1>6, <1>12 DEF Floats, Tiled, Hidden, Shown, Bare, NoNode
  <2>5. Bare(y) => Bare(z)
    BY <2>2 DEF Bare, NoNode
  <2> QED BY <2>2, <2>3, <2>4, <2>5, <1>6, <1>7, <1>8, <1>9
<1> QED BY <1>10, <1>11, <1>12

\* A window that has become y: still a record, with flags that agree unless it
\* crashed.
Fit(y, x) == /\ y \in WindowRecords /\ y.open = x.open
             /\ y.crash = "no" => Flagged(y)

\* In one layer again, without a crash, and told what it is.
Settled(y, x, tl) == /\ y.crash = x.crash /\ Lies(y, tl)
                     /\ ToldRight(x) => ToldRight(y)

\* Workspace::minimize: the window is hidden where it was.
LEMMA MinimizedFromFits ==
  ASSUME TypeOK, NEW x \in WindowRecords, Flagged(x), Apart(x),
         NEW s \in Spaces, Mapped(x, s)
  PROVE  /\ Fit(MinimizedFrom(x, s), x)
         /\ Lies(x, tiling) => Settled(MinimizedFrom(x, s), x, tiling)
<1>1. tiling[s] \in BOOLEAN
  BY DEF TypeOK
<1>2. PICK u : u = IF x.max = "Tiling" /\ tiling[s] THEN Unfloat(x, s) ELSE x
  OBVIOUS
<1>3. /\ u \in WindowRecords /\ Moved(u, x) /\ u.nodes = x.nodes
      /\ u.max = x.max /\ u.told = x.told /\ u.crash = x.crash
      /\ u.floating = IF x.max = "Tiling" /\ tiling[s] THEN x.floating \ {s} ELSE x.floating
  BY <1>2, UnfloatMoves DEF Moved, Kept
<1>4. PICK y : y = IF x.max = None THEN x ELSE [u EXCEPT !.max = None, !.told = FALSE]
  OBVIOUS
<1>5. /\ y \in WindowRecords /\ Moved(y, x) /\ y.nodes = x.nodes
      /\ y.max = None /\ (ToldRight(x) => ~y.told) /\ y.crash = x.crash
      /\ y.floating = IF x.max = "Tiling" /\ tiling[s] THEN x.floating \ {s} ELSE x.floating
  <2>1. CASE x.max = None
    BY <2>1, <1>4, NoneAssumption DEF Moved, Kept, ToldRight
  <2>2. CASE x.max # None
    <3>1. y = [u EXCEPT !.max = None, !.told = FALSE]
      BY <2>2, <1>4
    <3>2. /\ y \in WindowRecords /\ Moved(y, u) /\ y.nodes = u.nodes
          /\ y.max = None /\ ~y.told /\ y.crash = u.crash /\ y.floating = u.floating
      BY <3>1, <1>3 DEF Moved, Kept, WindowRecords
    <3> QED BY <3>2, <1>3, KeptTwice DEF Moved
  <2> QED BY <2>1, <2>2
<1>6. x.mini = None /\ x.full = None /\ ~Sticks(x) /\ x.nodes[s] \in 0 .. 1
      /\ \A t \in Spaces \ {s} : x.nodes[t] = 0 /\ t \notin x.floating
  BY DEF Apart, Mapped, WindowRecords
<1>7. ~x.minimized /\ ~x.fullscreen
  BY <1>6, Zenon DEF Flagged
<1>8. PICK z : z = MinimizedFrom(x, s)
  OBVIOUS
<1> DEFINE Gone(v, kind) ==
      [v EXCEPT !.minimized = TRUE,
                !.mini = [space |-> s, kind |-> kind, max |-> x.max # None, back |-> None]]
<1>9. /\ s \in y.floating => z = Gone(Unfloat(y, s), "Floating")
      /\ s \notin y.floating /\ y.nodes[s] > 0 => z = Gone(Untile(y, s), "Tiling")
      /\ s \notin y.floating /\ ~(y.nodes[s] > 0) => z = Crash(y, "other")
  BY <1>2, <1>4, <1>8, Zenon DEF MinimizedFrom
<1>10. ASSUME NEW v \in WindowRecords, Moved(v, y), NEW kind \in {"Floating", "Tiling"}
       PROVE  /\ Gone(v, kind) \in WindowRecords /\ Gone(v, kind).open = x.open
              /\ Gone(v, kind).mini # None /\ Gone(v, kind).mini.space = s
              /\ Gone(v, kind).full = None /\ ~Sticks(Gone(v, kind))
              /\ Flagged(Gone(v, kind)) /\ Gone(v, kind).on = x.on
              /\ Gone(v, kind).floating = v.floating /\ Gone(v, kind).nodes = v.nodes
              /\ Gone(v, kind).max = v.max /\ Gone(v, kind).told = v.told
              /\ Gone(v, kind).crash = v.crash
  <2>1. PICK m \in MinimizedWindows :
          m = [space |-> s, kind |-> kind, max |-> x.max # None, back |-> None]
    <3>1. PICK b \in BOOLEAN : b = (x.max # None)
      OBVIOUS
    <3>2. [space |-> s, kind |-> kind, max |-> b, back |-> None] \in MinimizedWindows
      BY <1>10 DEF MinimizedWindows
    <3> QED BY <3>1, <3>2
  <2>2. m # None /\ m.space = s /\ m.kind # "Fullscreen"
    BY <2>1, <1>10, NoneAssumption DEF MinimizedWindows
  <2>3. PICK g : g = [v EXCEPT !.minimized = TRUE, !.mini = m]
    OBVIOUS
  <2>4. g = Gone(v, kind)
    BY <2>1, <2>3
  <2>5. /\ g \in WindowRecords /\ g.open = v.open /\ g.mini = m /\ g.full = v.full
        /\ g.sticky = v.sticky /\ g.minimized /\ g.fullscreen = v.fullscreen
        /\ g.stuck = v.stuck /\ g.on = v.on
        /\ g.floating = v.floating /\ g.nodes = v.nodes /\ g.max = v.max
        /\ g.told = v.told /\ g.crash = v.crash
    BY <2>3 DEF WindowRecords
  <2>6. /\ g.open = x.open /\ g.full = None /\ ~Sticks(g) /\ ~g.fullscreen
        /\ g.on = x.on
    BY <2>5, <1>5, <1>6, <1>7, <1>10 DEF Moved, Kept, Sticks
  <2>7. Flagged(g)
    BY <2>2, <2>5, <2>6 DEF Flagged
  <2> QED BY <2>2, <2>4, <2>5, <2>6, <2>7
<1> HIDE DEF Gone
<1>11. ASSUME Lies(x, tiling)
       PROVE  x.on = {s} /\ (Floats(x, s, tiling) \/ Tiled(x, s, tiling))
  <2>1. s \in Homes(x)
    BY DEF Homes
  <2>2. Floats(x, s, tiling) \/ Tiled(x, s, tiling)
    BY <1>6, <1>11, <2>1, LiesHome DEF Hidden
  <2> QED BY <2>2 DEF Floats, Tiled
<1>12. CASE s \in y.floating
  <2>1. PICK v \in WindowRecords : v = Unfloat(y, s)
    BY <1>5, UnfloatMoves
  <2>2. /\ Moved(v, y) /\ v.floating = y.floating \ {s} /\ v.nodes = y.nodes
        /\ v.max = y.max /\ v.told = y.told /\ v.crash = y.crash
    BY <2>1, <1>5, UnfloatMoves
  <2>3. /\ z \in WindowRecords /\ z.open = x.open
        /\ z.mini # None /\ z.mini.space = s /\ z.full = None /\ ~Sticks(z)
        /\ Flagged(z) /\ z.on = x.on /\ z.floating = v.floating /\ z.nodes = v.nodes
        /\ z.max = v.max /\ z.told = v.told /\ z.crash = v.crash
    BY <1>9, <1>10, <1>12, <2>1, <2>2
  <2>4. ASSUME Lies(x, tiling)
        PROVE  Settled(z, x, tiling)
    <3>1. Floats(x, s, tiling)
      BY <1>5, <1>11, <1>12, <2>4, NoneAssumption DEF Tiled
    <3>2. Hidden(z, s)
      BY <3>1, <2>2, <2>3, <1>5, <1>11, <2>4 DEF Hidden, Floats, Bare, NoNode
    <3> QED BY <3>2, <2>2, <2>3, <1>5 DEF Settled, Lies, ToldRight
  <2> QED BY <2>3, <2>4, <1>8 DEF Fit
<1>13. CASE s \notin y.floating /\ y.nodes[s] > 0
  <2>1. PICK v \in WindowRecords : v = Untile(y, s)
    BY <1>5, UntileMoves
  <2>2. /\ Moved(v, y) /\ v.floating = y.floating
        /\ v.nodes[s] = y.nodes[s] - 1
        /\ \A t \in Spaces \ {s} : v.nodes[t] = y.nodes[t]
        /\ v.max = y.max /\ v.told = y.told /\ v.crash = y.crash
    BY <2>1, <1>5, <1>13, UntileMoves
  <2>3. /\ z \in WindowRecords /\ z.open = x.open
        /\ z.mini # None /\ z.mini.space = s /\ z.full = None /\ ~Sticks(z)
        /\ Flagged(z) /\ z.on = x.on /\ z.floating = v.floating /\ z.nodes = v.nodes
        /\ z.max = v.max /\ z.told = v.told /\ z.crash = v.crash
    BY <1>9, <1>10, <1>13, <2>1, <2>2
  <2>4. ASSUME Lies(x, tiling)
        PROVE  Settled(z, x, tiling)
    <3>1. Tiled(x, s, tiling)
      BY <1>5, <1>11, <1>13, <2>4, NoneAssumption DEF Floats, NoNode
    <3>2. v.floating = {}
      BY <3>1, <2>2, <1>5, NoneAssumption DEF Tiled
    <3>3. Hidden(z, s)
      BY <3>1, <3>2, <2>2, <2>3, <1>5, <1>11, <2>4 DEF Hidden, Tiled, Bare, NoNode
    <3> QED BY <3>3, <2>2, <2>3, <1>5 DEF Settled, Lies, ToldRight
  <2> QED BY <2>3, <2>4, <1>8 DEF Fit
<1>14. CASE s \notin y.floating /\ ~(y.nodes[s] > 0)
  <2>1. z = Crash(y, "other")
    BY <1>9, <1>14
  <2>2. z \in WindowRecords /\ z.open = y.open /\ z.crash = "other"
    BY <2>1, <1>5 DEF Crash, WindowRecords
  <2>3. ~Lies(x, tiling)
    BY <1>5, <1>11, <1>14, NoneAssumption DEF Floats, Tiled
  <2> QED BY <2>2, <2>3, <1>5, <1>8 DEF Fit, Moved, Kept
<1> QED BY <1>12, <1>13, <1>14

\* Put into the tiling layer of s or its floating one, and maximized there.
PutDown(y, s, tile, m, layer) ==
  LET z == IF tile THEN Tile(y, s) ELSE Float(y, s)
  IN IF m THEN Maximized(z, s, layer) ELSE z

\* The fields that PutDown changes.
Down(v, s, tile, m, layer) ==
  /\ IF tile
     THEN /\ v.nodes[s] = 1 /\ \A t \in Spaces \ {s} : v.nodes[t] = 0
          /\ v.floating = IF m THEN {s} ELSE {}
     ELSE NoNode(v) /\ v.floating = {s}
  /\ v.max = IF m THEN layer ELSE None

\* Float, Tile or Maximized on s, seen as one operation.
LEMMA PutDownMoves ==
  ASSUME NEW y \in WindowRecords, NEW s \in Spaces, y.nodes[s] <= 1,
         NEW tile \in BOOLEAN, NEW m \in BOOLEAN,
         NEW layer, m => layer \in {"Floating", "Tiling"}
  PROVE  LET v == PutDown(y, s, tile, m, layer) IN
         /\ v \in WindowRecords /\ Moved(v, y) /\ v.crash = y.crash
         /\ m => v.told
         /\ ~m => v.told = y.told
         /\ Bare(y) /\ (m \/ y.max = None) => Down(v, s, tile, m, layer)
<1>1. PICK z : z = IF tile THEN Tile(y, s) ELSE Float(y, s)
  OBVIOUS
<1>2. PICK v : v = PutDown(y, s, tile, m, layer)
  OBVIOUS
<1>3. v = IF m THEN Maximized(z, s, layer) ELSE z
  BY <1>1, <1>2, Zenon DEF PutDown
<1>4. /\ z \in WindowRecords /\ Moved(z, y) /\ z.max = y.max /\ z.told = y.told
      /\ z.crash = y.crash
  BY <1>1, TileMoves, FloatMoves
<1>5. tile => /\ z.nodes[s] = y.nodes[s] + 1 /\ z.floating = y.floating
              /\ \A t \in Spaces \ {s} : z.nodes[t] = y.nodes[t]
  BY <1>1, TileMoves
<1>6. ~tile => z.nodes = y.nodes /\ z.floating = y.floating \cup {s}
  BY <1>1, FloatMoves
<1>7. CASE m
  <2>1. /\ v \in WindowRecords /\ Moved(v, z) /\ v.floating = z.floating \cup {s}
        /\ v.nodes = z.nodes /\ v.max = layer /\ v.told /\ v.crash = z.crash
    BY <1>3, <1>4, <1>7, MaximizedMoves
  <2>2. Moved(v, y)
    BY <2>1, <1>4, KeptTwice DEF Moved
  <2>3. Bare(y) /\ (m \/ y.max = None) => Down(v, s, tile, m, layer)
    BY <2>1, <1>5, <1>6, <1>7 DEF Down, Bare, NoNode
  <2> QED BY <2>1, <2>2, <2>3, <1>2, <1>4, <1>7
<1>8. CASE ~m
  <2>1. v = z
    BY <1>3, <1>8
  <2>2. Bare(y) /\ (m \/ y.max = None) => Down(v, s, tile, m, layer)
    BY <2>1, <1>4, <1>5, <1>6, <1>8 DEF Down, Bare, NoNode
  <2> QED BY <2>1, <2>2, <1>2, <1>4, <1>8
<1> QED BY <1>7, <1>8

\* A window that was in no layer and is put down on s lies right.
LEMMA DownLies ==
  ASSUME NEW v, NEW s \in Spaces, NEW tile \in BOOLEAN, NEW m \in BOOLEAN, NEW layer,
         Down(v, s, tile, m, layer), Shown(v), v.on = {s}, NEW tl,
         tile => tl[s] /\ (m => layer = "Tiling"),
         m => layer \in {"Floating", "Tiling"},
         m /\ ~tile /\ layer = "Tiling" => ~tl[s]
  PROVE  Lies(v, tl)
<1>1. CASE tile
  BY <1>1 DEF Down, Lies, Tiled
<1>2. CASE ~tile
  BY <1>2, NoneAssumption DEF Down, Lies, Floats
<1> QED BY <1>1, <1>2

\* A window that lies right and is minimized is hidden on the workspace noted.
LEMMA LiesMini ==
  ASSUME NEW x, NEW tl, Lies(x, tl), x.mini # None
  PROVE  x.mini.space \in Spaces /\ Hidden(x, x.mini.space)
BY DEF Lies, Stuck, Floats, Tiled, Fills, Hidden, Shown

\* Workspace::unminimize: the window is shown again, or fullscreen again.
LEMMA UnminimizedFits ==
  ASSUME TypeOK, NEW x \in WindowRecords, Flagged(x), Apart(x), x.mini # None
  PROVE  /\ Fit(Unminimized(x), x) /\ Unminimized(x).mini = None
         /\ Unminimized(x).sticky = x.sticky
         /\ Lies(x, tiling) => Settled(Unminimized(x), x, tiling)
<1>1. PICK m \in MinimizedWindows : m = x.mini
  BY DEF WindowRecords
<1>2. PICK s \in Spaces : s = m.space
  BY DEF MinimizedWindows
<1>3. tiling[s] \in BOOLEAN /\ m.max \in BOOLEAN
      /\ m.kind \in {"Floating", "Tiling", "Fullscreen"}
      /\ m.back \in {None} \cup WayBacks
  BY DEF TypeOK, MinimizedWindows
<1>4. PICK y : y = [x EXCEPT !.mini = None, !.minimized = FALSE]
  OBVIOUS
<1>5. /\ y \in WindowRecords /\ y.mini = None /\ ~y.minimized
      /\ y.open = x.open /\ y.full = x.full /\ y.sticky = x.sticky
      /\ y.fullscreen = x.fullscreen /\ y.stuck = x.stuck /\ y.on = x.on
      /\ y.nodes = x.nodes /\ y.floating = x.floating /\ y.max = x.max
      /\ y.told = x.told /\ y.crash = x.crash
  BY <1>4 DEF WindowRecords
<1>6. /\ x.full = None /\ ~Sticks(x) /\ \A t \in Spaces : x.nodes[t] <= 1
  BY DEF Apart
<1>7. PICK z : z = Unminimized(x)
  OBVIOUS
<1>8. Lies(x, tiling) => Hidden(x, s)
  BY <1>1, <1>2, LiesMini
<1>9. CASE m.kind = "Fullscreen"
  <2>1. PICK f \in FullscreenSurfaces : f = [space |-> s, back |-> m.back]
    BY <1>3 DEF FullscreenSurfaces
  <2>2. f # None /\ f.space = s /\ f.back = m.back
    BY <2>1, NoneAssumption DEF FullscreenSurfaces
  <2>3. z = [y EXCEPT !.full = f]
    BY <1>1, <1>2, <1>4, <1>7, <1>9, <2>1, Zenon DEF Unminimized
  <2>4. /\ z \in WindowRecords /\ z.full = f /\ z.mini = None /\ ~z.minimized
        /\ z.open = y.open /\ z.sticky = y.sticky
        /\ z.fullscreen = y.fullscreen /\ z.stuck = y.stuck /\ z.on = y.on
        /\ z.nodes = y.nodes /\ z.floating = y.floating /\ z.max = y.max
        /\ z.told = y.told /\ z.crash = y.crash
    BY <2>3, <1>5 DEF WindowRecords
  <2>5. x.fullscreen
    BY <1>1, <1>9, Zenon DEF Flagged
  <2>6. m.back # None /\ m.back.kind = "Sticky" => x.stuck
    BY <1>1, <1>9, Zenon DEF Flagged
  <2>7. Flagged(z)
    BY <2>2, <2>4, <2>5, <2>6, <1>5, <1>6 DEF Flagged, Sticks
  <2>8. Hidden(x, s) => Fills(z, s)
    BY <2>2, <2>4, <1>5 DEF Hidden, Fills, Bare, NoNode, Sticks
  <2> QED BY <2>4, <2>7, <2>8, <1>5, <1>7, <1>8 DEF Fit, Settled, Lies, ToldRight
<1>10. CASE m.kind # "Fullscreen"
  <2>1. PICK tile \in BOOLEAN : tile = (m.kind = "Tiling" /\ tiling[s])
    BY <1>3
  <2>2. z = PutDown(y, s, tile, m.max, m.kind)
    BY <1>1, <1>2, <1>4, <1>7, <1>10, <2>1, Zenon DEF Unminimized, PutDown
  <2>3. m.kind \in {"Floating", "Tiling"}
    BY <1>3, <1>10
  <2>4. y.nodes[s] <= 1
    BY <1>5, <1>6
  <2>5. /\ z \in WindowRecords /\ Moved(z, y) /\ z.crash = y.crash
        /\ m.max => z.told
        /\ ~m.max => z.told = y.told
        /\ Bare(y) /\ y.max = None => Down(z, s, tile, m.max, m.kind)
    BY <1>3, <1>5, <2>2, <2>3, <2>4, PutDownMoves
  <2>6. ~x.fullscreen
    BY <1>1, <1>6, <1>10, Zenon DEF Flagged
  <2>7. Flagged(z)
    BY <2>5, <2>6, <1>5, <1>6 DEF Flagged, Sticks, Moved, Kept
  <2>8. ASSUME Hidden(x, s)
        PROVE  Settled(z, x, tiling)
    <3>1. Down(z, s, tile, m.max, m.kind) /\ y.max = None
      BY <2>5, <2>8, <1>5 DEF Hidden, Bare, NoNode
    <3>2. Shown(z) /\ z.on = {s}
      BY <2>5, <2>8, <1>5 DEF Hidden, Shown, Moved, Kept, Sticks
    <3>3. Lies(z, tiling)
      BY <3>1, <3>2, <2>1, <2>3, <1>3, DownLies
    <3>4. ToldRight(x) => ToldRight(z)
      <4>1. z.max = IF m.max THEN m.kind ELSE None
        BY <3>1 DEF Down
      <4> QED BY <4>1, <3>1, <2>3, <2>5, <1>5, NoneAssumption DEF ToldRight
    <3> QED BY <3>3, <3>4, <2>5, <1>5 DEF Settled
  <2> QED BY <2>5, <2>7, <2>8, <1>5, <1>7, <1>8 DEF Fit, Moved, Kept
<1> QED BY <1>9, <1>10

\* A window that lies right is mapped on one workspace at most.
LEMMA LiesApart ==
  ASSUME NEW x \in WindowRecords, NEW tl, Lies(x, tl)
  PROVE  Apart(x)
BY LiesInOneLayer, OneLayerApart

-----------------------------------------------------------------------------
(* The operations of the shell on one window.                               *)

\* Only what is said of being maximized, or of the sticky layer, changes.
LEMMA UnmaximizeFits ==
  ASSUME TypeOK, NEW x \in WindowRecords, Flagged(x)
  PROVE  /\ Fit(UnmaximizeOf(x), x)
         /\ Lies(x, tiling) => Settled(UnmaximizeOf(x), x, tiling)
<1>1. PICK z : z = UnmaximizeOf(x)
  OBVIOUS
<1>2. CASE Sticks(x) /\ x.max = "Sticky"
  <2>1. z = [x EXCEPT !.max = None, !.told = FALSE]
    BY <1>1, <1>2, NoneAssumption, Zenon DEF UnmaximizeOf
  <2>2. /\ z \in WindowRecords /\ Moved(z, x) /\ z.nodes = x.nodes
        /\ z.floating = x.floating /\ z.max = None /\ ~z.told /\ z.crash = x.crash
    BY <2>1 DEF Moved, Kept, WindowRecords
  <2>3. Lies(x, tiling) => Stuck(z)
    BY <2>2, <1>2
    DEF Lies, Stuck, Floats, Tiled, Hidden, Fills, Shown, Sticks, Moved, Kept, Bare, NoNode
  <2> QED BY <1>1, <2>2, <2>3, KeptFlags DEF Fit, Settled, Lies, ToldRight, Moved, Kept
<1>3. CASE Sticks(x) /\ x.max # None /\ x.max # "Sticky"
  <2>1. z = Crash(x, "other")
    BY <1>1, <1>3, Zenon DEF UnmaximizeOf
  <2>2. z \in WindowRecords /\ z.open = x.open /\ z.crash = "other"
    BY <2>1 DEF Crash, WindowRecords
  <2>3. ~Lies(x, tiling)
    BY <1>3 DEF Lies, Stuck, Floats, Tiled, Hidden, Fills, Shown
  <2> QED BY <1>1, <2>2, <2>3 DEF Fit
<1>4. CASE ~Sticks(x) /\ Homes(x) # {}
  <2>1. PICK s \in Homes(x) : z = Unmaximized(x, s, tiling[s])
    <3>1. z = LET s == CHOOSE h \in Homes(x) : TRUE IN Unmaximized(x, s, tiling[s])
      BY <1>1, <1>4, Zenon DEF UnmaximizeOf
    <3> QED BY <3>1, <1>4
  <2>2. s \in Spaces
    BY DEF Homes
  <2>3. tiling[s] \in BOOLEAN /\ tiling \in [Spaces -> BOOLEAN]
    BY <2>2 DEF TypeOK
  <2>4. UnmaximizedTo(z, x, s, tiling[s])
    BY <2>1, <2>2, <2>3, UnmaximizedMoves
  <2>5. z \in WindowRecords /\ Kept(z, x)
    BY <2>4 DEF UnmaximizedTo
  <2>6. Lies(x, tiling) => /\ Lies(z, tiling) /\ z.crash = x.crash
                           /\ ToldRight(x) => ToldRight(z)
    BY <2>3, <2>4, UnmaximizedLies
  <2>7. Flagged(z)
    BY <2>5, KeptFlags
  <2> QED BY <1>1, <2>5, <2>6, <2>7 DEF Fit, Settled, Kept
<1>5. CASE (Sticks(x) /\ x.max = None) \/ (~Sticks(x) /\ Homes(x) = {})
  <2>1. z = x
    BY <1>1, <1>5, Zenon DEF UnmaximizeOf
  <2> QED BY <1>1, <2>1 DEF Fit, Settled
<1> QED BY <1>2, <1>3, <1>4, <1>5

\* unminimize_request, also for sticky windows.
LEMMA UnminimizeFits ==
  ASSUME TypeOK, NEW x \in WindowRecords, Flagged(x), Apart(x)
  PROVE  /\ Fit(UnminimizeOf(x), x) /\ UnminimizeOf(x).mini = None
         /\ Sticks(UnminimizeOf(x)) => Homes(UnminimizeOf(x)) = {}
         /\ Lies(x, tiling) => Settled(UnminimizeOf(x), x, tiling)
<1>1. PICK z : z = UnminimizeOf(x)
  OBVIOUS
<1>2. CASE x.sticky = "minimized"
  <2>1. z = [x EXCEPT !.sticky = "shown"]
    BY <1>1, <1>2, Zenon DEF UnminimizeOf
  <2>2. /\ z \in WindowRecords /\ z.sticky = "shown"
        /\ z.mini = x.mini /\ z.minimized = x.minimized
        /\ z.open = x.open /\ z.full = x.full
        /\ z.fullscreen = x.fullscreen /\ z.stuck = x.stuck /\ z.on = x.on
        /\ z.nodes = x.nodes /\ z.floating = x.floating /\ z.max = x.max
        /\ z.told = x.told /\ z.crash = x.crash
    BY <2>1 DEF WindowRecords
  <2>3. x.mini = None
    BY <1>2 DEF Apart, Sticks
  <2>4. Flagged(z)
    BY <2>2, <1>2 DEF Flagged, Sticks
  <2>5. Lies(x, tiling) => Stuck(z)
    BY <2>2, <1>2
    DEF Lies, Stuck, Floats, Tiled, Hidden, Fills, Shown, Sticks, Bare, NoNode
  <2>6. Homes(z) = {}
    BY <2>2, <2>3, <1>2 DEF Homes, Mapped, Apart, Sticks
  <2> QED BY <1>1, <2>2, <2>3, <2>4, <2>5, <2>6 DEF Fit, Settled, Lies, ToldRight
<1>3. CASE x.sticky # "minimized" /\ x.mini # None
  <2>1. z = Unminimized(x)
    BY <1>1, <1>3, Zenon DEF UnminimizeOf
  <2>2. ~Sticks(x)
    BY <1>3 DEF Apart
  <2>3. z.sticky = x.sticky
    BY <1>3, <2>1, UnminimizedFits
  <2> QED BY <1>1, <1>3, <2>1, <2>2, <2>3, UnminimizedFits DEF Sticks
<1>4. CASE x.sticky # "minimized" /\ x.mini = None
  <2>1. z = x
    BY <1>1, <1>4, Zenon DEF UnminimizeOf
  <2>2. Sticks(x) => Homes(x) = {}
    BY <1>4 DEF Homes, Apart
  <2> QED BY <1>1, <1>4, <2>1, <2>2 DEF Fit, Settled
<1> QED BY <1>2, <1>3, <1>4

\* minimize_request, from every layer.
LEMMA MinimizeFits ==
  ASSUME TypeOK, NEW x \in WindowRecords, Flagged(x), Apart(x)
  PROVE  /\ Fit(MinimizeOf(x), x)
         /\ Lies(x, tiling) => Settled(MinimizeOf(x), x, tiling)
<1>1. PICK z : z = MinimizeOf(x)
  OBVIOUS
<1>2. CASE x.sticky = "shown"
  <2>1. z = [x EXCEPT !.sticky = "minimized"]
    BY <1>1, <1>2, Zenon DEF MinimizeOf, Apart, Sticks
  <2>2. /\ z \in WindowRecords /\ z.sticky = "minimized"
        /\ z.mini = x.mini /\ z.minimized = x.minimized
        /\ z.open = x.open /\ z.full = x.full
        /\ z.fullscreen = x.fullscreen /\ z.stuck = x.stuck /\ z.on = x.on
        /\ z.nodes = x.nodes /\ z.floating = x.floating /\ z.max = x.max
        /\ z.told = x.told /\ z.crash = x.crash
    BY <2>1 DEF WindowRecords
  <2>3. Flagged(z)
    BY <2>2, <1>2 DEF Flagged, Sticks
  <2>4. Lies(x, tiling) => Stuck(z)
    BY <2>2, <1>2
    DEF Lies, Stuck, Floats, Tiled, Hidden, Fills, Shown, Sticks, Bare, NoNode
  <2> QED BY <1>1, <2>2, <2>3, <2>4 DEF Fit, Settled, Lies, ToldRight
<1>3. CASE x.sticky # "shown" /\ x.full # None
  <2>1. PICK f \in FullscreenSurfaces : f = x.full
    BY <1>3 DEF WindowRecords
  <2>2. f.space \in Spaces /\ f.back \in {None} \cup WayBacks
    BY DEF FullscreenSurfaces
  <2>3. PICK m \in MinimizedWindows :
          m = [space |-> f.space, kind |-> "Fullscreen", max |-> FALSE, back |-> f.back]
    BY <2>2 DEF MinimizedWindows
  <2>4. m # None /\ m.space = f.space /\ m.kind = "Fullscreen" /\ m.back = f.back
    BY <2>3, NoneAssumption DEF MinimizedWindows
  <2>5. z = [x EXCEPT !.full = None, !.minimized = TRUE, !.mini = m]
    BY <1>1, <1>3, <2>1, <2>3, Zenon DEF MinimizeOf
  <2>6. /\ z \in WindowRecords /\ z.sticky = x.sticky /\ z.mini = m /\ z.minimized
        /\ z.open = x.open /\ z.full = None
        /\ z.fullscreen = x.fullscreen /\ z.stuck = x.stuck /\ z.on = x.on
        /\ z.nodes = x.nodes /\ z.floating = x.floating /\ z.max = x.max
        /\ z.told = x.told /\ z.crash = x.crash
    BY <2>5 DEF WindowRecords
  <2>7. x.fullscreen /\ (f.back # None /\ f.back.kind = "Sticky" => x.stuck)
    BY <1>3, <2>1, Zenon DEF Flagged
  <2>8. ~Sticks(x)
    BY <1>3 DEF Apart
  <2>9. Flagged(z)
    BY <2>4, <2>6, <2>7, <2>8 DEF Flagged, Sticks
  <2>10. ASSUME Lies(x, tiling)
         PROVE  Hidden(z, f.space)
    <3>1. Fills(x, f.space)
      BY <1>3, <2>1, <2>10 DEF Lies, Stuck, Floats, Tiled, Hidden, Fills, Shown
    <3> QED BY <3>1, <2>4, <2>6 DEF Fills, Hidden, Bare, NoNode, Sticks
  <2> QED BY <1>1, <2>2, <2>6, <2>9, <2>10 DEF Fit, Settled, Lies, ToldRight
<1>4. CASE x.sticky # "shown" /\ x.full = None /\ \E s \in Spaces : Mapped(x, s)
  <2>1. PICK s \in Spaces : Mapped(x, s) /\ z = MinimizedFrom(x, s)
    <3>1. z = MinimizedFrom(x, CHOOSE s \in Spaces : Mapped(x, s))
      BY <1>1, <1>4, Zenon DEF MinimizeOf
    <3>2. PICK s : s = CHOOSE t \in Spaces : Mapped(x, t)
      OBVIOUS
    <3>3. s \in Spaces /\ Mapped(x, s)
      BY <3>2, <1>4, Zenon
    <3> QED BY <3>1, <3>2, <3>3
  <2> QED BY <1>1, <2>1, MinimizedFromFits
<1>5. CASE x.sticky # "shown" /\ x.full = None /\ \A s \in Spaces : ~Mapped(x, s)
  <2>1. z = x
    BY <1>1, <1>5, Zenon DEF MinimizeOf
  <2> QED BY <1>1, <2>1 DEF Fit, Settled
<1> QED BY <1>2, <1>3, <1>4, <1>5

\* maximize_request, which unminimizes first.
LEMMA MaximizeFits ==
  ASSUME TypeOK, NEW x \in WindowRecords, Flagged(x), Apart(x)
  PROVE  /\ Fit(MaximizeOf(x), x)
         /\ Lies(x, tiling) => Settled(MaximizeOf(x), x, tiling)
<1>1. PICK y : y = UnminimizeOf(x)
  OBVIOUS
<1>2. /\ y \in WindowRecords /\ y.open = x.open /\ (y.crash = "no" => Flagged(y))
      /\ y.mini = None /\ (Sticks(y) => Homes(y) = {}) /\ (Lies(x, tiling) => Settled(y, x, tiling))
  BY <1>1, UnminimizeFits DEF Fit
<1>3. PICK z : z = MaximizeOf(x)
  OBVIOUS
<1>4. CASE y.max # None
  <2>1. z = y
    BY <1>1, <1>3, <1>4, Zenon DEF MaximizeOf
  <2> QED BY <1>2, <1>3, <2>1 DEF Fit
<1>5. CASE y.max = None /\ y.sticky = "shown"
  <2>1. z = [y EXCEPT !.max = "Sticky", !.told = TRUE]
    <3>1. Homes(y) = {}
      BY <1>2, <1>5 DEF Sticks
    <3> QED BY <1>1, <1>3, <1>5, <3>1, Zenon DEF MaximizeOf
  <2>2. /\ z \in WindowRecords /\ Moved(z, y) /\ z.floating = y.floating
        /\ z.nodes = y.nodes /\ z.max = "Sticky" /\ z.told /\ z.crash = y.crash
    BY <2>1, <1>2 DEF Moved, Kept, WindowRecords
  <2>3. Lies(y, tiling) => Stuck(z)
    BY <2>2, <1>5
    DEF Lies, Stuck, Floats, Tiled, Hidden, Fills, Shown, Sticks, Bare, NoNode, Moved, Kept
  <2> QED BY <1>2, <1>3, <2>2, <2>3, KeptFlags, NoneAssumption
          DEF Fit, Settled, Lies, ToldRight, Moved, Kept
<1>6. CASE y.max = None /\ y.sticky # "shown" /\ Homes(y) # {}
  <2>1. PICK s \in Homes(y) :
          z = Maximized(y, s, IF IsTiled(y, s) THEN "Tiling" ELSE "Floating")
    <3>1. z = LET s == CHOOSE h \in Homes(y) : TRUE
              IN Maximized(y, s, IF IsTiled(y, s) THEN "Tiling" ELSE "Floating")
      BY <1>1, <1>3, <1>6, Zenon DEF MaximizeOf
    <3> QED BY <3>1, <1>6
  <2>2. PICK layer \in {"Floating", "Tiling"} :
          layer = IF IsTiled(y, s) THEN "Tiling" ELSE "Floating"
    OBVIOUS
  <2>3. s \in Spaces
    BY DEF Homes
  <2>4. /\ z \in WindowRecords /\ Moved(z, y) /\ z.floating = y.floating \cup {s}
        /\ z.nodes = y.nodes /\ z.max = layer /\ z.told /\ z.crash = y.crash
    BY <2>1, <2>2, <2>3, <1>2, MaximizedMoves
  <2>5. Lies(y, tiling) => Lies(z, tiling)
    <3>1. ASSUME Floats(y, s, tiling)
          PROVE  Floats(z, s, tiling)
      <4>1. layer = "Floating"
        BY <3>1, <2>2, <2>3, <1>2 DEF IsTiled, Floats, NoNode
      <4> QED BY <3>1, <4>1, <2>4
              DEF Floats, NoNode, Shown, Sticks, Moved, Kept
    <3>2. ASSUME Tiled(y, s, tiling)
          PROVE  Tiled(z, s, tiling)
      <4>1. layer = "Tiling"
        BY <3>2, <2>2 DEF IsTiled, Tiled
      <4> QED BY <3>2, <4>1, <2>4, <1>6, NoneAssumption
              DEF Tiled, Shown, Sticks, Moved, Kept
    <3>3. Lies(y, tiling) => Floats(y, s, tiling) \/ Tiled(y, s, tiling)
      BY <1>2, LiesHome DEF Hidden
    <3> QED BY <3>1, <3>2, <3>3, <2>3 DEF Lies
  <2> QED BY <1>2, <1>3, <2>4, <2>5, KeptFlags, NoneAssumption
          DEF Fit, Settled, ToldRight, Moved, Kept
<1>7. CASE y.max = None /\ y.sticky # "shown" /\ Homes(y) = {}
  <2>1. z = y
    BY <1>1, <1>3, <1>7, Zenon DEF MaximizeOf
  <2> QED BY <1>2, <1>3, <2>1 DEF Fit
<1> QED BY <1>4, <1>5, <1>6, <1>7

\* What the client has acknowledged is what holds.
Acked(x) == x.acked <=> x.max # None

\* toggle_floating_window on s: between the tree and the floating layer, if the
\* client has acknowledged whether the window is maximized.
LEMMA FloatingToggledMoves ==
  ASSUME TypeOK, NEW x \in WindowRecords, NEW s \in Spaces
  PROVE  /\ FloatingToggled(x, s) \in WindowRecords /\ Kept(FloatingToggled(x, s), x)
         /\ Lies(x, tiling) /\ Acked(x) /\ s \in Homes(x) =>
              Settled(FloatingToggled(x, s), x, tiling)
         /\ Stuck(x) /\ Acked(x) =>
              FloatingToggled(x, s) = x \/ FloatingToggled(x, s).crash = "Sticky"
<1>1. tiling[s] \in BOOLEAN /\ tiling \in [Spaces -> BOOLEAN]
  BY DEF TypeOK
<1>2. PICK u : u = IF x.acked THEN Unmaximized(x, s, TRUE) ELSE x
  OBVIOUS
<1>3. x.acked => UnmaximizedTo(u, x, s, TRUE)
  BY <1>2, UnmaximizedMoves
<1>4. ~x.acked => u = x
  BY <1>2
<1>5. u \in WindowRecords /\ Kept(u, x) /\ u.nodes = x.nodes
  BY <1>3, <1>4 DEF UnmaximizedTo, Kept
<1>6. u.nodes[s] \in 0 .. 2
  BY <1>5 DEF WindowRecords
<1>7. PICK z : z = FloatingToggled(x, s)
  OBVIOUS
<1>8. ASSUME tiling[s], Lies(x, tiling), Acked(x), s \in Homes(x)
      PROVE  /\ u.crash = x.crash /\ u.max = None /\ (ToldRight(x) => ~u.told)
             /\ \/ Floats(u, s, tiling)
                \/ Tiled(u, s, tiling) /\ u.floating = {}
                \/ Hidden(u, s)
  <2>1. Floats(x, s, tiling) \/ Tiled(x, s, tiling) \/ Hidden(x, s)
    BY <1>8, LiesHome
  <2>2. CASE x.acked
    <3>1. tiling[s] = TRUE
      BY <1>1, <1>8
    <3>2. UnmaximizedTo(u, x, s, tiling[s])
      BY <1>3, <2>2, <3>1
    <3>3. /\ Floats(x, s, tiling) => Floats(u, s, tiling)
          /\ Tiled(x, s, tiling) => Tiled(u, s, tiling) /\ u.floating = {}
          /\ Hidden(x, s) => Hidden(u, s)
          /\ u.max = None /\ u.crash = x.crash /\ (ToldRight(x) => ToldRight(u))
      <4>1. Lies(x, tiling) /\ s \in Homes(x)
        BY <1>8
      <4> QED BY <1>1, <3>2, <4>1, UnmaximizedLies
    <3> QED BY <2>1, <3>3 DEF ToldRight
  <2>3. CASE ~x.acked
    BY <1>4, <1>8, <2>1, <2>3, NoneAssumption DEF Acked, ToldRight, Tiled
  <2> QED BY <2>2, <2>3
<1>9. ASSUME tiling[s], Stuck(x), Acked(x)
      PROVE  /\ u = x \/ u.crash = "Sticky"
             /\ ~Mapped(u, s)
             /\ u.crash # "Sticky" => u = x
  <2>1. CASE x.acked
    <3>1. x.max = "Sticky" /\ x.mini = None
      BY <1>9, <2>1 DEF Stuck, Acked
    <3>2. u = Crash(x, "Sticky")
      BY <1>2, <2>1, <3>1, NoneAssumption DEF Unmaximized
    <3>3. u.crash = "Sticky" /\ u.floating = x.floating /\ u.nodes = x.nodes
      BY <3>2 DEF Crash, WindowRecords
    <3> QED BY <3>3, <1>9 DEF Stuck, Bare, NoNode, Mapped
  <2>2. CASE ~x.acked
    BY <1>4, <1>9, <2>2 DEF Stuck, Bare, NoNode, Mapped
  <2> QED BY <2>1, <2>2
<1>10. CASE tiling[s] /\ u.nodes[s] > 0
  <2>1. z = Float(Untile(u, s), s)
    <3>1. ~(u.nodes[s] = 0) /\ Mapped(u, s)
      BY <1>6, <1>10 DEF Mapped
    <3> QED BY <1>2, <1>7, <1>10, <3>1, Zenon DEF FloatingToggled
  <2>2. PICK v \in WindowRecords : v = Untile(u, s)
    BY <1>5, UntileMoves
  <2>3. /\ Moved(v, u) /\ v.floating = u.floating /\ v.max = u.max
        /\ v.nodes[s] = u.nodes[s] - 1
        /\ \A t \in Spaces \ {s} : v.nodes[t] = u.nodes[t]
        /\ v.told = u.told /\ v.crash = u.crash
    BY <2>2, <1>5, <1>10, UntileMoves
  <2>4. /\ z \in WindowRecords /\ Moved(z, v) /\ z.floating = v.floating \cup {s}
        /\ z.nodes = v.nodes /\ z.max = v.max /\ z.told = v.told /\ z.crash = v.crash
    BY <2>1, <2>2, FloatMoves
  <2>5. Kept(z, u) /\ Kept(z, x)
    BY <2>3, <2>4, <1>5, KeptTwice DEF Moved
  <2>6. ASSUME Lies(x, tiling), Acked(x), s \in Homes(x)
        PROVE  Settled(z, x, tiling)
    <3>1. Tiled(u, s, tiling) /\ u.floating = {}
      BY <1>8, <1>10, <2>6 DEF Floats, Hidden, Bare, NoNode
    <3>2. Floats(z, s, tiling)
      BY <3>1, <2>3, <2>4, <1>8, <1>10, <2>6, NoneAssumption
      DEF Tiled, Floats, NoNode, Shown, Sticks, Moved, Kept
    <3> QED BY <3>2, <2>3, <2>4, <1>8, <1>10, <2>6 DEF Settled, Lies, ToldRight
  <2>7. ~(Stuck(x) /\ Acked(x))
    BY <1>9, <1>10 DEF Mapped
  <2> QED BY <1>7, <2>4, <2>5, <2>6, <2>7
<1>11. CASE tiling[s] /\ u.nodes[s] = 0 /\ s \in u.floating
  <2>1. z = Tile(Unfloat(u, s), s)
    <3>1. ~(u.nodes[s] > 0) /\ Mapped(u, s)
      BY <1>6, <1>11 DEF Mapped
    <3> QED BY <1>2, <1>7, <1>11, <3>1, Zenon DEF FloatingToggled
  <2>2. PICK v \in WindowRecords : v = Unfloat(u, s)
    BY <1>5, UnfloatMoves
  <2>3. /\ Moved(v, u) /\ v.floating = u.floating \ {s} /\ v.max = u.max
        /\ v.nodes = u.nodes /\ v.told = u.told /\ v.crash = u.crash
    BY <2>2, <1>5, UnfloatMoves
  <2>4. /\ z \in WindowRecords /\ Moved(z, v) /\ z.floating = v.floating
        /\ z.nodes[s] = 1 /\ \A t \in Spaces \ {s} : z.nodes[t] = v.nodes[t]
        /\ z.max = v.max /\ z.told = v.told /\ z.crash = v.crash
    BY <2>1, <2>2, <2>3, <1>11, TileMoves
  <2>5. Kept(z, u) /\ Kept(z, x)
    BY <2>3, <2>4, <1>5, KeptTwice DEF Moved
  <2>6. ASSUME Lies(x, tiling), Acked(x), s \in Homes(x)
        PROVE  Settled(z, x, tiling)
    <3>1. Floats(u, s, tiling)
      BY <1>8, <1>11, <2>6 DEF Tiled, Hidden, Bare
    <3>2. Tiled(z, s, tiling)
      BY <3>1, <2>3, <2>4, <1>8, <1>11, <2>6
      DEF Tiled, Floats, NoNode, Shown, Sticks, Moved, Kept
    <3> QED BY <3>2, <2>3, <2>4, <1>8, <1>11, <2>6 DEF Settled, Lies, ToldRight
  <2>7. ~(Stuck(x) /\ Acked(x))
    BY <1>9, <1>11 DEF Mapped
  <2> QED BY <1>7, <2>4, <2>5, <2>6, <2>7
<1>12. CASE tiling[s] /\ ~Mapped(u, s)
  <2>1. z = u
    BY <1>2, <1>6, <1>7, <1>12 DEF FloatingToggled, Mapped
  <2>2. ASSUME Lies(x, tiling), Acked(x), s \in Homes(x)
        PROVE  Settled(z, x, tiling)
    <3>1. Hidden(u, s) /\ s \in Spaces
      BY <1>8, <1>12, <2>2 DEF Tiled, Floats, Mapped
    <3> QED BY <3>1, <2>1, <1>8, <1>12, <2>2 DEF Settled, Lies, ToldRight
  <2> QED BY <1>5, <1>7, <1>9, <1>12, <2>1, <2>2
<1>13. CASE ~tiling[s]
  <2>1. z = x
    BY <1>2, <1>7, <1>13, Zenon DEF FloatingToggled
  <2> QED BY <1>7, <2>1 DEF Settled, Kept
<1> QED BY <1>6, <1>10, <1>11, <1>12, <1>13 DEF Mapped

\* In tl the tiling of s is set to b.
LEMMA TilingSetMoves ==
  ASSUME TypeOK, NEW x \in WindowRecords, NEW s \in Spaces, NEW b \in BOOLEAN,
         b => x.nodes[s] <= 1
  PROVE  /\ TilingSet(x, s, b) \in WindowRecords /\ Kept(TilingSet(x, s, b), x)
         /\ ~Mapped(x, s) => TilingSet(x, s, b) = x
         /\ \A tl : /\ Lies(x, tiling) /\ (Mapped(x, s) => Acked(x))
                    /\ tl[s] = b /\ tiling[s] # b
                    /\ \A t \in Spaces \ {s} : tl[t] = tiling[t]
                    => Settled(TilingSet(x, s, b), x, tl)
<1>1. tiling[s] \in BOOLEAN /\ tiling \in [Spaces -> BOOLEAN]
  BY DEF TypeOK
<1>2. PICK u : u = IF x.acked THEN Unmaximized(x, s, TRUE) ELSE x
  OBVIOUS
<1>3. x.acked => UnmaximizedTo(u, x, s, TRUE)
  BY <1>2, UnmaximizedMoves
<1>4. ~x.acked => u = x
  BY <1>2
<1>5. u \in WindowRecords /\ Kept(u, x) /\ u.nodes = x.nodes
  BY <1>3, <1>4 DEF UnmaximizedTo, Kept
<1>6. \A t \in Spaces : x.nodes[t] \in 0 .. 2
  BY DEF WindowRecords
<1>7. PICK z : z = TilingSet(x, s, b)
  OBVIOUS
<1>8. ASSUME Lies(x, tiling), Mapped(x, s), Acked(x)
      PROVE  s \in Homes(x) /\ (Floats(x, s, tiling) \/ Tiled(x, s, tiling))
  <2>1. s \in Homes(x)
    BY <1>8 DEF Homes
  <2> QED BY <2>1, <1>8, LiesHome DEF Hidden, Bare, NoNode, Mapped
<1>9. PICK m \in BOOLEAN : m = x.acked
  BY DEF WindowRecords
<1>10. CASE b /\ s \in x.floating
  <2>1. PICK v \in WindowRecords : v = Unfloat(x, s)
    BY UnfloatMoves
  <2>2. /\ Moved(v, x) /\ v.floating = x.floating \ {s} /\ v.max = x.max
        /\ v.nodes = x.nodes /\ v.told = x.told /\ v.crash = x.crash
    BY <2>1, UnfloatMoves
  <2>3. z = PutDown(v, s, b, m, "Tiling")
    BY <1>7, <1>9, <1>10, <2>1, Zenon DEF TilingSet, PutDown
  <2>4. /\ z \in WindowRecords /\ Moved(z, v) /\ z.crash = v.crash
        /\ m => z.told
        /\ ~m => z.told = v.told
        /\ Bare(v) /\ (m \/ v.max = None) => Down(z, s, b, m, "Tiling")
    <3>1. v.nodes[s] <= 1
      BY <1>10, <2>2
    <3> QED BY <2>3, <3>1, PutDownMoves
  <2>5. Kept(z, x)
    BY <2>2, <2>4, KeptTwice DEF Moved
  <2>6. ASSUME NEW tl, Lies(x, tiling), Mapped(x, s) => Acked(x), tl[s] = b, tiling[s] # b
        PROVE  Settled(z, x, tl)
    <3>1. Floats(x, s, tiling) /\ Acked(x)
      BY <1>1, <1>8, <1>10, <2>6 DEF Mapped, Tiled
    <3>2. Bare(v) /\ (m \/ v.max = None)
      BY <3>1, <2>2, <1>9 DEF Floats, Bare, NoNode, Acked
    <3>3. Down(z, s, b, m, "Tiling")
      BY <3>2, <2>4
    <3>4. Shown(z) /\ z.on = {s}
      BY <3>1, <2>2, <2>4 DEF Floats, Shown, Sticks, Moved, Kept
    <3>5. Lies(z, tl)
      BY <3>3, <3>4, <1>9, <1>10, <2>6, DownLies
    <3>6. ToldRight(x) => ToldRight(z)
      BY <3>1, <3>3, <2>2, <2>4, <1>9, <1>10, NoneAssumption DEF ToldRight, Acked, Down
    <3> QED BY <3>5, <3>6, <2>2, <2>4 DEF Settled
  <2> QED BY <1>7, <1>10, <2>4, <2>5, <2>6 DEF Mapped
<1>11. CASE ~b /\ x.nodes[s] > 0
  <2>1. PICK v \in WindowRecords : v = Untile(u, s)
    BY <1>5, UntileMoves
  <2>2. /\ Moved(v, u) /\ v.floating = u.floating /\ v.max = u.max
        /\ v.nodes[s] = u.nodes[s] - 1
        /\ \A t \in Spaces \ {s} : v.nodes[t] = u.nodes[t]
        /\ v.told = u.told /\ v.crash = u.crash
    BY <2>1, <1>5, <1>11, UntileMoves
  <2>3. z = PutDown(v, s, b, m, "Floating")
    BY <1>2, <1>7, <1>9, <1>11, <2>1, Zenon DEF TilingSet, PutDown
  <2>4. v.nodes[s] <= 1
    BY <2>2, <1>5, <1>6
  <2>5. /\ z \in WindowRecords /\ Moved(z, v) /\ z.crash = v.crash
        /\ m => z.told
        /\ ~m => z.told = v.told
        /\ Bare(v) /\ (m \/ v.max = None) => Down(z, s, b, m, "Floating")
    BY <1>9, <1>11, <2>1, <2>3, <2>4, PutDownMoves
  <2>6. Kept(z, u) /\ Kept(z, x)
    BY <2>2, <2>5, <1>5, KeptTwice DEF Moved
  <2>7. ASSUME NEW tl, Lies(x, tiling), Mapped(x, s) => Acked(x), tl[s] = b, tiling[s] # b
        PROVE  Settled(z, x, tl)
    <3>1. Mapped(x, s) /\ Acked(x)
      BY <1>11, <2>7 DEF Mapped
    <3>2. Tiled(x, s, tiling) /\ s \in Homes(x)
      BY <1>8, <1>11, <2>7, <3>1 DEF Floats, NoNode
    <3>3. /\ Tiled(u, s, tiling) /\ u.floating = {} /\ u.max = None
          /\ u.crash = x.crash /\ (ToldRight(x) => ~u.told)
      <4>1. CASE x.acked
        <5>1. tiling[s] = TRUE
          BY <1>1, <1>11, <2>7
        <5>2. UnmaximizedTo(u, x, s, tiling[s])
          BY <1>3, <4>1, <5>1
        <5>3. /\ Tiled(u, s, tiling) /\ u.floating = {} /\ u.max = None
              /\ u.crash = x.crash /\ (ToldRight(x) => ToldRight(u))
          BY <1>1, <2>7, <3>2, <5>2, UnmaximizedLies
        <5> QED BY <5>3 DEF ToldRight
      <4>2. CASE ~x.acked
        BY <1>4, <3>1, <3>2, <4>2, NoneAssumption DEF Acked, ToldRight, Tiled
      <4> QED BY <4>1, <4>2
    <3>4. Bare(v)
      BY <3>3, <2>2 DEF Tiled, Bare, NoNode
    <3>5. Down(z, s, b, m, "Floating")
      BY <3>3, <3>4, <2>2, <2>5
    <3>6. Shown(z) /\ z.on = {s}
      BY <3>3, <2>2, <2>5 DEF Tiled, Shown, Sticks, Moved, Kept
    <3>7. Lies(z, tl)
      BY <3>5, <3>6, <1>9, <1>11, <2>7, DownLies
    <3>8. ToldRight(x) => ToldRight(z)
      BY <3>3, <3>5, <2>2, <2>5, <1>9, <1>11, NoneAssumption DEF ToldRight, Down
    <3> QED BY <3>3, <3>7, <3>8, <2>2, <2>5 DEF Settled
  <2> QED BY <1>7, <1>11, <2>5, <2>6, <2>7 DEF Mapped
<1>12. CASE ~(b /\ s \in x.floating) /\ ~(~b /\ x.nodes[s] > 0)
  <2>1. z = x
    BY <1>7, <1>12, Zenon DEF TilingSet
  <2>2. ASSUME NEW tl, Lies(x, tiling), tl[s] = b, tiling[s] # b,
               \A t \in Spaces \ {s} : tl[t] = tiling[t]
        PROVE  Lies(x, tl)
    <3>1. ASSUME NEW t \in Spaces, Floats(x, t, tiling)
          PROVE  Floats(x, t, tl)
      BY <3>1, <1>1, <1>12, <2>2 DEF Floats
    <3>2. ASSUME NEW t \in Spaces, Tiled(x, t, tiling)
          PROVE  Tiled(x, t, tl)
      BY <3>2, <1>1, <1>12, <2>2 DEF Tiled
    <3> QED BY <3>1, <3>2, <2>2 DEF Lies
  <2> QED BY <1>7, <2>1, <2>2 DEF Settled, Kept
<1> QED BY <1>10, <1>11, <1>12

\* The data that unmap_element returns is of its type.
LEMMA WayBackFits ==
  ASSUME NEW x \in WindowRecords, NEW s \in Homes(x), x.mini = None
  PROVE  /\ WayBack(x, s) \in WayBacks /\ WayBack(x, s).kind \in {"Floating", "Tiling"}
         /\ WayBack(x, s).kind = "Tiling" <=> x.nodes[s] > 0
         /\ WayBack(x, s).max = (x.max # None) /\ WayBack(x, s).space = s
<1>1. PICK k \in {"Floating", "Tiling"} : k = IF x.nodes[s] > 0 THEN "Tiling" ELSE "Floating"
  OBVIOUS
<1>2. PICK m \in BOOLEAN : m = (x.max # None)
  OBVIOUS
<1>3. PICK b : b = WayBack(x, s)
  OBVIOUS
<1>4. b = [kind |-> k, space |-> s, max |-> m]
  BY <1>1, <1>2, <1>3, Zenon DEF WayBack
<1>5. s \in Spaces
  BY DEF Homes
<1>6. b \in WayBacks /\ b.kind = k /\ b.max = m /\ b.space = s
  BY <1>4, <1>5 DEF WayBacks
<1> QED BY <1>1, <1>2, <1>3, <1>6

\* map_fullscreen of a window that was taken out of its layer.
LEMMA MadeFullscreenMoves ==
  ASSUME NEW x \in WindowRecords, NEW s \in Spaces, NEW back \in {None} \cup WayBacks
  PROVE  LET z == MadeFullscreen(x, s, back) IN
         /\ z \in WindowRecords /\ z.open = x.open /\ z.crash = x.crash
         /\ /\ Flagged(x) /\ x.mini = None
            /\ back # None /\ back.kind = "Sticky" => x.stuck
            => Flagged(z)
         /\ z.told = x.told /\ z.max = None /\ z.on = x.on /\ z.mini = x.mini
         /\ z.full # None /\ z.full.space = s /\ z.sticky = x.sticky
         /\ Bare(x) => Bare(z)
         /\ Bare(x) /\ x.mini = None /\ ~Sticks(x) /\ x.on = {s} => Fills(z, s)
<1>1. PICK f \in FullscreenSurfaces : f = [space |-> s, back |-> back]
  BY DEF FullscreenSurfaces
<1>2. f # None /\ f.space = s /\ f.back = back
  BY <1>1, NoneAssumption DEF FullscreenSurfaces
<1>3. PICK z : z = MadeFullscreen(x, s, back)
  OBVIOUS
<1>4. z = [x EXCEPT !.fullscreen = TRUE, !.full = f, !.max = None, !.before = None]
  BY <1>1, <1>3, Zenon DEF MadeFullscreen
<1>5. /\ z \in WindowRecords /\ z.open = x.open /\ z.crash = x.crash
      /\ z.fullscreen /\ z.full = f /\ z.max = None /\ z.told = x.told
      /\ z.mini = x.mini /\ z.minimized = x.minimized /\ z.sticky = x.sticky
      /\ z.stuck = x.stuck /\ z.floating = x.floating /\ z.nodes = x.nodes
      /\ z.on = x.on
  BY <1>4 DEF WindowRecords
<1>6. ASSUME Flagged(x), x.mini = None, back # None /\ back.kind = "Sticky" => x.stuck
      PROVE  Flagged(z)
  BY <1>2, <1>5, <1>6 DEF Flagged, Sticks
<1>7. Bare(x) /\ x.mini = None /\ ~Sticks(x) /\ x.on = {s} => Fills(z, s)
  BY <1>2, <1>5 DEF Fills, Bare, NoNode, Sticks
<1>8. Bare(x) => Bare(z)
  BY <1>5 DEF Bare, NoNode
<1> QED BY <1>2, <1>3, <1>5, <1>6, <1>7, <1>8

\* fullscreen_request, from a layer of a workspace or from the sticky one.
LEMMA FullscreenFits ==
  ASSUME TypeOK, NEW x \in WindowRecords, Flagged(x), Apart(x)
  PROVE  /\ Fit(FullscreenOf(x), x)
         /\ Lies(x, tiling) => Settled(FullscreenOf(x), x, tiling)
<1>1. active \in Spaces
  BY DEF TypeOK
<1>2. PICK z : z = FullscreenOf(x)
  OBVIOUS
<1>3. CASE x.sticky = "shown"
  <2>1. PICK b \in WayBacks : b = [kind |-> "Sticky", space |-> active, max |-> x.max # None]
    <3>1. PICK m \in BOOLEAN : m = (x.max # None)
      OBVIOUS
    <3>2. [kind |-> "Sticky", space |-> active, max |-> m] \in WayBacks
      BY <1>1 DEF WayBacks
    <3> QED BY <3>1, <3>2
  <2>2. PICK t \in BOOLEAN : t = IF x.max = None THEN x.told ELSE FALSE
    BY DEF WindowRecords
  <2>3. PICK on \in SUBSET Spaces : on = x.on \cup {active}
    BY <1>1 DEF WindowRecords
  <2>4. PICK y : y = [x EXCEPT !.sticky = "no", !.told = t, !.on = on]
    OBVIOUS
  <2>5. /\ y \in WindowRecords /\ y.open = x.open /\ y.full = x.full
        /\ y.fullscreen = x.fullscreen /\ y.crash = x.crash
        /\ y.mini = x.mini /\ y.minimized = x.minimized /\ y.sticky = "no"
        /\ y.stuck = x.stuck /\ y.floating = x.floating /\ y.nodes = x.nodes
        /\ y.on = on /\ y.told = t
    BY <2>4 DEF WindowRecords
  <2>6. z = MadeFullscreen(y, active, b)
    <3>1. z = MadeFullscreen(
                [x EXCEPT !.sticky = "no", !.told = IF x.max = None THEN @ ELSE FALSE,
                          !.on = @ \cup {active}],
                active, [kind |-> "Sticky", space |-> active, max |-> x.max # None])
      BY <1>2, <1>3, Zenon DEF FullscreenOf
    <3>2. y = [x EXCEPT !.sticky = "no", !.told = IF x.max = None THEN @ ELSE FALSE,
                        !.on = @ \cup {active}]
      BY <2>2, <2>3, <2>4 DEF WindowRecords
    <3> QED BY <3>1, <3>2, <2>1
  <2>7. Sticks(x) /\ x.mini = None /\ x.stuck /\ ~Sticks(y)
    BY <1>3, <2>5 DEF Sticks, Apart, Flagged
  <2>8. Flagged(y)
    BY <2>5, <2>7 DEF Flagged, Sticks
  <2>9. /\ z \in WindowRecords /\ z.open = y.open /\ z.crash = y.crash
        /\ Flagged(z) /\ z.told = y.told /\ z.max = None
        /\ Bare(y) /\ y.mini = None /\ ~Sticks(y) /\ y.on = {active} => Fills(z, active)
    <3>1. y \in WindowRecords /\ y.mini = None /\ y.stuck
      BY <2>5, <2>7
    <3> QED BY <1>1, <2>6, <2>8, <3>1, MadeFullscreenMoves
  <2>10. ASSUME Lies(x, tiling)
         PROVE  Settled(z, x, tiling)
    <3>1. Stuck(x)
      BY <2>7, <2>10 DEF Lies, Floats, Tiled, Hidden, Fills, Shown
    <3>2. Fills(z, active)
      BY <3>1, <2>3, <2>5, <2>7, <2>9 DEF Stuck, Bare, NoNode
    <3>3. ToldRight(x) => ~z.told
      BY <2>2, <2>5, <2>9 DEF ToldRight
    <3> QED BY <3>2, <3>3, <1>1, <2>5, <2>9 DEF Settled, Lies, ToldRight
  <2> QED BY <1>2, <2>5, <2>9, <2>10 DEF Fit
<1>4. CASE x.sticky # "shown" /\ Homes(x) # {} /\ ~x.minimized
  <2>1. PICK s \in Homes(x) :
          z = MadeFullscreen(Reannounced(Unmapped(x, s), s, active), active, WayBack(x, s))
    <3>1. z = LET s == CHOOSE h \in Homes(x) : TRUE
                  y == Reannounced(Unmapped(x, s), s, active)
              IN MadeFullscreen(y, active, WayBack(x, s))
      BY <1>2, <1>4, Zenon DEF FullscreenOf
    <3> QED BY <3>1, <1>4
  <2>2. s \in Spaces
    BY DEF Homes
  <2>3. x.mini = None
    BY <1>4, Zenon DEF Flagged
  <2>4. PICK b \in WayBacks : b = WayBack(x, s) /\ b.kind # "Sticky"
    BY <2>3, WayBackFits
  <2>5. PICK u : u = Unmapped(x, s)
    OBVIOUS
  <2>6. /\ Lifted(u, x)
        /\ Lies(x, tiling) => /\ Bare(u) /\ u.max = None /\ u.crash = x.crash
                              /\ ToldRight(x) => ~u.told
    BY <2>2, <2>5, UnmappedMoves
  <2>7. Flagged(u) /\ u \in WindowRecords /\ u.mini = None
    BY <2>3, <2>6, LiftedFlags DEF Lifted
  <2>8. PICK on \in SUBSET Spaces : on = (u.on \ {s}) \cup {active}
    BY <1>1, <2>7 DEF WindowRecords
  <2>9. PICK y : y = [u EXCEPT !.on = on]
    OBVIOUS
  <2>10. /\ y \in WindowRecords /\ y.open = u.open /\ y.full = u.full
         /\ y.fullscreen = u.fullscreen /\ y.crash = u.crash
         /\ y.mini = u.mini /\ y.minimized = u.minimized /\ y.sticky = u.sticky
         /\ y.stuck = u.stuck /\ y.floating = u.floating /\ y.nodes = u.nodes
         /\ y.on = on /\ y.told = u.told
    BY <2>7, <2>9 DEF WindowRecords
  <2>11. Flagged(y)
    BY <2>7, <2>10 DEF Flagged, Sticks
  <2>12. z = MadeFullscreen(y, active, b)
    <3>1. y = Reannounced(u, s, active)
      BY <2>7, <2>8, <2>9 DEF Reannounced, WindowRecords
    <3> QED BY <3>1, <2>1, <2>4, <2>5
  <2>13. /\ z \in WindowRecords /\ z.open = y.open /\ z.crash = y.crash
         /\ Flagged(z) /\ z.told = y.told /\ z.max = None
         /\ Bare(y) /\ y.mini = None /\ ~Sticks(y) /\ y.on = {active} => Fills(z, active)
    BY <1>1, <2>4, <2>7, <2>10, <2>11, <2>12, MadeFullscreenMoves
  <2>14. ASSUME Lies(x, tiling)
         PROVE  Settled(z, x, tiling)
    <3>1. x.on = {s} /\ ~Sticks(x)
      BY <2>14, LiesHome DEF Floats, Tiled, Hidden, Shown
    <3>2. y.on = {active} /\ ~Sticks(y)
      BY <3>1, <2>6, <2>8, <2>10 DEF Lifted, Sticks
    <3>3. Bare(y)
      BY <2>6, <2>10, <2>14 DEF Bare, NoNode
    <3>4. Fills(z, active)
      BY <3>2, <3>3, <2>7, <2>10, <2>13
    <3> QED BY <3>4, <1>1, <2>6, <2>10, <2>13, <2>14 DEF Settled, Lies, ToldRight
  <2> QED BY <1>2, <2>6, <2>10, <2>13, <2>14 DEF Fit, Lifted
<1>5. CASE x.sticky # "shown" /\ (Homes(x) = {} \/ x.minimized)
  <2>1. z = x
    BY <1>2, <1>5, Zenon DEF FullscreenOf
  <2> QED BY <1>2, <2>1 DEF Fit, Settled
<1> QED BY <1>3, <1>4, <1>5

\* unfullscreen_request: back where the way back says, or floating.
LEMMA UnfullscreenFits ==
  ASSUME TypeOK, NEW x \in WindowRecords, Flagged(x), Apart(x)
  PROVE  /\ Fit(UnfullscreenOf(x), x)
         /\ Lies(x, tiling) => Settled(UnfullscreenOf(x), x, tiling)
<1>1. active \in Spaces /\ tiling \in [Spaces -> BOOLEAN]
  BY DEF TypeOK
<1>2. PICK z : z = UnfullscreenOf(x)
  OBVIOUS
<1>3. CASE x.full = None
  <2>1. z = x
    BY <1>2, <1>3, Zenon DEF UnfullscreenOf
  <2> QED BY <1>2, <2>1 DEF Fit, Settled
<1>4. CASE x.full # None
  <2>1. PICK f \in FullscreenSurfaces : f = x.full
    BY <1>4 DEF WindowRecords
  <2>2. PICK b \in {None} \cup WayBacks : b = f.back
    BY DEF FullscreenSurfaces
  <2>3. b # None => /\ b.space \in Spaces /\ b.max \in BOOLEAN
                    /\ b.kind \in {"Floating", "Tiling", "Sticky"}
    BY DEF WayBacks
  <2>4. PICK y : y = [x EXCEPT !.full = None, !.fullscreen = FALSE]
    OBVIOUS
  <2>5. /\ y \in WindowRecords /\ y.open = x.open /\ y.full = None
        /\ ~y.fullscreen /\ y.crash = x.crash /\ y.max = x.max
        /\ y.mini = x.mini /\ y.minimized = x.minimized /\ y.sticky = x.sticky
        /\ y.stuck = x.stuck /\ y.floating = x.floating /\ y.nodes = x.nodes
        /\ y.on = x.on /\ y.told = x.told
    BY <2>4 DEF WindowRecords
  <2>6. /\ x.mini = None /\ ~Sticks(x) /\ \A s \in Spaces : x.nodes[s] <= 1
    BY <1>4 DEF Apart
  <2>7. Lies(x, tiling) => Fills(x, f.space)
    BY <2>1, <1>4 DEF Lies, Stuck, Floats, Tiled, Hidden, Fills, Shown
  <2>8. CASE b # None /\ b.kind = "Sticky"
    <3>1. PICK on \in SUBSET Spaces : on = x.on \ {f.space}
      BY DEF WindowRecords
    <3>2. z = [y EXCEPT !.sticky = "shown", !.on = on]
      <4>1. z = [y EXCEPT !.sticky = "shown", !.on = @ \ {x.full.space}]
        BY <1>2, <1>4, <2>1, <2>2, <2>4, <2>8, Zenon DEF UnfullscreenOf
      <4> QED BY <4>1, <3>1, <2>1, <2>5 DEF WindowRecords
    <3>3. /\ z \in WindowRecords /\ z.open = y.open /\ z.full = y.full
          /\ z.fullscreen = y.fullscreen /\ z.crash = y.crash /\ z.max = y.max
          /\ z.mini = y.mini /\ z.minimized = y.minimized /\ z.sticky = "shown"
          /\ z.stuck = y.stuck /\ z.floating = y.floating /\ z.nodes = y.nodes
          /\ z.on = on /\ z.told = y.told
      BY <3>2, <2>5 DEF WindowRecords
    <3>4. x.stuck
      BY <1>4, <2>1, <2>2, <2>8, Zenon DEF Flagged
    <3>5. Flagged(z)
      BY <3>3, <3>4, <2>5, <2>6 DEF Flagged
    <3>6. Fills(x, f.space) => Stuck(z)
      BY <3>1, <3>3, <2>5, <2>6 DEF Fills, Stuck, Bare, NoNode, Sticks
    <3> QED BY <1>2, <2>5, <2>7, <3>3, <3>5, <3>6 DEF Fit, Settled, Lies, ToldRight
  <2>9. CASE b = None \/ b.kind # "Sticky"
    <3>1. PICK s \in Spaces : s = IF b = None THEN active ELSE b.space
      BY <1>1, <2>3
    <3>2. PICK tile \in BOOLEAN : tile = ((b = None \/ b.kind = "Tiling") /\ tiling[s])
      OBVIOUS
    <3>3. PICK m \in BOOLEAN : m = (b # None /\ b.max)
      OBVIOUS
    <3>4. PICK layer \in {"Floating", "Tiling"} : layer = IF tile THEN "Tiling" ELSE "Floating"
      OBVIOUS
    <3>5. PICK v : v = PutDown(y, s, tile, m, layer)
      OBVIOUS
    <3>6. z = Reannounced(v, f.space, s)
      BY <1>2, <1>4, <2>1, <2>2, <2>4, <2>9, <3>1, <3>2, <3>3, <3>4, <3>5, Zenon
      DEF UnfullscreenOf, PutDown
    <3>7. /\ v \in WindowRecords /\ Moved(v, y) /\ v.crash = y.crash
          /\ m => v.told
          /\ ~m => v.told = y.told
          /\ Bare(y) /\ (m \/ y.max = None) => Down(v, s, tile, m, layer)
      BY <2>5, <2>6, <3>5, PutDownMoves
    <3>8. PICK on \in SUBSET Spaces : on = (v.on \ {f.space}) \cup {s}
      BY <3>7 DEF WindowRecords
    <3>9. z = [v EXCEPT !.on = on]
      BY <3>6, <3>7, <3>8 DEF Reannounced, WindowRecords
    <3>10. /\ z \in WindowRecords /\ z.open = v.open /\ z.full = v.full
           /\ z.fullscreen = v.fullscreen /\ z.crash = v.crash /\ z.max = v.max
           /\ z.mini = v.mini /\ z.minimized = v.minimized /\ z.sticky = v.sticky
           /\ z.stuck = v.stuck /\ z.floating = v.floating /\ z.nodes = v.nodes
           /\ z.on = on /\ z.told = v.told
      BY <3>7, <3>9 DEF WindowRecords
    <3>11. Flagged(y)
      BY <2>5, <2>6 DEF Flagged, Sticks
    <3>12. Flagged(z)
      <4>1. Flagged(v)
        BY <3>7, <3>11, KeptFlags DEF Moved
      <4> QED BY <3>10, <4>1 DEF Flagged, Sticks
    <3>13. ASSUME Fills(x, f.space)
           PROVE  Lies(z, tiling) /\ (ToldRight(x) => ToldRight(z))
      <4>1. Bare(y) /\ y.max = None
        BY <2>5, <3>13 DEF Fills, Bare, NoNode
      <4>2. Down(v, s, tile, m, layer)
        BY <3>7, <4>1
      <4>3. Down(z, s, tile, m, layer)
        BY <3>10, <4>2 DEF Down, NoNode
      <4>4. v.on = {f.space}
        BY <2>5, <3>7, <3>13 DEF Fills, Moved, Kept
      <4>5. z.on = {s}
        BY <3>8, <3>10, <4>4
      <4>6. Shown(z)
        BY <2>5, <2>6, <3>7, <3>10 DEF Shown, Sticks, Moved, Kept
      <4>7. Lies(z, tiling)
        BY <3>2, <3>4, <4>3, <4>5, <4>6, DownLies
      <4>8. z.max = IF m THEN layer ELSE None
        BY <4>3 DEF Down
      <4> QED BY <2>5, <3>7, <3>10, <4>1, <4>7, <4>8, NoneAssumption DEF ToldRight
    <3> QED BY <1>2, <2>5, <2>7, <3>7, <3>10, <3>12, <3>13 DEF Fit, Settled, Moved, Kept
  <2> QED BY <2>8, <2>9
<1> QED BY <1>3, <1>4

\* toggle_sticky, in both directions, on the active workspace.
LEMMA StickyToggledFits ==
  ASSUME TypeOK, NEW x \in WindowRecords, Flagged(x), Apart(x)
  PROVE  /\ Fit(StickyToggled(x), x)
         /\ Lies(x, tiling) /\ Acked(x) => Settled(StickyToggled(x), x, tiling)
<1>1. active \in Spaces /\ tiling \in [Spaces -> BOOLEAN]
  BY DEF TypeOK
<1>2. PICK z : z = StickyToggled(x)
  OBVIOUS
<1>3. CASE Homes(x) # {}
  <2>1. PICK s : s = CHOOSE h \in Homes(x) : TRUE
    OBVIOUS
  <2>2. s \in Homes(x) /\ s \in Spaces
    BY <1>3, <2>1 DEF Homes
  <2>3. PICK layer \in {"Floating", "Tiling"} :
          layer = IF IsTiled(x, s) THEN "Tiling" ELSE "Floating"
    OBVIOUS
  <2>4. PICK y : y = IF IsTiled(x, s) THEN FloatingToggled(x, s) ELSE x
    OBVIOUS
  <2>5. y \in WindowRecords /\ Kept(y, x)
    <3>1. CASE IsTiled(x, s)
      BY <2>2, <2>4, <3>1, FloatingToggledMoves
    <3>2. CASE ~IsTiled(x, s)
      BY <2>4, <3>2 DEF Kept
    <3> QED BY <3>1, <3>2
  <2>6. Lies(x, tiling) /\ Acked(x) => Settled(y, x, tiling)
    <3>1. CASE IsTiled(x, s)
      BY <2>2, <2>4, <3>1, FloatingToggledMoves
    <3>2. CASE ~IsTiled(x, s)
      BY <2>4, <3>2 DEF Settled
    <3> QED BY <3>1, <3>2
  <2>7. Flagged(y)
    BY <2>5, KeptFlags
  <2>8. x.mini # None => x.mini.kind # "Fullscreen"
    BY <2>2 DEF Homes, Apart
  <2>9. CASE ~Mapped(y, s)
    <3>1. z = y
      BY <1>2, <1>3, <2>1, <2>4, <2>9, Zenon DEF StickyToggled
    <3> QED BY <1>2, <2>5, <2>6, <2>7, <3>1 DEF Fit, Kept
  <2>10. CASE Mapped(y, s)
    <3>1. PICK u : u = Unmapped(y, s)
      OBVIOUS
    <3>2. s \in Homes(y)
      BY <2>2, <2>10 DEF Homes
    <3>3. /\ Lifted(u, y)
          /\ Lies(y, tiling) => /\ Bare(u) /\ u.max = None /\ u.crash = y.crash
                                /\ ToldRight(y) => ~u.told
      BY <2>2, <2>5, <3>1, <3>2, UnmappedMoves
    <3>4. u \in WindowRecords /\ Flagged(u) /\ u.mini = None
      <4>1. y.mini # None => y.mini.kind # "Fullscreen"
        BY <2>5, <2>8 DEF Kept
      <4> QED BY <4>1, <2>7, <3>3, LiftedFlags DEF Lifted
    <3>5. PICK on \in SUBSET Spaces : on = u.on \ {s}
      BY <3>4 DEF WindowRecords
    <3>6. z = [u EXCEPT !.before = layer, !.stuck = TRUE, !.sticky = "shown", !.on = on]
      <4>1. z = [Unmapped(y, s) EXCEPT !.before = layer, !.stuck = TRUE,
                                       !.sticky = "shown", !.on = @ \ {s}]
        BY <1>2, <1>3, <2>1, <2>3, <2>4, <2>10, Zenon DEF StickyToggled
      <4>2. z = [u EXCEPT !.before = layer, !.stuck = TRUE,
                          !.sticky = "shown", !.on = @ \ {s}]
        BY <4>1, <3>1
      <4> QED BY <4>2, <3>4, <3>5 DEF WindowRecords
    <3>7. /\ z \in WindowRecords /\ z.open = u.open /\ z.full = u.full
          /\ z.fullscreen = u.fullscreen /\ z.crash = u.crash /\ z.max = u.max
          /\ z.mini = u.mini /\ z.minimized = u.minimized /\ z.sticky = "shown"
          /\ z.stuck /\ z.floating = u.floating /\ z.nodes = u.nodes
          /\ z.on = on /\ z.told = u.told
      <4>1. u \in WindowRecords
        BY <3>4
      <4>2. z \in WindowRecords
        BY <3>6, <4>1 DEF WindowRecords
      <4>3. /\ z.open = u.open /\ z.full = u.full
            /\ z.fullscreen = u.fullscreen /\ z.crash = u.crash /\ z.max = u.max
            /\ z.mini = u.mini /\ z.minimized = u.minimized /\ z.sticky = "shown"
            /\ z.floating = u.floating /\ z.nodes = u.nodes
            /\ z.on = on /\ z.told = u.told
        BY <3>6, <4>1 DEF WindowRecords
      <4>4. z.stuck
        BY <3>6, <4>1 DEF WindowRecords
      <4> QED BY <4>2, <4>3, <4>4
    <3>8. Flagged(z)
      BY <3>4, <3>7 DEF Flagged, Sticks
    <3>9. ASSUME Lies(x, tiling), Acked(x)
          PROVE  Settled(z, x, tiling)
      <4>1. Settled(y, x, tiling) /\ Lies(y, tiling)
        BY <2>6, <3>9 DEF Settled
      <4>2. Floats(y, s, tiling) \/ Tiled(y, s, tiling)
        BY <2>10, <3>2, <4>1, LiesHome DEF Hidden, Bare, NoNode, Mapped
      <4>3. u.on = {s} /\ u.full = None
        BY <3>3, <4>2 DEF Lifted, Floats, Tiled, Shown
      <4>4. Stuck(z)
        BY <3>3, <3>4, <3>5, <3>7, <4>1, <4>3 DEF Stuck, Bare, NoNode, Sticks
      <4> QED BY <3>3, <3>7, <4>1, <4>4 DEF Settled, Lies, ToldRight
    <3> QED BY <1>2, <2>5, <3>3, <3>7, <3>8, <3>9 DEF Fit, Lifted, Kept
  <2> QED BY <2>9, <2>10
<1>4. CASE Homes(x) = {} /\ x.sticky = "shown"
  <2>1. PICK layer \in {"Floating", "Tiling"} :
          layer = IF x.before = None THEN "Floating" ELSE x.before
    BY DEF WindowRecords
  <2>2. PICK on \in SUBSET Spaces : on = x.on \cup {active}
    BY <1>1 DEF WindowRecords
  <2>3. PICK y : y = [x EXCEPT !.sticky = "no", !.stuck = FALSE, !.before = None, !.on = on]
    OBVIOUS
  <2>4. /\ y \in WindowRecords /\ y.open = x.open /\ y.full = x.full
        /\ y.fullscreen = x.fullscreen /\ y.crash = x.crash /\ y.max = x.max
        /\ y.mini = x.mini /\ y.minimized = x.minimized /\ y.sticky = "no"
        /\ y.floating = x.floating /\ y.nodes = x.nodes
        /\ y.on = on /\ y.told = x.told
    BY <2>3 DEF WindowRecords
  <2>5. PICK tile \in BOOLEAN : tile = (layer = "Tiling" /\ tiling[active])
    OBVIOUS
  <2>6. PICK m \in BOOLEAN : m = (x.max # None)
    OBVIOUS
  <2>7. z = PutDown(y, active, tile, m, layer)
    <3>1. y = [x EXCEPT !.sticky = "no", !.stuck = FALSE, !.before = None,
                        !.on = @ \cup {active}]
      BY <2>2, <2>3 DEF WindowRecords
    <3>2. z = LET l == IF x.before = None THEN "Floating" ELSE x.before
                  v == [x EXCEPT !.sticky = "no", !.stuck = FALSE, !.before = None,
                                 !.on = @ \cup {active}]
                  w == IF l = "Tiling" /\ tiling[active] THEN Tile(v, active)
                       ELSE Float(v, active)
              IN IF x.max = None THEN w ELSE Maximized(w, active, l)
      BY <1>2, <1>4, Zenon DEF StickyToggled
    <3> QED BY <3>1, <3>2, <2>1, <2>5, <2>6, Zenon DEF PutDown
  <2>8. x.mini = None /\ x.full = None /\ \A s \in Spaces : x.nodes[s] <= 1
    BY <1>4 DEF Apart, Sticks
  <2>9. /\ z \in WindowRecords /\ Moved(z, y) /\ z.crash = y.crash
        /\ m => z.told
        /\ ~m => z.told = y.told
        /\ Bare(y) /\ (m \/ y.max = None) => Down(z, active, tile, m, layer)
    BY <1>1, <2>4, <2>7, <2>8, PutDownMoves
  <2>10. Flagged(y)
    BY <2>4, <2>8 DEF Flagged, Sticks
  <2>11. Flagged(z)
    BY <2>9, <2>10, KeptFlags DEF Moved
  <2>12. ASSUME Lies(x, tiling)
         PROVE  Lies(z, tiling) /\ (ToldRight(x) => ToldRight(z))
    <3>1. Stuck(x)
      BY <1>4, <2>12 DEF Lies, Floats, Tiled, Hidden, Fills, Shown, Sticks
    <3>2. Bare(y) /\ (m \/ y.max = None)
      BY <2>4, <2>6, <3>1 DEF Stuck, Bare, NoNode
    <3>3. Down(z, active, tile, m, layer)
      BY <2>9, <3>2
    <3>4. z.on = {active} /\ Shown(z)
      BY <2>2, <2>4, <2>8, <2>9, <3>1 DEF Stuck, Shown, Sticks, Moved, Kept
    <3>5. Lies(z, tiling)
      BY <1>1, <2>1, <2>5, <3>3, <3>4, DownLies
    <3>6. z.max = IF m THEN layer ELSE None
      BY <3>3 DEF Down
    <3> QED BY <2>4, <2>6, <2>9, <3>5, <3>6, NoneAssumption DEF ToldRight
  <2> QED BY <1>2, <2>4, <2>9, <2>11, <2>12 DEF Fit, Settled, Moved, Kept
<1>5. CASE Homes(x) = {} /\ x.sticky # "shown"
  <2>1. z = x
    BY <1>2, <1>5, Zenon DEF StickyToggled
  <2> QED BY <1>2, <2>1 DEF Fit, Settled
<1> QED BY <1>3, <1>4, <1>5

-----------------------------------------------------------------------------
(* The state: what is common to the actions.                                *)

\* What a closed window is.
LEMMA FreshFits ==
  /\ Fresh \in WindowRecords /\ ~Fresh.open /\ Flagged(Fresh) /\ Apart(Fresh)
  /\ \A s \in Spaces : ~Mapped(Fresh, s)
  /\ ~Sticks(Fresh) /\ Fresh.told = Fresh.acked /\ Fresh.crash = "no" /\ ~Fresh.told
  /\ Bare(Fresh) /\ Fresh.mini = None /\ Fresh.full = None /\ Fresh.max = None
  /\ ~Fresh.acked
<1>1. PICK n \in [Spaces -> 0 .. 2] : n = [s \in Spaces |-> 0]
  <2>1. [s \in Spaces |-> 0] \in [Spaces -> 0 .. 2]
    OBVIOUS
  <2> QED BY <2>1
<1>2. PICK x : x = Fresh
  OBVIOUS
<1>3. x = [open |-> FALSE, floating |-> {}, nodes |-> n,
           mini |-> None, full |-> None, sticky |-> "no",
           max |-> None, before |-> None, told |-> FALSE, acked |-> FALSE,
           minimized |-> FALSE, fullscreen |-> FALSE, stuck |-> FALSE, on |-> {},
           crash |-> "no"]
  BY <1>1, <1>2 DEF Fresh
<1>4. x \in WindowRecords
  BY <1>3 DEF WindowRecords
<1>5. /\ ~x.open /\ x.mini = None /\ x.full = None /\ ~Sticks(x) /\ x.floating = {}
      /\ x.nodes = n /\ ~x.minimized /\ ~x.fullscreen /\ x.told = x.acked
      /\ x.crash = "no" /\ ~x.told /\ x.max = None /\ ~x.acked
  BY <1>3 DEF Sticks
<1>6. \A s \in Spaces : n[s] = 0
  BY <1>1
<1>7. Flagged(x)
  BY <1>5 DEF Flagged
<1>8. \A s \in Spaces : ~Mapped(x, s)
  BY <1>5, <1>6 DEF Mapped
<1>9. Apart(x)
  BY <1>5, <1>6, <1>8 DEF Apart
<1>10. Bare(x)
  BY <1>5, <1>6 DEF Bare, NoNode
<1> QED BY <1>2, <1>4, <1>5, <1>7, <1>8, <1>9, <1>10

\* A closed window keeps the invariant, whatever the tiling and the history.
LEMMA FreshIsGood ==
  ASSUME NEW tl, NEW u
  PROVE  Good(Fresh, tl, u)
BY FreshFits DEF Good

\* A window while states are followed.
LEMMA FollowedWindow ==
  ASSUME WindowInv, Followed, NEW w \in Windows
  PROVE  /\ win[w] \in WindowRecords /\ win[w].crash = "no" /\ Flagged(win[w])
         /\ Apart(win[w]) /\ win[w].open \in BOOLEAN
         /\ ~win[w].open => win[w] = Fresh
         /\ usual /\ win[w].open => Placed(win[w], tiling)
         /\ Good(win[w], tiling, usual)
<1>1. Good(win[w], tiling, usual)
  BY DEF WindowInv
<1>2. win[w].crash = "no" /\ (win[w].open => InOneLayer(win[w]))
  BY DEF Followed, Panicked
<1>3. win[w].open => Apart(win[w])
  BY <1>1, <1>2, OneLayerApart DEF Good
<1>4. ~win[w].open => Apart(win[w])
  BY <1>1, FreshFits DEF Good
<1>5. win[w].open \in BOOLEAN
  BY <1>1 DEF Good, WindowRecords
<1> QED BY <1>1, <1>2, <1>3, <1>4, <1>5 DEF Good

\* Place is of its type.
LEMMA PlaceFits ==
  ASSUME NEW x \in WindowRecords
  PROVE  Place(x) \in Memories
<1>1. PICK z : z = Place(x)
  OBVIOUS
<1>2. CASE x.sticky = "shown"
  <2>1. z = [layer |-> "Sticky", space |-> None, max |-> FALSE]
    BY <1>1, <1>2, Zenon DEF Place
  <2> QED BY <1>1, <2>1 DEF Memories, Places
<1>3. CASE x.sticky # "shown" /\ \E s \in Spaces : Mapped(x, s)
  <2>1. PICK s : s = CHOOSE h \in Spaces : Mapped(x, h)
    OBVIOUS
  <2>2. s \in Spaces
    BY <1>3, <2>1
  <2>3. PICK l \in {"Floating", "Tiling"} : l = IF x.nodes[s] > 0 THEN "Tiling" ELSE "Floating"
    OBVIOUS
  <2>4. PICK m \in BOOLEAN : m = (x.max # None)
    OBVIOUS
  <2>5. z = [layer |-> l, space |-> s, max |-> m]
    BY <1>1, <1>3, <2>1, <2>3, <2>4, Zenon DEF Place
  <2> QED BY <1>1, <2>2, <2>5 DEF Memories, Places
<1>4. CASE x.sticky # "shown" /\ ~\E s \in Spaces : Mapped(x, s)
  <2>1. z = None
    BY <1>1, <1>4, Zenon DEF Place
  <2> QED BY <1>1, <2>1 DEF Memories, Places
<1> QED BY <1>2, <1>3, <1>4

\* The history variable keeps its type.
LEMMA RememberedFits ==
  ASSUME TypeOK, NEW new
  PROVE  Remembered(new) \in [Windows -> Memories]
<1>1. ASSUME NEW w \in Windows
      PROVE  (IF ~new[w].open \/ Place(new[w]) # None THEN None
              ELSE IF Place(win[w]) # None THEN Place(win[w])
              ELSE was[w]) \in Memories
  <2>1. win[w] \in WindowRecords /\ was[w] \in Memories /\ None \in Memories
    BY DEF TypeOK, Memories, Places
  <2>2. Place(win[w]) \in Memories
    BY <2>1, PlaceFits
  <2> QED BY <2>1, <2>2, Zenon
<1> QED BY <1>1, Zenon DEF Remembered

\* The windows that are unmaximized before another is tiled keep the invariant.
LEMMA RoomForFits ==
  ASSUME WindowInv, Followed, NEW w \in Windows, NEW s \in Spaces
  PROVE  \A v \in Windows : Good(RoomFor(w, s)[v], tiling, usual)
<1> SUFFICES ASSUME NEW v \in Windows
             PROVE  Good(RoomFor(w, s)[v], tiling, usual)
  OBVIOUS
<1>1. PICK x : x = win[v]
  OBVIOUS
<1>2. /\ x \in WindowRecords /\ x.crash = "no" /\ Flagged(x)
      /\ ~x.open => x = Fresh
      /\ usual /\ x.open => Placed(x, tiling)
      /\ Good(x, tiling, usual)
  BY <1>1, FollowedWindow
<1>3. CASE v # w /\ Mapped(x, s)
  <2>1. tiling[s] \in BOOLEAN /\ tiling \in [Spaces -> BOOLEAN]
    BY DEF WindowInv, TypeOK
  <2>2. PICK y : y = Unmaximized(x, s, tiling[s])
    OBVIOUS
  <2>3. UnmaximizedTo(y, x, s, tiling[s])
    BY <1>2, <2>1, <2>2, UnmaximizedMoves
  <2>4. y \in WindowRecords /\ Kept(y, x)
    BY <2>3 DEF UnmaximizedTo
  <2>5. x.open /\ y.open = x.open
    BY <1>2, <1>3, <2>4, FreshFits DEF Kept
  <2>6. Flagged(y)
    BY <1>2, <2>4, KeptFlags
  <2>7. usual => Placed(y, tiling) /\ y.crash = "no"
    <3>1. SUFFICES ASSUME usual
                   PROVE  Placed(y, tiling) /\ y.crash = "no"
      OBVIOUS
    <3>2. Lies(x, tiling) /\ ToldRight(x) /\ s \in Homes(x)
      BY <1>2, <1>3, <2>5, <3>1 DEF Placed, Homes
    <3>3. Lies(y, tiling) /\ y.crash = x.crash /\ (ToldRight(x) => ToldRight(y))
      BY <1>2, <2>1, <2>3, <3>2, UnmaximizedLies
    <3> QED BY <1>2, <3>2, <3>3 DEF Placed
  <2>8. RoomFor(w, s)[v] = y
    BY <1>1, <1>3, <2>2 DEF RoomFor
  <2> QED BY <2>4, <2>5, <2>6, <2>7, <2>8 DEF Good
<1>4. CASE ~(v # w /\ Mapped(x, s))
  <2>1. RoomFor(w, s)[v] = x
    BY <1>1, <1>4 DEF RoomFor
  <2> QED BY <1>2, <2>1
<1> QED BY <1>3, <1>4

\* What an action has to establish.
LEMMA StepKeeps ==
  ASSUME WindowInv,
         NEW new, win' = new, new = [w \in Windows |-> new[w]],
         \A w \in Windows : Good(new[w], tiling', usual'),
         was' \in [Windows -> Memories], tiling' \in [Spaces -> BOOLEAN],
         mode' \in [Spaces -> Layouts],
         restore' \in [Spaces -> {None, "Floating", "Tiling"}],
         active' \in Spaces, usual' \in BOOLEAN,
         \A s \in Spaces : mode'[s] = "Monocle" => ~usual' /\ restore'[s] # None
  PROVE  WindowInv'
<1>1. new \in [Windows -> WindowRecords]
  BY DEF Good
<1> QED BY <1>1 DEF WindowInv, TypeOK, Good, Memories, Places, Placed, Lies, Stuck, Floats, Tiled,
          Hidden, Fills, Shown, Bare, NoNode, Sticks, ToldRight, Flagged

\* A request that changes one window, and at most makes room for it.
LEMMA OneChanges ==
  ASSUME WindowInv, NEW w \in Windows, NEW old, NEW x, NEW after \in [Windows -> Memories],
         \A v \in Windows : Good(old[v], tiling, usual),
         old = [v \in Windows |-> old[v]],
         win' = [old EXCEPT ![w] = x], was' = after,
         UNCHANGED <<tiling, mode, restore>>,
         active' \in Spaces, usual' \in BOOLEAN, usual' => usual,
         Good(x, tiling, usual')
  PROVE  WindowInv'
<1>1. PICK new : new = [old EXCEPT ![w] = x]
  OBVIOUS
<1>2. new = [v \in Windows |-> IF v = w THEN x ELSE old[v]]
  BY <1>1
<1>3. \A v \in Windows : Good(new[v], tiling', usual')
  BY <1>2 DEF Good
<1>4. new = [v \in Windows |-> new[v]]
  BY <1>2
<1>5. /\ tiling' \in [Spaces -> BOOLEAN] /\ mode' \in [Spaces -> Layouts]
      /\ restore' \in [Spaces -> {None, "Floating", "Tiling"}]
      /\ \A s \in Spaces : mode'[s] = "Monocle" => ~usual' /\ restore'[s] # None
  BY DEF WindowInv, TypeOK
<1> QED BY <1>1, <1>3, <1>4, <1>5, StepKeeps

\* A request that changes one window alone.
LEMMA ChangeKeeps ==
  ASSUME WindowInv, NEW w \in Windows, NEW x, Change(w, x),
         active' \in Spaces, usual' \in BOOLEAN, usual' => usual,
         Good(x, tiling, usual')
  PROVE  WindowInv'
<1>1. PICK new : new = [win EXCEPT ![w] = x]
  OBVIOUS
<1>2. win' = new /\ was' = Remembered(new) /\ UNCHANGED <<tiling, mode, restore>>
  BY <1>1 DEF Change
<1>3. PICK after \in [Windows -> Memories] : after = Remembered(new)
  BY RememberedFits DEF WindowInv
<1>4. win = [v \in Windows |-> win[v]] /\ \A v \in Windows : Good(win[v], tiling, usual)
  BY DEF WindowInv, TypeOK
<1> QED BY <1>1, <1>2, <1>3, <1>4, OneChanges

\* What becomes of a window whose operation is known to fit.
LEMMA FitIsGood ==
  ASSUME NEW x, NEW y, NEW tl, NEW u, x.open, Fit(y, x),
         u => \/ y.crash = "Sticky"
              \/ x.crash = "no" /\ ToldRight(x) /\ Settled(y, x, tl)
  PROVE  Good(y, tl, u)
BY DEF Good, Fit, Settled, Placed

-----------------------------------------------------------------------------
(* The actions, one by one.                                                 *)

\* A new window on s, before what its client asked for is done.
LEMMA OpenedFits ==
  ASSUME TypeOK, NEW s \in Spaces, NEW told \in BOOLEAN
  PROVE  LET x == [Fresh EXCEPT !.open = TRUE, !.on = {s}] IN
         /\ x \in WindowRecords /\ x.open /\ x.crash = "no" /\ Flagged(x)
         /\ Bare(x) /\ Shown(x) /\ x.on = {s} /\ x.max = None /\ ~x.acked /\ ~x.told
<1>1. PICK x : x = [Fresh EXCEPT !.open = TRUE, !.on = {s}]
  OBVIOUS
<1>2. PICK f \in WindowRecords : f = Fresh
  BY FreshFits
<1>3. x = [f EXCEPT !.open = TRUE, !.on = {s}]
  BY <1>1, <1>2
<1>4. /\ x \in WindowRecords /\ x.open /\ x.crash = f.crash /\ x.on = {s}
      /\ x.max = f.max /\ x.acked = f.acked /\ x.told = f.told
      /\ x.floating = f.floating /\ x.nodes = f.nodes /\ x.mini = f.mini
      /\ x.full = f.full /\ x.sticky = f.sticky /\ x.minimized = f.minimized
      /\ x.fullscreen = f.fullscreen /\ x.stuck = f.stuck
  BY <1>3 DEF WindowRecords
<1>5. /\ f.crash = "no" /\ Flagged(f) /\ ~Sticks(f) /\ ~f.told /\ ~f.acked
      /\ Bare(f) /\ f.mini = None /\ f.full = None /\ f.max = None
  BY <1>2, FreshFits
<1>6. Flagged(x)
  BY <1>4, <1>5 DEF Flagged, Sticks
<1>7. Bare(x) /\ Shown(x)
  BY <1>4, <1>5 DEF Bare, NoNode, Shown, Sticks
<1> QED BY <1>1, <1>4, <1>5, <1>6, <1>7

\* map_window's window: in a layer, and then as its client asked for before.
OpenedOn(s, float) ==
  LET opened == [Fresh EXCEPT !.open = TRUE, !.on = {s}]
  IN IF ~float /\ tiling[s] THEN Tile(opened, s)
     ELSE [Float(opened, s) EXCEPT !.told = mode[s] = "Monocle" /\ ~float]

Asked(x, sticky, maximize, minimize) ==
  LET y == IF sticky THEN StickyToggled(x) ELSE x
      z == IF maximize THEN MaximizeOf(y) ELSE y
  IN IF minimize THEN MinimizeOf(z) ELSE z

\* A new window is in one layer, whatever its client asked for.
LEMMA OpenedLies ==
  ASSUME WindowInv, NEW s \in Spaces, NEW float \in BOOLEAN, NEW sticky \in BOOLEAN,
         NEW maximize \in BOOLEAN, NEW minimize \in BOOLEAN,
         NEW m, m = Asked(OpenedOn(s, float), sticky, maximize, minimize)
  PROVE  /\ m \in WindowRecords /\ m.crash = "no" /\ m.open /\ Flagged(m)
         /\ Lies(m, tiling) /\ (usual => ToldRight(m))
<1>1. TypeOK /\ tiling[s] \in BOOLEAN
  BY DEF WindowInv, TypeOK
<1>2. PICK o : o = [Fresh EXCEPT !.open = TRUE, !.on = {s}]
  OBVIOUS
<1>3. /\ o \in WindowRecords /\ o.open /\ o.crash = "no" /\ Flagged(o)
      /\ Bare(o) /\ Shown(o) /\ o.on = {s} /\ o.max = None /\ ~o.acked /\ ~o.told
  BY <1>1, <1>2, OpenedFits
<1>4. PICK tile \in BOOLEAN : tile = (~float /\ tiling[s])
  OBVIOUS
<1>5. PICK told \in BOOLEAN : told = (mode[s] = "Monocle" /\ ~float)
  OBVIOUS
<1>6. PICK x : x = IF tile THEN Tile(o, s) ELSE [Float(o, s) EXCEPT !.told = told]
  OBVIOUS
<1>7. /\ x \in WindowRecords /\ x.open /\ x.crash = "no" /\ Flagged(x) /\ ~x.acked
      /\ x.max = None /\ Lies(x, tiling) /\ (usual => ToldRight(x))
  <2> PICK no \in BOOLEAN : ~no
    OBVIOUS
  <2>1. PICK v : v = PutDown(o, s, tile, no, "Floating")
    OBVIOUS
  <2>2. v = IF tile THEN Tile(o, s) ELSE Float(o, s)
    BY <2>1, Zenon DEF PutDown
  <2>3. o.nodes[s] <= 1
    BY <1>3 DEF Bare, NoNode
  <2>4. /\ v \in WindowRecords /\ Moved(v, o) /\ v.crash = o.crash
        /\ v.told = o.told /\ Down(v, s, tile, no, "Floating")
    BY <1>3, <2>1, <2>3, PutDownMoves
  <2>5. Shown(v) /\ v.on = {s} /\ ~v.acked /\ v.open
    BY <1>3, <2>4 DEF Shown, Sticks, Moved, Kept
  <2>6. Flagged(v)
    BY <1>3, <2>4, KeptFlags DEF Moved
  <2>7. v.max = None
    BY <2>4 DEF Down
  <2>8. Lies(v, tiling)
    BY <1>4, <2>4, <2>5, DownLies
  <2>9. CASE tile
    BY <1>3, <1>6, <2>2, <2>4, <2>5, <2>6, <2>7, <2>8, <2>9 DEF ToldRight
  <2>10. CASE ~tile
    <3>1. x = [v EXCEPT !.told = told]
      BY <1>6, <2>2, <2>10
    <3>2. /\ x \in WindowRecords /\ x.open = v.open /\ x.crash = v.crash /\ x.on = v.on
          /\ x.max = v.max /\ x.acked = v.acked /\ x.told = told
          /\ x.floating = v.floating /\ x.nodes = v.nodes /\ x.mini = v.mini
          /\ x.full = v.full /\ x.sticky = v.sticky /\ x.minimized = v.minimized
          /\ x.fullscreen = v.fullscreen /\ x.stuck = v.stuck
      BY <2>4, <3>1 DEF WindowRecords
    <3>3. Flagged(x)
      BY <2>6, <3>2 DEF Flagged, Sticks
    <3>4. Down(x, s, tile, no, "Floating") /\ Shown(x)
      BY <2>4, <2>5, <3>2 DEF Down, NoNode, Shown, Sticks
    <3>5. Lies(x, tiling)
      BY <2>5, <2>10, <3>2, <3>4, DownLies
    <3>6. usual => ToldRight(x)
      BY <1>5, <2>7, <3>2 DEF ToldRight, WindowInv
    <3> QED BY <1>3, <2>4, <2>5, <2>7, <3>2, <3>3, <3>5, <3>6
  <2> QED BY <2>9, <2>10
\* Each of the three requests leaves it in one layer.
<1>8. ASSUME NEW a, NEW b, NEW y \in {a, b}, a \in WindowRecords, a.crash = "no", a.open,
             Flagged(a), Lies(a, tiling), usual => ToldRight(a),
             Fit(b, a), Settled(b, a, tiling)
      PROVE  /\ y \in WindowRecords /\ y.crash = "no" /\ y.open /\ Flagged(y) /\ Apart(y)
             /\ Lies(y, tiling) /\ (usual => ToldRight(y))
  <2>1. /\ y \in WindowRecords /\ y.crash = "no" /\ y.open /\ Flagged(y)
        /\ Lies(y, tiling) /\ (usual => ToldRight(y))
    BY <1>8 DEF Fit, Settled
  <2> QED BY <2>1, LiesApart
<1>9. Apart(x)
  BY <1>7, LiesApart
<1>10. PICK y : y = IF sticky THEN StickyToggled(x) ELSE x
  OBVIOUS
<1>11. /\ y \in WindowRecords /\ y.crash = "no" /\ y.open /\ Flagged(y) /\ Apart(y)
       /\ Lies(y, tiling) /\ (usual => ToldRight(y))
  <2>1. PICK b : b = StickyToggled(x)
    OBVIOUS
  <2>2. Fit(b, x) /\ Settled(b, x, tiling)
    BY <1>1, <1>7, <1>9, <2>1, StickyToggledFits DEF Acked
  <2>3. y \in {x, b}
    BY <1>10, <2>1
  <2> QED BY <1>7, <1>8, <2>2, <2>3
<1>12. PICK z : z = IF maximize THEN MaximizeOf(y) ELSE y
  OBVIOUS
<1>13. /\ z \in WindowRecords /\ z.crash = "no" /\ z.open /\ Flagged(z) /\ Apart(z)
       /\ Lies(z, tiling) /\ (usual => ToldRight(z))
  <2>1. PICK b : b = MaximizeOf(y)
    OBVIOUS
  <2>2. Fit(b, y) /\ Settled(b, y, tiling)
    BY <1>1, <1>11, <2>1, MaximizeFits
  <2>3. z \in {y, b}
    BY <1>12, <2>1
  <2> QED BY <1>8, <1>11, <2>2, <2>3
<1>14. m = IF minimize THEN MinimizeOf(z) ELSE z
  <2>1. x = OpenedOn(s, float)
    BY <1>2, <1>4, <1>5, <1>6, Zenon DEF OpenedOn
  <2> QED BY <1>10, <1>12, <2>1, Zenon DEF Asked
<1>15. /\ m \in WindowRecords /\ m.crash = "no" /\ m.open /\ Flagged(m)
       /\ Lies(m, tiling) /\ (usual => ToldRight(m))
  <2>1. PICK b : b = MinimizeOf(z)
    OBVIOUS
  <2>2. Fit(b, z) /\ Settled(b, z, tiling)
    BY <1>1, <1>13, <2>1, MinimizeFits
  <2>3. m \in {z, b}
    BY <1>14, <2>1
  <2> QED BY <1>8, <1>13, <2>2, <2>3
<1> QED BY <1>15

\* map_window, with all that the client asked for before.
LEMMA OpenKeeps ==
  ASSUME WindowInv, Followed, NEW w \in Windows, NEW s \in Spaces,
         NEW float \in BOOLEAN, NEW sticky \in BOOLEAN,
         NEW maximize \in BOOLEAN, NEW minimize \in BOOLEAN,
         Open(w, s, float, sticky, maximize, minimize)
  PROVE  WindowInv'
<1>1. TypeOK
  BY DEF WindowInv
<1>2. PICK m : m = Asked(OpenedOn(s, float), sticky, maximize, minimize)
  OBVIOUS
<1>3. PICK old : old = IF ~float /\ tiling[s] THEN RoomFor(w, s) ELSE win
  OBVIOUS
<1>4. PICK new : new = [old EXCEPT ![w] = m]
  OBVIOUS
<1>5. /\ win' = new /\ was' = Remembered(new)
      /\ UNCHANGED <<tiling, mode, restore, active, usual>>
  BY <1>2, <1>3, <1>4, Zenon DEF Open, Asked, OpenedOn
<1>6. old = [v \in Windows |-> old[v]] /\ \A v \in Windows : Good(old[v], tiling, usual)
  <2>1. RoomFor(w, s) = [v \in Windows |-> RoomFor(w, s)[v]]
    BY DEF RoomFor
  <2>2. win = [v \in Windows |-> win[v]] /\ \A v \in Windows : Good(win[v], tiling, usual)
    BY DEF WindowInv, TypeOK
  <2> QED BY <1>3, <2>1, <2>2, RoomForFits
<1>7. PICK after \in [Windows -> Memories] : after = Remembered(new)
  BY <1>1, RememberedFits
<1>8. active' \in Spaces /\ usual' \in BOOLEAN /\ (usual' => usual)
  BY <1>1, <1>5 DEF TypeOK
<1>9. Good(m, tiling, usual')
  <2>1. /\ m \in WindowRecords /\ m.crash = "no" /\ m.open /\ Flagged(m)
        /\ Lies(m, tiling) /\ (usual => ToldRight(m))
    BY <1>2, OpenedLies
  <2>2. Good(m, tiling, usual)
    BY <2>1 DEF Good, Placed
  <2> QED BY <1>5, <2>2
<1> QED BY <1>4, <1>5, <1>6, <1>7, <1>8, <1>9, OneChanges

\* map_window of a window that asked to be fullscreen.
LEMMA OpenFullscreenKeeps ==
  ASSUME WindowInv, NEW w \in Windows, NEW s \in Spaces, OpenFullscreen(w, s)
  PROVE  WindowInv'
<1>1. TypeOK
  BY DEF WindowInv
<1>2. PICK o : o = [Fresh EXCEPT !.open = TRUE, !.on = {s}]
  OBVIOUS
<1>3. /\ o \in WindowRecords /\ o.open /\ o.crash = "no" /\ Flagged(o)
      /\ Bare(o) /\ Shown(o) /\ o.on = {s} /\ o.max = None /\ ~o.acked /\ ~o.told
  BY <1>1, <1>2, OpenedFits
<1>4. PICK z : z = MadeFullscreen(o, s, None)
  OBVIOUS
<1>5. /\ z \in WindowRecords /\ z.open /\ Flagged(z) /\ z.crash = "no"
      /\ ~z.told /\ z.max = None /\ Fills(z, s)
  <2>1. PICK none \in {None} \cup WayBacks : none = None
    OBVIOUS
  <2>2. z = MadeFullscreen(o, s, none)
    BY <1>4, <2>1
  <2> QED BY <1>3, <2>1, <2>2, MadeFullscreenMoves DEF Shown
<1>6. Good(z, tiling, usual)
  BY <1>5 DEF Good, Placed, Lies, ToldRight
<1>7. Change(w, z) /\ UNCHANGED <<active, usual>>
  BY <1>2, <1>4, Zenon DEF OpenFullscreen
<1>8. active' \in Spaces /\ usual' \in BOOLEAN /\ usual' = usual
  BY <1>1, <1>7 DEF TypeOK
<1> QED BY <1>6, <1>7, <1>8, ChangeKeeps

\* unmap_surface: what is closed is Fresh again.
LEMMA CloseKeeps ==
  ASSUME WindowInv, NEW w \in Windows, Close(w)
  PROVE  WindowInv'
<1>1. PICK f : f = Fresh
  OBVIOUS
<1>2. Change(w, f) /\ UNCHANGED <<active, usual>>
  BY <1>1 DEF Close
<1>3. active' \in Spaces /\ usual' \in BOOLEAN /\ usual' = usual
  BY <1>2 DEF WindowInv, TypeOK
<1>4. Good(f, tiling, usual')
  BY <1>1, FreshIsGood
<1> QED BY <1>2, <1>3, <1>4, ChangeKeeps

\* The client's answer changes acked alone, which the invariant does not mention.
LEMMA AcknowledgeKeeps ==
  ASSUME WindowInv, Followed, NEW w \in Windows, Acknowledge(w)
  PROVE  WindowInv'
<1>1. PICK x : x = win[w]
  OBVIOUS
<1>2. /\ x \in WindowRecords /\ x.crash = "no" /\ Flagged(x)
      /\ ~x.open => x = Fresh
      /\ usual /\ x.open => Placed(x, tiling)
  BY <1>1, FollowedWindow
<1>3. x.open
  BY <1>1, <1>2, FreshFits DEF Acknowledge
<1>4. PICK y : y = [x EXCEPT !.acked = x.told]
  OBVIOUS
<1>5. /\ y \in WindowRecords /\ y.open = x.open /\ y.crash = x.crash /\ y.on = x.on
      /\ y.max = x.max /\ y.told = x.told
      /\ y.floating = x.floating /\ y.nodes = x.nodes /\ y.mini = x.mini
      /\ y.full = x.full /\ y.sticky = x.sticky /\ y.minimized = x.minimized
      /\ y.fullscreen = x.fullscreen /\ y.stuck = x.stuck
  BY <1>2, <1>4 DEF WindowRecords
<1>6. Flagged(y)
  BY <1>2, <1>5 DEF Flagged, Sticks
<1>7. Placed(x, tiling) => Placed(y, tiling)
  BY <1>5 DEF Placed, Lies, Stuck, Floats, Tiled, Hidden, Fills, Shown, Bare, NoNode,
              Sticks, ToldRight
<1>8. Change(w, y) /\ UNCHANGED <<active, usual>>
  BY <1>1, <1>4 DEF Acknowledge
<1>9. active' \in Spaces /\ usual' \in BOOLEAN /\ usual' = usual
  BY <1>8 DEF WindowInv, TypeOK
<1>10. Good(y, tiling, usual')
  BY <1>2, <1>3, <1>5, <1>6, <1>7, <1>9 DEF Good
<1> QED BY <1>8, <1>9, <1>10, ChangeKeeps

\* A request whose operation fits.
LEMMA FitKeeps ==
  ASSUME WindowInv, Followed, NEW w \in Windows, win[w].open, NEW y,
         Change(w, y), Fit(y, win[w]),
         active' = active, usual' \in BOOLEAN, usual' => usual,
         usual' /\ Lies(win[w], tiling) => Settled(y, win[w], tiling)
  PROVE  WindowInv'
<1>1. win[w].crash = "no" /\ (usual => Placed(win[w], tiling))
  BY FollowedWindow
<1>2. Good(y, tiling, usual')
  BY <1>1, FitIsGood DEF Placed
<1>3. active' \in Spaces
  BY DEF WindowInv, TypeOK
<1> QED BY <1>2, <1>3, ChangeKeeps

\* The requests for one window that are one operation of the shell.
LEMMA RequestKeeps ==
  ASSUME WindowInv, Followed, NEW w \in Windows,
         \/ Minimize(w) \/ Unminimize(w) \/ Maximize(w) \/ Unmaximize(w)
         \/ Fullscreen(w) \/ Unfullscreen(w)
  PROVE  WindowInv'
<1>1. TypeOK /\ usual \in BOOLEAN
  BY DEF WindowInv, TypeOK
<1>2. PICK x : x = win[w]
  OBVIOUS
<1>3. x \in WindowRecords /\ Flagged(x) /\ Apart(x) /\ (~x.open => x = Fresh)
  BY <1>2, FollowedWindow
<1>4. ASSUME NEW y, Change(w, y), x.open, UNCHANGED <<active, usual>>, Fit(y, x),
             Lies(x, tiling) => Settled(y, x, tiling)
      PROVE  WindowInv'
  BY <1>1, <1>2, <1>4, FitKeeps
<1>5. CASE Minimize(w)
  <2>1. PICK y : y = MinimizeOf(x)
    OBVIOUS
  <2>2. Change(w, y) /\ x.open /\ UNCHANGED <<active, usual>>
    BY <1>2, <1>5, <2>1 DEF Minimize
  <2> QED BY <1>1, <1>3, <1>4, <2>1, <2>2, MinimizeFits
<1>6. CASE Unminimize(w)
  <2>1. PICK y : y = UnminimizeOf(x)
    OBVIOUS
  <2>2. Change(w, y) /\ x.open /\ UNCHANGED <<active, usual>>
    BY <1>2, <1>6, <2>1 DEF Unminimize
  <2> QED BY <1>1, <1>3, <1>4, <2>1, <2>2, UnminimizeFits
<1>7. CASE Maximize(w)
  <2>1. PICK y : y = MaximizeOf(x)
    OBVIOUS
  <2>2. Change(w, y) /\ x.open /\ UNCHANGED <<active, usual>>
    BY <1>2, <1>7, <2>1 DEF Maximize, HasElement
  <2> QED BY <1>1, <1>3, <1>4, <2>1, <2>2, MaximizeFits
<1>8. CASE Unmaximize(w)
  <2>1. PICK y : y = UnmaximizeOf(x)
    OBVIOUS
  <2>2. Change(w, y) /\ x.open /\ UNCHANGED <<active, usual>>
    BY <1>2, <1>8, <2>1 DEF Unmaximize, HasElement
  <2> QED BY <1>1, <1>3, <1>4, <2>1, <2>2, UnmaximizeFits
<1>9. CASE Fullscreen(w)
  <2>1. PICK y : y = FullscreenOf(x)
    OBVIOUS
  <2>2. Change(w, y) /\ x.open /\ UNCHANGED <<active, usual>>
    BY <1>2, <1>9, <2>1 DEF Fullscreen, HasElement
  <2> QED BY <1>1, <1>3, <1>4, <2>1, <2>2, FullscreenFits
<1>10. CASE Unfullscreen(w)
  <2>1. PICK y : y = UnfullscreenOf(x)
    OBVIOUS
  <2>2. Change(w, y) /\ x.full # None /\ UNCHANGED <<active, usual>>
    BY <1>2, <1>10, <2>1 DEF Unfullscreen
  <2>3. x.open
    BY <1>3, <2>2, FreshFits
  <2> QED BY <1>1, <1>3, <1>4, <2>1, <2>2, <2>3, UnfullscreenFits
<1> QED BY <1>5, <1>6, <1>7, <1>8, <1>9, <1>10

\* toggle_sticky on a window whose client may still owe an answer: then the
\* history is not a usual one from there on.
LEMMA ToggleStickyKeeps ==
  ASSUME WindowInv, Followed, NEW w \in Windows, ToggleSticky(w)
  PROVE  WindowInv'
<1>1. TypeOK /\ usual \in BOOLEAN
  BY DEF WindowInv, TypeOK
<1>2. PICK x : x = win[w]
  OBVIOUS
<1>3. /\ x \in WindowRecords /\ Flagged(x) /\ Apart(x)
      /\ usual /\ x.open => Placed(x, tiling)
  BY <1>2, FollowedWindow
<1>4. PICK y : y = StickyToggled(x)
  OBVIOUS
<1>5. Change(w, y) /\ x.open /\ UNCHANGED active
      /\ usual' = (usual /\ x.told = x.acked)
  BY <1>2, <1>4 DEF ToggleSticky, HasElement
<1>6. usual' => Acked(x)
  <2>1. SUFFICES ASSUME usual /\ x.told = x.acked
                 PROVE  Acked(x)
    BY <1>5
  <2>2. ToldRight(x)
    BY <1>3, <1>5, <2>1 DEF Placed
  <2> QED BY <2>1, <2>2 DEF Acked, ToldRight
<1>7. Fit(y, x) /\ (Lies(x, tiling) /\ Acked(x) => Settled(y, x, tiling))
  BY <1>1, <1>3, <1>4, StickyToggledFits
<1>8. usual' \in BOOLEAN /\ (usual' => usual)
  BY <1>1, <1>5
<1> QED BY <1>2, <1>5, <1>6, <1>7, <1>8, FitKeeps

\* toggle_floating_window, by the shortcut or the menu.
LEMMA ToggleFloatingKeeps ==
  ASSUME WindowInv, Followed, NEW w \in Windows, NEW s \in Spaces, ToggleFloating(w, s)
  PROVE  WindowInv'
<1>1. TypeOK /\ usual \in BOOLEAN /\ active \in Spaces
  BY DEF WindowInv, TypeOK
<1>2. PICK x : x = win[w]
  OBVIOUS
<1>3. /\ x \in WindowRecords /\ Flagged(x) /\ Apart(x) /\ x.crash = "no"
      /\ ~x.open => x = Fresh
      /\ usual /\ x.open => Placed(x, tiling)
  BY <1>2, FollowedWindow
<1>4. PICK y : y = FloatingToggled(x, s)
  OBVIOUS
<1>5. Change(w, y) /\ (Mapped(x, s) \/ Sticks(x)) /\ UNCHANGED active
      /\ usual' = (usual /\ x.told = x.acked)
  BY <1>2, <1>4 DEF ToggleFloating, Focusable
<1>6. x.open
  BY <1>3, <1>5, FreshFits
<1>7. /\ y \in WindowRecords /\ Kept(y, x)
      /\ Lies(x, tiling) /\ Acked(x) /\ s \in Homes(x) => Settled(y, x, tiling)
      /\ Stuck(x) /\ Acked(x) => y = x \/ y.crash = "Sticky"
  BY <1>1, <1>3, <1>4, FloatingToggledMoves
<1>8. Fit(y, x)
  BY <1>3, <1>7, KeptFlags DEF Fit, Kept
<1>9. usual' => y.crash = "Sticky" \/ (ToldRight(x) /\ Settled(y, x, tiling))
  <2>1. SUFFICES ASSUME usual /\ x.told = x.acked
                 PROVE  y.crash = "Sticky" \/ (ToldRight(x) /\ Settled(y, x, tiling))
    BY <1>5
  <2>2. ToldRight(x) /\ Lies(x, tiling)
    BY <1>3, <1>6, <2>1 DEF Placed
  <2>3. Acked(x)
    BY <2>1, <2>2 DEF Acked, ToldRight
  <2>4. CASE Mapped(x, s)
    <3>1. s \in Homes(x)
      BY <2>4 DEF Homes
    <3> QED BY <1>7, <2>2, <2>3, <3>1
  <2>5. CASE Sticks(x)
    <3>1. Stuck(x)
      BY <2>2, <2>5 DEF Lies, Floats, Tiled, Hidden, Fills, Shown
    <3> QED BY <1>7, <2>2, <2>3, <3>1 DEF Settled
  <2> QED BY <1>5, <2>4, <2>5
<1>10. Good(y, tiling, usual')
  BY <1>3, <1>6, <1>8, <1>9, FitIsGood
<1>11. active' \in Spaces /\ usual' \in BOOLEAN /\ (usual' => usual)
  BY <1>1, <1>5
<1> QED BY <1>5, <1>10, <1>11, ChangeKeeps

\* The rest of the windows, with or without room made for w.
LEMMA OthersFit ==
  ASSUME WindowInv, Followed, NEW w \in Windows, NEW s \in Spaces,
         NEW tile, NEW old, old = IF tile THEN RoomFor(w, s) ELSE win
  PROVE  old = [v \in Windows |-> old[v]] /\ \A v \in Windows : Good(old[v], tiling, usual)
<1>1. RoomFor(w, s) = [v \in Windows |-> RoomFor(w, s)[v]]
  BY DEF RoomFor
<1>2. win = [v \in Windows |-> win[v]] /\ \A v \in Windows : Good(win[v], tiling, usual)
  BY DEF WindowInv, TypeOK
<1> QED BY <1>1, <1>2, RoomForFits

\* Forgetting where one window was keeps the type of the history.
LEMMA ForgottenFits ==
  ASSUME TypeOK, NEW w \in Windows
  PROVE  [was EXCEPT ![w] = None] \in [Windows -> Memories]
BY DEF TypeOK, Memories, Places

\* Reannounced, and what that leaves alone.
LEMMA ReannouncedMoves ==
  ASSUME NEW v \in WindowRecords, NEW from \in Spaces, NEW to \in Spaces
  PROVE  LET z == Reannounced(v, from, to) IN
         /\ z \in WindowRecords /\ z.open = v.open /\ z.crash = v.crash
         /\ z.on = (v.on \ {from}) \cup {to}
         /\ z.max = v.max /\ z.told = v.told /\ z.floating = v.floating
         /\ z.nodes = v.nodes /\ z.mini = v.mini /\ z.full = v.full
         /\ z.sticky = v.sticky /\ (Flagged(v) => Flagged(z))
<1>1. PICK on \in SUBSET Spaces : on = (v.on \ {from}) \cup {to}
  BY DEF WindowRecords
<1>2. PICK z : z = Reannounced(v, from, to)
  OBVIOUS
<1>3. z = [v EXCEPT !.on = on]
  BY <1>1, <1>2 DEF Reannounced, WindowRecords
<1>4. /\ z \in WindowRecords /\ z.open = v.open /\ z.crash = v.crash /\ z.on = on
      /\ z.max = v.max /\ z.told = v.told /\ z.floating = v.floating
      /\ z.nodes = v.nodes /\ z.mini = v.mini /\ z.full = v.full
      /\ z.sticky = v.sticky /\ z.minimized = v.minimized
      /\ z.fullscreen = v.fullscreen /\ z.stuck = v.stuck
  BY <1>3 DEF WindowRecords
<1>5. Flagged(v) => Flagged(z)
  BY <1>4 DEF Flagged, Sticks
<1> QED BY <1>1, <1>2, <1>4, <1>5

\* A window that was taken out of a layer of from is put down on to.
LEMMA MovedOver ==
  ASSUME NEW y \in WindowRecords, Flagged(y), NEW from \in Spaces, NEW to \in Spaces,
         y.nodes[to] <= 1, NEW tile \in BOOLEAN, NEW m \in BOOLEAN, m => ~tile,
         NEW tl, tile => tl[to],
         NEW z, z = Reannounced(PutDown(y, to, tile, m, "Floating"), from, to)
  PROVE  /\ z \in WindowRecords /\ z.open = y.open /\ Flagged(z)
         /\ z.crash = y.crash
         /\ Bare(y) /\ y.max = None /\ Shown(y) /\ y.on = {from} /\ ~y.told =>
              Placed(z, tl)
<1>1. PICK layer \in {"Floating", "Tiling"} : layer = "Floating"
  OBVIOUS
<1>2. PICK v : v = PutDown(y, to, tile, m, layer)
  OBVIOUS
<1>3. /\ v \in WindowRecords /\ Moved(v, y) /\ v.crash = y.crash
      /\ m => v.told
      /\ ~m => v.told = y.told
      /\ Bare(y) /\ (m \/ y.max = None) => Down(v, to, tile, m, layer)
  BY <1>2, PutDownMoves
<1>4. z = Reannounced(v, from, to)
  BY <1>1, <1>2
<1>5. /\ z \in WindowRecords /\ z.open = v.open /\ z.crash = v.crash
      /\ z.on = (v.on \ {from}) \cup {to}
      /\ z.max = v.max /\ z.told = v.told /\ z.floating = v.floating
      /\ z.nodes = v.nodes /\ z.mini = v.mini /\ z.full = v.full
      /\ z.sticky = v.sticky /\ (Flagged(v) => Flagged(z))
  BY <1>3, <1>4, ReannouncedMoves
<1>6. Flagged(z)
  BY <1>3, <1>5, KeptFlags DEF Moved
<1>7. ASSUME Bare(y), y.max = None, Shown(y), y.on = {from}, ~y.told
      PROVE  Placed(z, tl)
  <2>1. Down(v, to, tile, m, layer)
    BY <1>3, <1>7
  <2>2. Down(z, to, tile, m, layer)
    BY <1>5, <2>1 DEF Down, NoNode
  <2>3. z.on = {to} /\ Shown(z)
    BY <1>3, <1>5, <1>7 DEF Shown, Sticks, Moved, Kept
  <2>4. Lies(z, tl)
    BY <1>1, <2>2, <2>3, DownLies
  <2>5. z.max = IF m THEN layer ELSE None
    BY <2>2 DEF Down
  <2>6. ToldRight(z)
    BY <1>3, <1>5, <1>7, <2>5, NoneAssumption DEF ToldRight
  <2> QED BY <2>4, <2>6 DEF Placed
<1> QED BY <1>1, <1>2, <1>3, <1>4, <1>5, <1>6, <1>7 DEF Moved, Kept

\* Floating and maximizing is maximizing.
LEMMA MaximizedOnce ==
  ASSUME NEW y \in WindowRecords, NEW s \in Spaces, NEW layer
  PROVE  Maximized(Float(y, s), s, layer) = Maximized(y, s, layer)
<1>1. PICK f \in SUBSET Spaces : f = y.floating \cup {s}
  BY DEF WindowRecords
<1>2. f = f \cup {s}
  BY <1>1
<1>3. PICK v : v = [y EXCEPT !.floating = f]
  OBVIOUS
<1>4. Float(y, s) = v /\ v \in WindowRecords /\ v.floating = f
  BY <1>1, <1>3 DEF Float, WindowRecords
<1>5. Float(v, s) = v
  BY <1>2, <1>3, <1>4 DEF Float, WindowRecords
<1> QED BY <1>4, <1>5 DEF Maximized

\* move_element: out of the active workspace, into another, and announced there.
LEMMA MoveCurrentKeeps ==
  ASSUME WindowInv, Followed, NEW w \in Windows, NEW to \in Spaces,
         NEW follow \in BOOLEAN, MoveCurrent(w, to, follow)
  PROVE  WindowInv'
<1>1. /\ TypeOK /\ usual \in BOOLEAN /\ active \in Spaces
      /\ tiling \in [Spaces -> BOOLEAN]
  BY DEF WindowInv, TypeOK
<1>2. PICK x : x = win[w]
  OBVIOUS
<1>3. /\ x \in WindowRecords /\ Flagged(x) /\ Apart(x) /\ x.crash = "no"
      /\ ~x.open => x = Fresh
      /\ usual /\ x.open => Placed(x, tiling)
  BY <1>2, FollowedWindow
<1>4. PICK y : y = Unmapped(x, active)
  OBVIOUS
<1>5. PICK back : back = WayBack(x, active)
  OBVIOUS
<1>6. PICK tile \in BOOLEAN : tile = (back # None /\ tiling[to])
  OBVIOUS
<1>7. PICK m \in BOOLEAN : m = (back # None /\ ~tile /\ back.kind = "Floating" /\ back.max)
  OBVIOUS
<1>8. PICK z : z = IF back = None THEN y
                   ELSE Reannounced(PutDown(y, to, tile, m, "Floating"), active, to)
  OBVIOUS
<1>9. PICK old : old = IF tile THEN RoomFor(w, to) ELSE win
  OBVIOUS
<1>10. /\ Mapped(x, active) \/ Sticks(x)
       /\ win' = [old EXCEPT ![w] = z]
       /\ was' = [was EXCEPT ![w] = None]
       /\ active' = (IF follow /\ back # None THEN to ELSE active)
       /\ UNCHANGED <<tiling, mode, restore, usual>>
  <2> DEFINE moved == IF back = None THEN y
                      ELSE IF tile THEN Tile(y, to)
                      ELSE IF back.kind = "Floating" /\ back.max
                      THEN Maximized(y, to, "Floating") ELSE Float(y, to)
             final == IF back = None THEN moved ELSE Reannounced(moved, active, to)
  <2>1. /\ Mapped(x, active) \/ Sticks(x)
        /\ win' = [old EXCEPT ![w] = final]
        /\ was' = [was EXCEPT ![w] = None]
        /\ active' = (IF follow /\ back # None THEN to ELSE active)
        /\ UNCHANGED <<tiling, mode, restore, usual>>
    BY <1>2, <1>4, <1>5, <1>6, <1>9, Zenon DEF MoveCurrent, Focusable
  <2>2. CASE back = None
    BY <1>8, <2>1, <2>2
  <2>3. CASE back # None
    <3>1. moved = PutDown(y, to, tile, m, "Floating")
      <4>1. CASE tile
        BY <1>7, <2>3, <4>1, Zenon DEF PutDown
      <4>2. CASE ~tile
        <5>1. m <=> back.kind = "Floating" /\ back.max
          BY <1>7, <2>3, <4>2
        <5>2. CASE m
          <6>1. PutDown(y, to, tile, m, "Floating") = Maximized(Float(y, to), to, "Floating")
            BY <4>2, <5>2, Zenon DEF PutDown
          <6>2. y \in WindowRecords
            BY <1>1, <1>3, <1>4, UnmappedMoves DEF Lifted
          <6>3. Maximized(Float(y, to), to, "Floating") = Maximized(y, to, "Floating")
            BY <6>2, MaximizedOnce
          <6> QED BY <2>3, <4>2, <5>1, <5>2, <6>1, <6>3
        <5>3. CASE ~m
          BY <2>3, <4>2, <5>1, <5>3, Zenon DEF PutDown
        <5> QED BY <5>2, <5>3
      <4> QED BY <4>1, <4>2
    <3>2. final = z
      BY <1>8, <2>3, <3>1
    <3> QED BY <2>1, <3>2
  <2> QED BY <2>2, <2>3
<1>11. x.open
  BY <1>1, <1>3, <1>10, FreshFits
<1>12. x.mini = None
  BY <1>1, <1>3, <1>10 DEF Apart
<1>13. /\ Lifted(y, x)
       /\ active \in Homes(x) /\ Lies(x, tiling) =>
            /\ Bare(y) /\ y.max = None /\ y.crash = x.crash /\ (ToldRight(x) => ~y.told)
       /\ x.max = "Sticky" => y.crash = "Sticky"
       /\ x.max = None => /\ y.crash = x.crash /\ y.max = None /\ y.told = x.told
                          /\ Bare(x) => Bare(y)
  BY <1>1, <1>3, <1>4, <1>12, UnmappedMoves
<1>14. y \in WindowRecords /\ Flagged(y) /\ y.open
  BY <1>3, <1>11, <1>12, <1>13, LiftedFlags DEF Lifted
<1>15. Good(z, tiling, usual)
  <2>1. CASE back = None
    <3>1. active \notin Homes(x)
      <4>1. SUFFICES ASSUME active \in Homes(x)
                     PROVE  FALSE
        OBVIOUS
      <4>2. WayBack(x, active) \in WayBacks
        BY <1>3, <1>12, <4>1, WayBackFits
      <4> QED BY <1>5, <2>1, <4>2, NoneAssumption
    <3>2. Sticks(x)
      BY <1>1, <1>10, <3>1 DEF Homes
    <3>3. usual => y.crash = "Sticky" \/ (y.crash = "no" /\ Placed(y, tiling))
      <4>1. SUFFICES ASSUME usual
                     PROVE  y.crash = "Sticky" \/ (y.crash = "no" /\ Placed(y, tiling))
        OBVIOUS
      <4>2. Stuck(x) /\ ToldRight(x)
        BY <1>3, <1>11, <3>2, <4>1
        DEF Placed, Lies, Floats, Tiled, Hidden, Fills, Shown
      <4>3. CASE x.max = "Sticky"
        BY <1>13, <4>3
      <4>4. CASE x.max = None
        <5>1. Stuck(y)
          BY <1>13, <4>2, <4>4 DEF Stuck, Lifted, Sticks
        <5>2. ToldRight(y)
          BY <1>13, <4>2, <4>4 DEF ToldRight
        <5> QED BY <1>3, <1>13, <4>4, <5>1, <5>2 DEF Placed, Lies
      <4> QED BY <4>2, <4>3, <4>4 DEF Stuck
    <3>4. z = y
      BY <1>8, <2>1
    <3> QED BY <1>14, <3>3, <3>4 DEF Good
  <2>2. CASE back # None
    <3>1. active \in Homes(x)
      BY <1>5, <2>2, Zenon DEF WayBack
    <3>2. y.nodes[to] <= 1
      <4>1. x.nodes[to] \in 0 .. 2 /\ y.nodes[to] \in 0 .. 2
        BY <1>3, <1>14 DEF WindowRecords
      <4> QED BY <4>1, <1>3, <1>13 DEF Apart, Lifted
    <3>3. (tile => tiling[to]) /\ (m => ~tile)
      BY <1>6, <1>7
    <3>4. z = Reannounced(PutDown(y, to, tile, m, "Floating"), active, to)
      BY <1>8, <2>2
    <3>5. /\ z \in WindowRecords /\ z.open = y.open /\ Flagged(z)
          /\ z.crash = y.crash
          /\ Bare(y) /\ y.max = None /\ Shown(y) /\ y.on = {active} /\ ~y.told =>
               Placed(z, tiling)
      <4>1. PICK from \in Spaces : from = active
        BY <1>1
      <4>2. PICK p : p = Reannounced(PutDown(y, to, tile, m, "Floating"), from, to)
        OBVIOUS
      <4>3. /\ p \in WindowRecords /\ p.open = y.open /\ Flagged(p)
            /\ p.crash = y.crash
        <5>1. y \in WindowRecords /\ Flagged(y)
          BY <1>14
        <5> QED BY <3>2, <3>3, <4>2, <5>1, MovedOver
      <4>4. ASSUME Bare(y), y.max = None, Shown(y), y.on = {from}, ~y.told
            PROVE  Placed(p, tiling)
        BY <1>14, <3>2, <3>3, <4>2, <4>4, MovedOver
      <4> QED BY <3>4, <4>1, <4>2, <4>3, <4>4
    <3>6. usual => Placed(z, tiling) /\ z.crash = "no"
      <4>1. SUFFICES ASSUME usual
                     PROVE  Placed(z, tiling) /\ z.crash = "no"
        OBVIOUS
      <4>2. Lies(x, tiling) /\ ToldRight(x)
        BY <1>3, <1>11, <4>1 DEF Placed
      <4>3. Floats(x, active, tiling) \/ Tiled(x, active, tiling)
        BY <1>12, <3>1, <4>2, LiesHome DEF Hidden
      <4>4. Shown(y) /\ y.on = {active}
        BY <1>13, <4>3 DEF Floats, Tiled, Shown, Lifted, Sticks
      <4> QED BY <1>3, <1>13, <3>1, <3>5, <4>2, <4>4
    <3> QED BY <1>14, <3>5, <3>6 DEF Good
  <2> QED BY <2>1, <2>2
<1>16. old = [v \in Windows |-> old[v]] /\ \A v \in Windows : Good(old[v], tiling, usual)
  BY <1>9, OthersFit
<1>17. PICK after \in [Windows -> Memories] : after = [was EXCEPT ![w] = None]
  BY <1>1, ForgottenFits
<1>18. active' \in Spaces /\ usual' \in BOOLEAN /\ usual' = usual
  BY <1>1, <1>10
<1>19. Good(z, tiling, usual')
  BY <1>15, <1>18
<1>20. /\ win' = [old EXCEPT ![w] = z] /\ was' = after
       /\ UNCHANGED <<tiling, mode, restore>>
  BY <1>10, <1>17
<1> QED BY <1>16, <1>18, <1>19, <1>20, OneChanges

\* move_window, also of minimized and fullscreen windows.
LEMMA MoveWindowKeeps ==
  ASSUME WindowInv, Followed, NEW w \in Windows, NEW from \in Spaces, NEW to \in Spaces,
         NEW follow \in BOOLEAN, MoveWindow(w, from, to, follow)
  PROVE  WindowInv'
<1>1. /\ TypeOK /\ usual \in BOOLEAN /\ active \in Spaces
      /\ tiling \in [Spaces -> BOOLEAN]
  BY DEF WindowInv, TypeOK
<1>2. PICK x : x = win[w]
  OBVIOUS
<1>3. /\ x \in WindowRecords /\ Flagged(x) /\ Apart(x) /\ x.crash = "no"
      /\ ~x.open => x = Fresh
      /\ usual /\ x.open => Placed(x, tiling)
  BY <1>2, FollowedWindow
<1>4. PICK y : y = [Unmapped(x, from) EXCEPT !.before = None]
  OBVIOUS
<1>5. PICK tile \in BOOLEAN : tile = (x.full = None /\ x.mini = None /\ tiling[to])
  OBVIOUS
<1>6. PICK b : b = x.full.back
  OBVIOUS
<1>7. PICK back : back = IF b = None THEN None
                         ELSE IF tiling[to] /\ ~tiling[from]
                         THEN [kind |-> "Tiling", space |-> to, max |-> b.max]
                         ELSE IF b.kind = "Sticky" THEN b ELSE [b EXCEPT !.space = to]
  OBVIOUS
<1>8. PICK moved : moved = CASE x.full # None -> MadeFullscreen(x, to, back)
                             [] x.mini # None -> [y EXCEPT !.mini = [x.mini EXCEPT !.space = to],
                                                           !.minimized = TRUE]
                             [] tile -> Tile(y, to)
                             [] OTHER -> Float(y, to)
  OBVIOUS
<1>9. PICK z : z = Reannounced(moved, from, to)
  OBVIOUS
<1>10. PICK old : old = IF tile THEN RoomFor(w, to) ELSE win
  OBVIOUS
<1>11. PICK after \in [Windows -> Memories] : after = [was EXCEPT ![w] = None]
  BY <1>1, ForgottenFits
<1>12. /\ IF x.full # None THEN x.full.space = from ELSE from \in Homes(x)
       /\ win' = [old EXCEPT ![w] = z] /\ was' = after
       /\ active' = (IF follow /\ ~x.minimized THEN to ELSE active)
       /\ UNCHANGED <<tiling, mode, restore, usual>>
  BY <1>2, <1>4, <1>5, <1>6, <1>7, <1>8, <1>9, <1>10, <1>11, Zenon DEF MoveWindow
<1>13. x.open
  BY <1>3, <1>12, FreshFits DEF Homes
<1>14. usual => Lies(x, tiling) /\ ToldRight(x)
  BY <1>3, <1>13 DEF Placed
<1>15. PICK u : u = Unmapped(x, from)
  OBVIOUS
<1>16. /\ Lifted(u, x)
       /\ from \in Homes(x) /\ Lies(x, tiling) =>
            /\ Bare(u) /\ u.max = None /\ u.crash = x.crash /\ (ToldRight(x) => ~u.told)
  BY <1>1, <1>3, <1>15, UnmappedMoves
<1>17. y = [u EXCEPT !.before = None]
  BY <1>4, <1>15
<1>18. /\ y \in WindowRecords /\ y.open = u.open /\ y.crash = u.crash /\ y.on = u.on
       /\ y.max = u.max /\ y.told = u.told
       /\ y.floating = u.floating /\ y.nodes = u.nodes /\ y.mini = u.mini
       /\ y.full = u.full /\ y.sticky = u.sticky /\ y.minimized = u.minimized
       /\ y.fullscreen = u.fullscreen /\ y.stuck = u.stuck
  BY <1>16, <1>17 DEF WindowRecords, Lifted
<1>19. Good(z, tiling, usual)
  <2>1. CASE x.full # None
    <3>1. PICK f \in FullscreenSurfaces : f = x.full
      BY <1>3, <2>1 DEF WindowRecords
    <3>2. b \in {None} \cup WayBacks /\ b = f.back
      BY <1>6, <3>1 DEF FullscreenSurfaces
    <3>3. x.mini = None /\ ~Sticks(x)
      BY <1>3, <2>1 DEF Apart
    <3>4. b # None /\ b.kind = "Sticky" => x.stuck
      BY <1>3, <1>6, <2>1, Zenon DEF Flagged
    <3>5. back \in {None} \cup WayBacks /\ (back # None /\ back.kind = "Sticky" => x.stuck)
      <4>1. CASE b = None
        BY <1>7, <4>1
      <4>2. CASE b # None /\ tiling[to] /\ ~tiling[from]
        BY <1>7, <3>2, <4>2 DEF WayBacks
      <4>3. CASE b # None /\ ~(tiling[to] /\ ~tiling[from]) /\ b.kind = "Sticky"
        BY <1>7, <3>2, <3>4, <4>3
      <4>4. CASE b # None /\ ~(tiling[to] /\ ~tiling[from]) /\ b.kind # "Sticky"
        BY <1>7, <3>2, <4>4 DEF WayBacks
      <4> QED BY <4>1, <4>2, <4>3, <4>4
    <3>6. moved = MadeFullscreen(x, to, back)
      <4>1. ~tile
        BY <1>5, <2>1
      <4> QED BY <1>8, <2>1, <3>3, <4>1
    <3>7. /\ moved \in WindowRecords /\ moved.open = x.open /\ moved.crash = x.crash
          /\ Flagged(moved)
          /\ moved.told = x.told /\ moved.max = None /\ moved.on = x.on
          /\ moved.mini = x.mini
          /\ moved.full # None /\ moved.full.space = to /\ moved.sticky = x.sticky
          /\ Bare(x) => Bare(moved)
      BY <1>3, <3>3, <3>5, <3>6, MadeFullscreenMoves
    <3>8. /\ z \in WindowRecords /\ z.open = moved.open /\ z.crash = moved.crash
          /\ z.on = (moved.on \ {from}) \cup {to}
          /\ z.max = moved.max /\ z.told = moved.told /\ z.floating = moved.floating
          /\ z.nodes = moved.nodes /\ z.mini = moved.mini /\ z.full = moved.full
          /\ z.sticky = moved.sticky /\ Flagged(z)
      BY <1>9, <3>7, ReannouncedMoves
    <3>9. ASSUME usual
          PROVE  Placed(z, tiling)
      <4>1. Fills(x, from)
        BY <1>12, <1>14, <2>1, <3>9 DEF Lies, Stuck, Floats, Tiled, Hidden, Fills, Shown
      <4>2. Fills(z, to)
        BY <3>3, <3>7, <3>8, <4>1 DEF Fills, Bare, NoNode, Sticks
      <4>3. ToldRight(z)
        BY <1>14, <3>7, <3>8, <3>9, <4>1 DEF ToldRight, Fills
      <4> QED BY <4>2, <4>3 DEF Placed, Lies
    <3> QED BY <1>3, <1>13, <3>7, <3>8, <3>9 DEF Good
  <2>2. CASE x.full = None /\ x.mini # None
    <3>1. PICK n \in MinimizedWindows : n = x.mini
      BY <1>3, <2>2 DEF WindowRecords
    <3>2. PICK m : m = [n EXCEPT !.space = to]
      OBVIOUS
    <3>3. m \in MinimizedWindows /\ m.space = to /\ m.kind = n.kind /\ m # None
      <4>1. m \in MinimizedWindows /\ m.space = to /\ m.kind = n.kind
        BY <3>2 DEF MinimizedWindows
      <4> QED BY <4>1, NoneAssumption
    <3>4. from \in Homes(x)
      BY <1>12, <2>2
    <3>5. n.kind # "Fullscreen"
      BY <1>3, <2>2, <3>1, <3>4 DEF Homes, Apart
    <3>6. ~tile
      BY <1>5, <2>2
    <3>7. moved = [y EXCEPT !.mini = m, !.minimized = TRUE]
      BY <1>8, <2>2, <3>1, <3>2, <3>6
    <3>8. /\ moved \in WindowRecords /\ moved.open = y.open /\ moved.crash = y.crash
          /\ moved.on = y.on /\ moved.max = y.max /\ moved.told = y.told
          /\ moved.floating = y.floating /\ moved.nodes = y.nodes /\ moved.mini = m
          /\ moved.full = y.full /\ moved.sticky = y.sticky /\ moved.minimized
          /\ moved.fullscreen = y.fullscreen /\ moved.stuck = y.stuck
      BY <1>18, <3>3, <3>7 DEF WindowRecords
    <3>9. Flagged(u) /\ ~Sticks(u) /\ u.full = None
      BY <1>3, <1>16, <2>2, <3>1, <3>5, LiftedFlags DEF Lifted, Apart, Sticks
    <3>10. Flagged(moved)
      <4>1. ~u.fullscreen
        BY <1>16, <3>9 DEF Flagged, Lifted
      <4> QED BY <1>18, <3>3, <3>5, <3>8, <3>9, <4>1 DEF Flagged, Sticks
    <3>11. /\ z \in WindowRecords /\ z.open = moved.open /\ z.crash = moved.crash
           /\ z.on = (moved.on \ {from}) \cup {to}
           /\ z.max = moved.max /\ z.told = moved.told /\ z.floating = moved.floating
           /\ z.nodes = moved.nodes /\ z.mini = moved.mini /\ z.full = moved.full
           /\ z.sticky = moved.sticky /\ Flagged(z)
      BY <1>9, <3>8, <3>10, ReannouncedMoves
    <3>12. ASSUME usual
           PROVE  Placed(z, tiling) /\ z.crash = "no"
      <4>1. Hidden(x, from)
        BY <1>14, <2>2, <3>4, <3>12, LiesHome DEF Floats, Tiled, Shown
      <4>2. /\ Bare(u) /\ u.max = None /\ u.crash = x.crash /\ ~u.told /\ u.on = {from}
        BY <1>14, <1>16, <3>4, <3>12, <4>1 DEF Lifted, Hidden
      <4>3. Hidden(z, to)
        BY <1>18, <3>3, <3>8, <3>9, <3>11, <4>2 DEF Hidden, Bare, NoNode, Sticks
      <4>4. ToldRight(z)
        BY <1>18, <3>8, <3>11, <4>2 DEF ToldRight
      <4> QED BY <1>3, <1>18, <3>8, <3>11, <4>2, <4>3, <4>4 DEF Placed, Lies
    <3>13. z.open
      BY <1>13, <1>16, <1>18, <3>8, <3>11 DEF Lifted
    <3> QED BY <3>11, <3>12, <3>13 DEF Good
  <2>3. CASE x.full = None /\ x.mini = None
    <3>1. from \in Homes(x)
      BY <1>12, <2>3
    <3>2. PICK no \in BOOLEAN : ~no
      OBVIOUS
    <3>3. PICK p : p = PutDown(y, to, tile, no, "Floating")
      OBVIOUS
    <3>4. moved = p
      <4>1. p = IF tile THEN Tile(y, to) ELSE Float(y, to)
        BY <3>2, <3>3, Zenon DEF PutDown
      <4> QED BY <1>8, <2>3, <4>1
    <3>5. Flagged(u) /\ ~Sticks(u) /\ u.full = None /\ u.mini = None
      <4>1. ~Sticks(x)
        BY <1>3, <2>3, <3>1 DEF Homes, Apart
      <4> QED BY <1>3, <1>16, <2>3, <4>1, LiftedFlags DEF Lifted, Sticks
    <3>6. Flagged(y) /\ Shown(y)
      BY <1>18, <3>5 DEF Flagged, Shown, Sticks
    <3>7. y.nodes[to] <= 1
      <4>1. x.nodes[to] \in 0 .. 2 /\ y.nodes[to] \in 0 .. 2
        BY <1>3, <1>18 DEF WindowRecords
      <4> QED BY <4>1, <1>3, <1>16, <1>18 DEF Apart, Lifted
    <3>8. z = Reannounced(PutDown(y, to, tile, no, "Floating"), from, to)
      BY <1>9, <3>3, <3>4
    <3>9. y \in WindowRecords /\ (tile => tiling[to]) /\ (no => ~tile)
      BY <1>5, <1>18, <3>2
    <3>10. /\ z \in WindowRecords /\ z.open = y.open /\ Flagged(z)
           /\ z.crash = y.crash
      BY <3>6, <3>7, <3>8, <3>9, MovedOver
    <3>11. ASSUME usual
           PROVE  Placed(z, tiling) /\ z.crash = "no"
      <4>1. Floats(x, from, tiling) \/ Tiled(x, from, tiling)
        BY <1>14, <2>3, <3>1, <3>11, LiesHome DEF Hidden
      <4>2. Bare(u) /\ u.max = None /\ u.crash = x.crash /\ ~u.told /\ u.on = {from}
        BY <1>14, <1>16, <3>1, <3>11, <4>1 DEF Lifted, Floats, Tiled
      <4>3. Bare(y) /\ y.max = None /\ ~y.told /\ y.on = {from}
        BY <1>18, <4>2 DEF Bare, NoNode
      <4>4. Placed(z, tiling)
        BY <3>6, <3>7, <3>8, <3>9, <4>3, MovedOver
      <4> QED BY <1>3, <1>18, <3>10, <4>2, <4>4
    <3>12. z.open
      BY <1>13, <1>16, <1>18, <3>10 DEF Lifted
    <3> QED BY <3>10, <3>11, <3>12 DEF Good
  <2> QED BY <2>1, <2>2, <2>3
<1>20. old = [v \in Windows |-> old[v]] /\ \A v \in Windows : Good(old[v], tiling, usual)
  <2>1. old = [v \in Windows |-> old[v]]
    BY <1>10, OthersFit
  <2>2. \A v \in Windows : Good(old[v], tiling, usual)
    BY <1>10, OthersFit
  <2> QED BY <2>1, <2>2
<1>21. active' \in Spaces /\ usual' \in BOOLEAN /\ usual' = usual
  BY <1>1, <1>12
<1>22. Good(z, tiling, usual')
  BY <1>19, <1>21
<1>23. /\ win' = [old EXCEPT ![w] = z] /\ was' = after
       /\ UNCHANGED <<tiling, mode, restore>>
  BY <1>12
<1> QED BY <1>20, <1>21, <1>22, <1>23, OneChanges

\* The request of a panel: the window is unminimized, and those that are mapped
\* where it is tiled may be unmaximized.
LEMMA ActivateKeeps ==
  ASSUME WindowInv, Followed, NEW w \in Windows, NEW elsewhere \in BOOLEAN,
         Activate(w, elsewhere)
  PROVE  WindowInv'
<1> DEFINE x == UnminimizeOf(win[w])
           at == {s \in Spaces : Mapped(x, s) \/ (x.full # None /\ x.full.space = s)}
           room == {s \in at : elsewhere /\ IsTiled(x, s)}
           new == [v \in Windows |->
                     IF v = w THEN x
                     ELSE IF \E s \in room : Mapped(win[v], s)
                     THEN RoomFor(w, CHOOSE s \in room : Mapped(win[v], s))[v]
                     ELSE win[v]]
<1>1. TypeOK /\ usual \in BOOLEAN /\ active \in Spaces
  BY DEF WindowInv, TypeOK
<1>2. /\ win' = new /\ was' = Remembered(new)
      /\ active' = (IF at = {} THEN active ELSE CHOOSE s \in at : TRUE)
      /\ UNCHANGED <<tiling, mode, restore, usual>>
  BY DEF Activate
<1>3. win[w].open
  BY DEF Activate
<1>4. Good(x, tiling, usual)
  <2>1. /\ win[w] \in WindowRecords /\ Flagged(win[w]) /\ Apart(win[w])
        /\ win[w].crash = "no" /\ (usual => Placed(win[w], tiling))
    BY <1>3, FollowedWindow
  <2>2. Fit(x, win[w]) /\ (Lies(win[w], tiling) => Settled(x, win[w], tiling))
    BY <1>1, <2>1, UnminimizeFits
  <2> QED BY <1>3, <2>1, <2>2, FitIsGood DEF Placed
<1> HIDE DEF x
<1>5. \A s \in at : s \in Spaces
  OBVIOUS
<1>6. \A s \in room : s \in Spaces
  OBVIOUS
<1> HIDE DEF at, room
<1>7. /\ new = [v \in Windows |-> new[v]]
      /\ \A v \in Windows :
           new[v] = IF v = w THEN x
                    ELSE IF \E s \in room : Mapped(win[v], s)
                    THEN RoomFor(w, CHOOSE s \in room : Mapped(win[v], s))[v]
                    ELSE win[v]
  BY Zenon
<1> HIDE DEF new
<1>8. active' \in Spaces
  <2>1. CASE at = {}
    BY <1>1, <1>2, <2>1
  <2>2. CASE at # {}
    <3>1. PICK a : a = CHOOSE s \in at : TRUE
      OBVIOUS
    <3>2. a \in at
      BY <2>2, <3>1
    <3> QED BY <1>2, <1>5, <2>2, <3>1, <3>2
  <2> QED BY <2>1, <2>2
<1>9. ASSUME NEW v \in Windows
      PROVE  Good(new[v], tiling, usual)
  <2>1. CASE v = w
    BY <1>4, <1>7, <2>1
  <2>2. CASE v # w /\ \E s \in room : Mapped(win[v], s)
    <3>1. PICK s : s = CHOOSE h \in room : Mapped(win[v], h)
      OBVIOUS
    <3>2. s \in Spaces
      BY <1>6, <2>2, <3>1
    <3>3. new[v] = RoomFor(w, s)[v]
      BY <1>7, <2>2, <3>1
    <3> QED BY <3>2, <3>3, RoomForFits
  <2>3. CASE v # w /\ ~\E s \in room : Mapped(win[v], s)
    <3>1. new[v] = win[v]
      BY <1>7, <2>3
    <3> QED BY <3>1 DEF WindowInv
  <2> QED BY <2>1, <2>2, <2>3
<1>10. PICK after \in [Windows -> Memories] : after = Remembered(new)
  BY <1>1, RememberedFits
<1>11. UNCHANGED <<tiling, mode, restore, usual>> /\ win' = new /\ was' = after
  BY <1>2, <1>10
<1>12. /\ tiling' \in [Spaces -> BOOLEAN] /\ mode' \in [Spaces -> Layouts]
       /\ restore' \in [Spaces -> {None, "Floating", "Tiling"}] /\ usual' \in BOOLEAN
       /\ \A s \in Spaces : mode'[s] = "Monocle" => ~usual' /\ restore'[s] # None
  BY <1>11 DEF WindowInv, TypeOK
<1>13. \A v \in Windows : Good(new[v], tiling', usual')
  BY <1>9, <1>11
<1> QED BY <1>7, <1>8, <1>11, <1>12, <1>13, StepKeeps

\* Without any request for a window, nothing is remembered.
LEMMA AllForgotten ==
  [w \in Windows |-> None] \in [Windows -> Memories]
BY DEF Memories, Places

\* One window while a workspace changes.
LEMMA TilingSetGood ==
  ASSUME WindowInv, Followed, NEW w \in Windows, NEW s \in Spaces, NEW b \in BOOLEAN,
         NEW tl, NEW u,
         u => /\ usual /\ ~Unanswered(s) /\ tl[s] = b /\ tiling[s] # b
              /\ \A t \in Spaces \ {s} : tl[t] = tiling[t]
  PROVE  Good(TilingSet(win[w], s, b), tl, u)
<1>1. PICK x : x = win[w]
  OBVIOUS
<1>2. /\ x \in WindowRecords /\ Flagged(x) /\ Apart(x) /\ x.crash = "no"
      /\ ~x.open => x = Fresh
      /\ usual /\ x.open => Placed(x, tiling)
  BY <1>1, FollowedWindow
<1>3. PICK y : y = TilingSet(x, s, b)
  OBVIOUS
<1>4. /\ y \in WindowRecords /\ Kept(y, x)
      /\ ~Mapped(x, s) => y = x
      /\ /\ Lies(x, tiling) /\ (Mapped(x, s) => Acked(x))
         /\ tl[s] = b /\ tiling[s] # b
         /\ \A t \in Spaces \ {s} : tl[t] = tiling[t]
         => Settled(y, x, tl)
  <2>1. x.nodes[s] <= 1 /\ TypeOK
    BY <1>2 DEF Apart, WindowInv
  <2> QED BY <1>2, <1>3, <2>1, TilingSetMoves
<1>5. Flagged(y)
  BY <1>2, <1>4, KeptFlags
<1>6. CASE x.open
  <2>1. ASSUME u
        PROVE  Settled(y, x, tl) /\ ToldRight(x)
    <3>1. Lies(x, tiling) /\ ToldRight(x)
      BY <1>2, <1>6, <2>1 DEF Placed
    <3>2. Mapped(x, s) => Acked(x)
      BY <1>1, <2>1, <3>1 DEF Unanswered, Acked, ToldRight
    <3> QED BY <1>4, <2>1, <3>1, <3>2
  <2> QED BY <1>1, <1>2, <1>3, <1>4, <1>5, <1>6, <2>1 DEF Good, Settled, Placed, Kept
<1>7. CASE ~x.open
  <2>1. y = Fresh
    BY <1>2, <1>4, <1>7, FreshFits
  <2> QED BY <1>1, <1>3, <2>1, FreshIsGood
<1> QED BY <1>6, <1>7

\* set_tiling of a workspace, with its layout mode.
LEMMA SetTilingKeeps ==
  ASSUME WindowInv, Followed, NEW s \in Spaces, NEW b \in BOOLEAN,
         NEW layout, layout \in {"Floating", "Tiling"} \/ layout = mode[s],
         SetTiling(s, b, layout)
  PROVE  WindowInv'
<1>1. /\ TypeOK /\ usual \in BOOLEAN /\ active \in Spaces
      /\ tiling \in [Spaces -> BOOLEAN] /\ mode \in [Spaces -> Layouts]
  BY DEF WindowInv, TypeOK
<1>2. PICK new : new = [w \in Windows |-> TilingSet(win[w], s, b)]
  OBVIOUS
<1>3. /\ win' = new
      /\ tiling' = [tiling EXCEPT ![s] = b]
      /\ mode' = [mode EXCEPT ![s] = layout]
      /\ was' = [w \in Windows |-> None]
      /\ usual' = (usual /\ ~Unanswered(s) /\ b # tiling[s])
      /\ UNCHANGED <<restore, active>>
  BY <1>2, Zenon DEF SetTiling
<1>4. PICK u \in BOOLEAN : u = (usual /\ ~Unanswered(s) /\ b # tiling[s])
  OBVIOUS
<1>5. PICK tl \in [Spaces -> BOOLEAN] : tl = [tiling EXCEPT ![s] = b]
  BY <1>1
<1>6. tl[s] = b /\ \A t \in Spaces \ {s} : tl[t] = tiling[t]
  BY <1>1, <1>5
<1>7. ASSUME NEW w \in Windows
      PROVE  Good(new[w], tl, u)
  BY <1>2, <1>4, <1>6, TilingSetGood
<1>8. layout \in Layouts /\ (layout = "Monocle" => ~usual /\ restore[s] # None)
  BY <1>1 DEF WindowInv, Layouts
<1>9. PICK md \in [Spaces -> Layouts] : md = [mode EXCEPT ![s] = layout]
  BY <1>1, <1>8
<1>10. \A t \in Spaces : md[t] = IF t = s THEN layout ELSE mode[t]
  BY <1>1, <1>9
<1>11. \A t \in Spaces : mode'[t] = "Monocle" => ~usual' /\ restore'[t] # None
  BY <1>3, <1>4, <1>8, <1>9, <1>10 DEF WindowInv
<1>12. \A w \in Windows : Good(new[w], tiling', usual')
  BY <1>3, <1>4, <1>5, <1>7
<1>13. /\ tiling' \in [Spaces -> BOOLEAN] /\ mode' \in [Spaces -> Layouts]
       /\ restore' \in [Spaces -> {None, "Floating", "Tiling"}] /\ usual' \in BOOLEAN
       /\ active' \in Spaces
  BY <1>3, <1>4, <1>5, <1>9 DEF WindowInv, TypeOK
<1>14. was' \in [Windows -> Memories]
  BY <1>3, AllForgotten
<1>15. new = [w \in Windows |-> new[w]]
  BY <1>2
<1> QED BY <1>3, <1>11, <1>12, <1>13, <1>14, <1>15, StepKeeps

\* A change of the flag alone.
LEMMA ToldKept ==
  ASSUME NEW x \in WindowRecords, NEW b \in BOOLEAN
  PROVE  LET y == [x EXCEPT !.told = b] IN
         /\ y \in WindowRecords /\ Kept(y, x)
         /\ y.nodes = x.nodes /\ y.floating = x.floating
BY DEF WindowRecords, Kept

\* Entering and leaving monocle mode.
LEMMA MonocleEnteredKept ==
  ASSUME TypeOK, NEW x \in WindowRecords, NEW s \in Spaces
  PROVE  /\ MonocleEntered(x, s) \in WindowRecords /\ Kept(MonocleEntered(x, s), x)
         /\ ~Mapped(x, s) => MonocleEntered(x, s) = x
<1>1. PICK no \in BOOLEAN : ~no
  OBVIOUS
<1>2. PICK yes \in BOOLEAN : yes = TRUE
  OBVIOUS
<1>3. PICK y : y = IF tiling[s] THEN TilingSet(x, s, no) ELSE x
  OBVIOUS
<1>4. /\ y \in WindowRecords /\ Kept(y, x)
      /\ ~Mapped(x, s) => y = x
  <2>1. CASE tiling[s]
    <3>1. y = TilingSet(x, s, no)
      BY <1>3, <2>1
    <3>2. no => x.nodes[s] <= 1
      BY <1>1
    <3> QED BY <3>1, <3>2, TilingSetMoves
  <2>2. CASE ~tiling[s]
    BY <1>3, <2>2 DEF Kept
  <2> QED BY <2>1, <2>2
<1>5. PICK z : z = IF s \in y.floating THEN [y EXCEPT !.told = yes] ELSE y
  OBVIOUS
<1>6. z \in WindowRecords /\ Kept(z, y)
  BY <1>4, <1>5, ToldKept DEF Kept
<1>7. Kept(z, x)
  BY <1>4, <1>6, KeptTwice
<1>8. ~Mapped(x, s) => z = x
  BY <1>4, <1>5 DEF Mapped
<1>9. MonocleEntered(x, s) = z
  BY <1>1, <1>2, <1>3, <1>5 DEF MonocleEntered
<1> QED BY <1>6, <1>7, <1>8, <1>9

\* exit_monocle of one window; tiling changes only if monocle was entered from it.
LEMMA MonocleExitedKept ==
  ASSUME TypeOK, NEW x \in WindowRecords, NEW s \in Spaces, x.nodes[s] <= 1
  PROVE  /\ MonocleExited(x, s) \in WindowRecords /\ Kept(MonocleExited(x, s), x)
         /\ ~Mapped(x, s) => MonocleExited(x, s) = x
         /\ restore[s] # "Tiling" \/ tiling[s] => MonocleExited(x, s).nodes = x.nodes
<1>1. PICK no \in BOOLEAN : ~no
  OBVIOUS
<1>2. PICK yes \in BOOLEAN : yes = TRUE
  OBVIOUS
<1>3. PICK y : y = IF Mapped(x, s) THEN [x EXCEPT !.told = no] ELSE x
  OBVIOUS
<1>4. /\ y \in WindowRecords /\ Kept(y, x)
      /\ y.nodes = x.nodes /\ y.floating = x.floating
      /\ ~Mapped(x, s) => y = x
  BY <1>3, ToldKept DEF Kept
<1>5. PICK z : z = IF restore[s] = "Tiling" /\ ~tiling[s] THEN TilingSet(y, s, yes) ELSE y
  OBVIOUS
<1>6. /\ z \in WindowRecords /\ Kept(z, y)
      /\ ~Mapped(y, s) => z = y
  <2>1. CASE restore[s] = "Tiling" /\ ~tiling[s]
    <3>1. z = TilingSet(y, s, yes)
      BY <1>5, <2>1
    <3>2. y \in WindowRecords /\ (yes => y.nodes[s] <= 1)
      BY <1>4
    <3> QED BY <3>1, <3>2, TilingSetMoves
  <2>2. CASE ~(restore[s] = "Tiling" /\ ~tiling[s])
    BY <1>4, <1>5, <2>2 DEF Kept
  <2> QED BY <2>1, <2>2
<1>7. Kept(z, x)
  BY <1>4, <1>6, KeptTwice
<1>8. ~Mapped(x, s) => z = x
  BY <1>4, <1>6
<1>9. MonocleExited(x, s) = z
  BY <1>1, <1>2, <1>3, <1>5 DEF MonocleExited
<1>10. restore[s] # "Tiling" \/ tiling[s] => z.nodes = x.nodes
  BY <1>4, <1>5
<1> QED BY <1>6, <1>7, <1>8, <1>9, <1>10

\* After a history with monocle mode.
LEMMA KeptIsGood ==
  ASSUME WindowInv, Followed, NEW w \in Windows, NEW s \in Spaces, NEW tl,
         NEW y \in WindowRecords, Kept(y, win[w]), ~Mapped(win[w], s) => y = win[w]
  PROVE  Good(y, tl, FALSE)
<1>1. PICK x : x = win[w]
  OBVIOUS
<1>2. x \in WindowRecords /\ Flagged(x) /\ (~x.open => x = Fresh)
  BY <1>1, FollowedWindow
<1>3. Kept(y, x) /\ (~Mapped(x, s) => y = x)
  BY <1>1
<1>4. Flagged(y)
  BY <1>2, <1>3, KeptFlags
<1>5. ~y.open => y = Fresh
  BY <1>2, <1>3, FreshFits DEF Kept
<1> QED BY <1>4, <1>5 DEF Good

\* enter_monocle: the history is not a usual one any more.
LEMMA EnterMonocleKeeps ==
  ASSUME WindowInv, Followed, EnterMonocle
  PROVE  WindowInv'
<1>1. /\ TypeOK /\ usual \in BOOLEAN /\ active \in Spaces
      /\ tiling \in [Spaces -> BOOLEAN] /\ mode \in [Spaces -> Layouts]
      /\ restore \in [Spaces -> {None, "Floating", "Tiling"}]
  BY DEF WindowInv, TypeOK
<1>2. PICK new : new = [w \in Windows |-> MonocleEntered(win[w], active)]
  OBVIOUS
<1>3. /\ win' = new
      /\ tiling' = [tiling EXCEPT ![active] = FALSE]
      /\ mode' = [mode EXCEPT ![active] = "Monocle"]
      /\ restore' = [restore EXCEPT ![active] = mode[active]]
      /\ was' = [w \in Windows |-> None]
      /\ ~usual' /\ usual' \in BOOLEAN /\ active' = active
      /\ mode[active] # "Monocle"
  BY <1>2 DEF EnterMonocle
<1>4. ASSUME NEW w \in Windows
      PROVE  Good(new[w], tiling', usual')
  <2>1. win[w] \in WindowRecords
    BY FollowedWindow
  <2>2. /\ new[w] \in WindowRecords /\ Kept(new[w], win[w])
        /\ ~Mapped(win[w], active) => new[w] = win[w]
    BY <1>1, <1>2, <2>1, MonocleEnteredKept
  <2>3. Good(new[w], tiling', FALSE)
    BY <1>1, <2>2, KeptIsGood
  <2> QED BY <1>3, <2>3
<1>5. mode[active] \in {"Floating", "Tiling"}
  BY <1>1, <1>3 DEF Layouts
<1>6. restore' \in [Spaces -> {None, "Floating", "Tiling"}]
  BY <1>1, <1>3, <1>5
<1>7. mode' \in [Spaces -> Layouts] /\ tiling' \in [Spaces -> BOOLEAN]
  BY <1>1, <1>3 DEF Layouts
<1>8. \A t \in Spaces : mode'[t] = "Monocle" => ~usual' /\ restore'[t] # None
  BY <1>1, <1>3, <1>5, NoneAssumption DEF WindowInv
<1>9. was' \in [Windows -> Memories]
  BY <1>3, AllForgotten
<1>10. new = [w \in Windows |-> new[w]]
  BY <1>2
<1>11. active' \in Spaces /\ usual' \in BOOLEAN /\ win' = new
  BY <1>1, <1>3
<1> QED BY <1>4, <1>6, <1>7, <1>8, <1>9, <1>10, <1>11, StepKeeps

\* exit_monocle: the invariant says that there is a mode to go back to.
LEMMA ExitMonocleKeeps ==
  ASSUME WindowInv, Followed, ExitMonocle
  PROVE  WindowInv'
<1>1. /\ TypeOK /\ usual \in BOOLEAN /\ active \in Spaces
      /\ tiling \in [Spaces -> BOOLEAN] /\ mode \in [Spaces -> Layouts]
      /\ restore \in [Spaces -> {None, "Floating", "Tiling"}]
  BY DEF WindowInv, TypeOK
<1>2. PICK new : new = [w \in Windows |-> MonocleExited(win[w], active)]
  OBVIOUS
<1>3. /\ win' = new
      /\ tiling' = [tiling EXCEPT ![active] = tiling[active] \/ restore[active] = "Tiling"]
      /\ mode' = [mode EXCEPT ![active] = restore[active]]
      /\ restore' = [restore EXCEPT ![active] = None]
      /\ was' = [w \in Windows |-> None]
      /\ ~usual' /\ usual' \in BOOLEAN /\ active' = active
      /\ mode[active] = "Monocle"
  BY <1>2 DEF ExitMonocle
<1>4. ASSUME NEW w \in Windows
      PROVE  Good(new[w], tiling', usual')
  <2>1. win[w] \in WindowRecords /\ win[w].nodes[active] <= 1
    BY <1>1, FollowedWindow DEF Apart
  <2>2. /\ new[w] \in WindowRecords /\ Kept(new[w], win[w])
        /\ ~Mapped(win[w], active) => new[w] = win[w]
    BY <1>1, <1>2, <2>1, MonocleExitedKept
  <2>3. Good(new[w], tiling', FALSE)
    BY <1>1, <2>2, KeptIsGood
  <2> QED BY <1>3, <2>3
<1>5. restore[active] \in {"Floating", "Tiling"}
  BY <1>1, <1>3 DEF WindowInv
<1>6. restore' \in [Spaces -> {None, "Floating", "Tiling"}]
  BY <1>1, <1>3
<1>7. mode' \in [Spaces -> Layouts] /\ tiling' \in [Spaces -> BOOLEAN]
  <2>1. mode' \in [Spaces -> Layouts]
    BY <1>1, <1>3, <1>5 DEF Layouts
  <2>2. PICK b \in BOOLEAN : b = (tiling[active] \/ restore[active] = "Tiling")
    OBVIOUS
  <2>3. tiling' = [tiling EXCEPT ![active] = b]
    BY <1>3, <2>2
  <2>4. tiling' \in [Spaces -> BOOLEAN]
    BY <1>1, <2>3
  <2> QED BY <2>1, <2>4
<1>8. \A t \in Spaces : mode'[t] = "Monocle" => ~usual' /\ restore'[t] # None
  BY <1>1, <1>3, <1>5 DEF WindowInv
<1>9. was' \in [Windows -> Memories]
  BY <1>3, AllForgotten
<1>10. new = [w \in Windows |-> new[w]]
  BY <1>2
<1>11. active' \in Spaces /\ usual' \in BOOLEAN /\ win' = new
  BY <1>1, <1>3
<1> QED BY <1>4, <1>6, <1>7, <1>8, <1>9, <1>10, <1>11, StepKeeps

\* One window while set_layout_mode leaves monocle mode.
LEMMA LeftIsGood ==
  ASSUME WindowInv, Followed, NEW w \in Windows, NEW s \in Spaces, NEW b \in BOOLEAN,
         NEW tl, b => restore[s] # "Tiling" \/ tiling[s]
  PROVE  /\ Good(MonocleExited(win[w], s), tl, FALSE)
         /\ Good(TilingSet(MonocleExited(win[w], s), s, b), tl, FALSE)
<1>1. PICK x : x = win[w]
  OBVIOUS
<1>2. x \in WindowRecords /\ x.nodes[s] <= 1 /\ TypeOK
  BY <1>1, FollowedWindow DEF Apart, WindowInv
<1>3. PICK y : y = MonocleExited(x, s)
  OBVIOUS
<1>4. /\ y \in WindowRecords /\ Kept(y, x)
      /\ ~Mapped(x, s) => y = x
      /\ restore[s] # "Tiling" \/ tiling[s] => y.nodes = x.nodes
  BY <1>2, <1>3, MonocleExitedKept
<1>5. Good(y, tl, FALSE)
  BY <1>1, <1>4, KeptIsGood
<1>6. PICK z : z = TilingSet(y, s, b)
  OBVIOUS
<1>7. /\ z \in WindowRecords /\ Kept(z, y)
      /\ ~Mapped(y, s) => z = y
  <2>1. b => y.nodes[s] <= 1
    BY <1>2, <1>4
  <2> QED BY <1>2, <1>4, <1>6, <2>1, TilingSetMoves
<1>8. Kept(z, x)
  BY <1>4, <1>7, KeptTwice
<1>9. ~Mapped(x, s) => z = x
  BY <1>4, <1>7
<1>10. Good(z, tl, FALSE)
  BY <1>1, <1>7, <1>8, <1>9, KeptIsGood
<1> QED BY <1>1, <1>3, <1>5, <1>6, <1>10

\* set_layout_mode: tiling is set only if it differs after monocle was left.
LEMMA SetLayoutModeKeeps ==
  ASSUME WindowInv, Followed, NEW layout \in {"Floating", "Tiling"},
         SetLayoutMode(layout)
  PROVE  WindowInv'
<1>1. /\ TypeOK /\ usual \in BOOLEAN /\ active \in Spaces
      /\ tiling \in [Spaces -> BOOLEAN] /\ mode \in [Spaces -> Layouts]
      /\ restore \in [Spaces -> {None, "Floating", "Tiling"}]
  BY DEF WindowInv, TypeOK
<1>2. PICK leave \in BOOLEAN : leave = (mode[active] = "Monocle")
  OBVIOUS
<1>3. PICK now \in BOOLEAN : now = (tiling[active] \/ (leave /\ restore[active] = "Tiling"))
  BY <1>1
<1>4. PICK b \in BOOLEAN : b = (layout = "Tiling")
  OBVIOUS
<1> DEFINE Left(x) == IF leave THEN MonocleExited(x, active) ELSE x
           new == [w \in Windows |-> IF now = b THEN Left(win[w])
                                     ELSE TilingSet(Left(win[w]), active, b)]
<1>5. /\ win' = new
      /\ tiling' = [tiling EXCEPT ![active] = b]
      /\ mode' = [mode EXCEPT ![active] = layout]
      /\ restore' = (IF leave THEN [restore EXCEPT ![active] = None] ELSE restore)
      /\ was' = [w \in Windows |-> None]
      /\ usual' = (usual /\ ~Unanswered(active))
      /\ active' = active
  BY <1>2, <1>3, <1>4, Zenon DEF SetLayoutMode
<1>6. \A w \in Windows :
        new[w] = IF now = b THEN Left(win[w]) ELSE TilingSet(Left(win[w]), active, b)
  BY Zenon
<1>7. new = [w \in Windows |-> new[w]]
  BY Zenon
<1> HIDE DEF new
<1>8. PICK u \in BOOLEAN : u = (usual /\ ~Unanswered(active))
  OBVIOUS
<1>9. PICK tl \in [Spaces -> BOOLEAN] : tl = [tiling EXCEPT ![active] = b]
  BY <1>1
<1>10. tl[active] = b /\ \A t \in Spaces \ {active} : tl[t] = tiling[t]
  BY <1>1, <1>9
<1>11. ASSUME NEW w \in Windows
       PROVE  Good(new[w], tl, u)
  <2>1. CASE leave
    <3>1. ~u
      BY <1>1, <1>2, <1>8, <2>1 DEF WindowInv
    <3>2. b /\ now # b => restore[active] # "Tiling" \/ tiling[active]
      BY <1>3, <2>1
    <3>3. CASE now = b
      <4>1. PICK no \in BOOLEAN : ~no
        OBVIOUS
      <4>2. no => restore[active] # "Tiling" \/ tiling[active]
        BY <4>1
      <4>3. Good(MonocleExited(win[w], active), tl, FALSE)
        BY <1>1, <4>2, LeftIsGood
      <4>4. new[w] = MonocleExited(win[w], active)
        BY <1>6, <2>1, <3>3
      <4> QED BY <3>1, <4>3, <4>4
    <3>4. CASE now # b
      <4>1. b => restore[active] # "Tiling" \/ tiling[active]
        BY <3>2, <3>4
      <4>2. Good(TilingSet(MonocleExited(win[w], active), active, b), tl, FALSE)
        BY <1>1, <4>1, LeftIsGood
      <4>3. new[w] = TilingSet(MonocleExited(win[w], active), active, b)
        BY <1>6, <2>1, <3>4
      <4> QED BY <3>1, <4>2, <4>3
    <3> QED BY <3>3, <3>4
  <2>2. CASE ~leave /\ now = b
    <3>1. tl = tiling
      BY <1>1, <1>3, <1>9, <2>2
    <3>2. new[w] = win[w]
      BY <1>6, <2>2
    <3>3. Good(win[w], tiling, usual) /\ (u => usual)
      BY <1>8, FollowedWindow
    <3> QED BY <3>1, <3>2, <3>3 DEF Good
  <2>3. CASE ~leave /\ now # b
    <3>1. tiling[active] # b
      BY <1>1, <1>3, <2>3
    <3>2. new[w] = TilingSet(win[w], active, b)
      BY <1>6, <2>3
    <3>3. u => /\ usual /\ ~Unanswered(active) /\ tl[active] = b /\ tiling[active] # b
               /\ \A t \in Spaces \ {active} : tl[t] = tiling[t]
      BY <1>8, <1>10, <3>1
    <3> QED BY <1>1, <3>2, <3>3, TilingSetGood
  <2> QED BY <2>1, <2>2, <2>3
<1>12. \A w \in Windows : Good(new[w], tiling', usual')
  BY <1>5, <1>8, <1>9, <1>11
<1>13. \A t \in Spaces : mode'[t] = "Monocle" => ~usual' /\ restore'[t] # None
  <2> SUFFICES ASSUME NEW t \in Spaces, mode'[t] = "Monocle"
               PROVE  ~usual' /\ restore'[t] # None
    OBVIOUS
  <2>1. t # active /\ mode[t] = "Monocle"
    BY <1>1, <1>5
  <2>2. ~usual /\ restore[t] # None
    BY <2>1 DEF WindowInv
  <2>3. restore'[t] = restore[t]
    BY <1>1, <1>5, <2>1
  <2> QED BY <1>5, <2>2, <2>3
<1>14. /\ tiling' \in [Spaces -> BOOLEAN] /\ mode' \in [Spaces -> Layouts]
       /\ restore' \in [Spaces -> {None, "Floating", "Tiling"}] /\ usual' \in BOOLEAN
       /\ active' \in Spaces
  <2>1. mode' \in [Spaces -> Layouts]
    BY <1>1, <1>5 DEF Layouts
  <2>2. restore' \in [Spaces -> {None, "Floating", "Tiling"}]
    BY <1>1, <1>5
  <2> QED BY <1>1, <1>5, <1>8, <1>9, <2>1, <2>2
<1>15. was' \in [Windows -> Memories]
  BY <1>5, AllForgotten
<1> QED BY <1>5, <1>7, <1>12, <1>13, <1>14, <1>15, StepKeeps

\* A switch changes the active workspace alone.
LEMMA SwitchKeeps ==
  ASSUME WindowInv, NEW s \in Spaces, Switch(s)
  PROVE  WindowInv'
<1>1. win = [w \in Windows |-> win[w]] /\ was \in [Windows -> Memories]
  BY DEF WindowInv, TypeOK, Memories, Places
<1>2. win' = win /\ was' = was /\ UNCHANGED <<tiling, mode, restore, usual>> /\ active' = s
  BY DEF Switch
<1> QED BY <1>1, <1>2, StepKeeps DEF WindowInv, TypeOK

-----------------------------------------------------------------------------
(* The invariant, and what it implies.                                      *)

\* At the start every window is closed.
LEMMA InitHolds ==
  Init => WindowInv
<1> SUFFICES ASSUME Init PROVE WindowInv
  OBVIOUS
<1>1. win = [w \in Windows |-> Fresh] /\ usual = TRUE /\ active \in Spaces
  BY DEF Init
<1>2. /\ tiling \in [Spaces -> BOOLEAN] /\ mode \in [Spaces -> Layouts]
      /\ \A s \in Spaces : mode[s] # "Monocle"
  BY DEF Init, Layouts
<1>3. restore \in [Spaces -> {None, "Floating", "Tiling"}]
  BY DEF Init
<1>4. was \in [Windows -> Memories]
  BY AllForgotten DEF Init
<1>5. win \in [Windows -> WindowRecords]
  BY <1>1, FreshFits
<1>6. \A w \in Windows : Good(win[w], tiling, usual)
  BY <1>1, FreshIsGood
<1> QED BY <1>1, <1>2, <1>3, <1>4, <1>5, <1>6 DEF WindowInv, TypeOK, Memories, Places

\* Every request for a window keeps the invariant.
LEMMA WindowRequestKeeps ==
  ASSUME WindowInv, Followed, NEW w \in Windows, WindowRequest(w)
  PROVE  WindowInv'
<1>1. ASSUME NEW s \in Spaces, NEW float \in BOOLEAN, NEW sticky \in BOOLEAN,
             NEW maximize \in BOOLEAN, NEW minimize \in BOOLEAN,
             Open(w, s, float, sticky, maximize, minimize)
      PROVE  WindowInv'
  BY <1>1, OpenKeeps
<1>2. ASSUME NEW s \in Spaces, OpenFullscreen(w, s)
      PROVE  WindowInv'
  BY <1>2, OpenFullscreenKeeps
<1>3. ASSUME NEW s \in Spaces, ToggleFloating(w, s)
      PROVE  WindowInv'
  BY <1>3, ToggleFloatingKeeps
<1>4. CASE Close(w)
  BY <1>4, CloseKeeps
<1>5. CASE Acknowledge(w)
  BY <1>5, AcknowledgeKeeps
<1>6. CASE Minimize(w) \/ Unminimize(w) \/ Maximize(w) \/ Unmaximize(w)
           \/ Fullscreen(w) \/ Unfullscreen(w)
  BY <1>6, RequestKeeps
<1>7. CASE ToggleSticky(w)
  BY <1>7, ToggleStickyKeeps
<1>8. ASSUME NEW to \in Spaces, NEW follow \in BOOLEAN, MoveCurrent(w, to, follow)
      PROVE  WindowInv'
  BY <1>8, MoveCurrentKeeps
<1>9. ASSUME NEW from \in Spaces, NEW to \in Spaces, NEW follow \in BOOLEAN,
             MoveWindow(w, from, to, follow)
      PROVE  WindowInv'
  BY <1>9, MoveWindowKeeps
<1>10. ASSUME NEW elsewhere \in BOOLEAN, Activate(w, elsewhere)
       PROVE  WindowInv'
  BY <1>10, ActivateKeeps
<1> QED BY <1>1, <1>2, <1>3, <1>4, <1>5, <1>6, <1>7, <1>8, <1>9, <1>10, Zenon
        DEF WindowRequest

\* Every request for a workspace keeps it.
LEMMA WorkspaceRequestKeeps ==
  ASSUME WindowInv, Followed, WorkspaceRequest
  PROVE  WindowInv'
<1>1. active \in Spaces /\ tiling \in [Spaces -> BOOLEAN]
  BY DEF WindowInv, TypeOK
<1>2. ASSUME NEW s \in Spaces, Switch(s)
      PROVE  WindowInv'
  BY <1>2, SwitchKeeps
<1>3. CASE ToggleTiling
  <2>1. PICK b \in BOOLEAN : b = ~tiling[active]
    OBVIOUS
  <2>2. PICK layout \in {"Floating", "Tiling"} :
          layout = IF tiling[active] THEN "Floating" ELSE "Tiling"
    OBVIOUS
  <2>3. SetTiling(active, b, layout)
    BY <1>3, <2>1, <2>2 DEF ToggleTiling
  <2> QED BY <1>1, <2>3, SetTilingKeeps
<1>4. ASSUME NEW s \in Spaces, NEW b \in BOOLEAN, RequestTiling(s, b)
      PROVE  WindowInv'
  <2>1. PICK layout : layout = mode[s]
    OBVIOUS
  <2>2. SetTiling(s, b, layout)
    BY <1>4, <2>1 DEF RequestTiling
  <2> QED BY <2>1, <2>2, SetTilingKeeps
<1>5. CASE EnterMonocle
  BY <1>5, EnterMonocleKeeps
<1>6. CASE ExitMonocle
  BY <1>6, ExitMonocleKeeps
<1>7. ASSUME NEW layout \in {"Floating", "Tiling"}, SetLayoutMode(layout)
      PROVE  WindowInv'
  BY <1>7, SetLayoutModeKeeps
<1> QED BY <1>2, <1>3, <1>4, <1>5, <1>6, <1>7 DEF WorkspaceRequest

\* The invariant is inductive.
LEMMA StepHolds ==
  WindowInv /\ [Next]_vars => WindowInv'
<1>1. ASSUME WindowInv, Next
      PROVE  WindowInv'
  BY <1>1, WindowRequestKeeps, WorkspaceRequestKeeps DEF Next
<1>2. ASSUME WindowInv, UNCHANGED vars
      PROVE  WindowInv'
  BY <1>2 DEF vars, WindowInv, TypeOK, Good, Placed, Lies, Stuck, Floats, Tiled, Hidden,
             Fills, Shown, Bare, NoNode, Sticks, ToldRight, Flagged
<1> QED BY <1>1, <1>2

\* Every window is in one layer and announced there, or the history is unusual.
THEOREM WindowInvariant ==
  Spec => []WindowInv
BY InitHolds, StepHolds, PTL DEF Spec

\* The invariant implies FlagsAgree: Flagged is a part of it for every window.
LEMMA FlagsHold ==
  WindowInv => FlagsAgree
BY DEF WindowInv, FlagsAgree, Panicked, Good, Flagged

\* It implies OnlyStickyPanics: in usual histories no window crashes otherwise.
LEMMA CrashesHold ==
  WindowInv => OnlyStickyPanics
BY DEF WindowInv, OnlyStickyPanics, Good

\* What LayersAgree and AnnouncedWhereItIs say of one window.
Agrees(x) ==
  /\ x.open => InOneLayer(x)
  /\ x.told <=> x.max # None
  /\ x.max = "Sticky" <=> x.max # None /\ Sticks(x)
  /\ x.max # None /\ ~Sticks(x) => x.floating # {}
  /\ \A s \in Spaces : x.nodes[s] > 0 /\ x.max # None => x.max = "Tiling"
  /\ x.on = {s \in Spaces : \/ Mapped(x, s)
                            \/ x.mini # None /\ x.mini.space = s
                            \/ x.full # None /\ x.full.space = s}

\* One window that is placed.
LEMMA PlacedAgrees ==
  ASSUME NEW x \in WindowRecords, NEW tl, Placed(x, tl)
  PROVE  Agrees(x)
<1>1. InOneLayer(x)
  BY LiesInOneLayer DEF Placed
<1>2. CASE Stuck(x)
  <2>1. \A s \in Spaces : ~Mapped(x, s) /\ x.nodes[s] = 0
    BY <1>2 DEF Stuck, Bare, NoNode, Mapped
  <2>2. x.mini = None /\ x.full = None /\ Sticks(x) /\ x.on = {}
    BY <1>2 DEF Stuck
  <2>3. x.max = "Sticky" <=> x.max # None /\ Sticks(x)
    BY <1>2, NoneAssumption DEF Stuck
  <2> QED BY <1>1, <2>1, <2>2, <2>3 DEF Placed, ToldRight, Agrees
<1>3. ASSUME NEW s \in Spaces, Floats(x, s, tl) \/ Tiled(x, s, tl)
      PROVE  /\ ~Sticks(x) /\ x.max # "Sticky" /\ x.mini = None /\ x.full = None
             /\ x.on = {s} /\ (x.max # None => x.floating # {})
             /\ \A t \in Spaces : x.nodes[t] > 0 /\ x.max # None => x.max = "Tiling"
             /\ \A t \in Spaces : Mapped(x, t) <=> t = s
  <2>1. CASE Floats(x, s, tl)
    BY <2>1 DEF Floats, NoNode, Shown, Mapped
  <2>2. CASE Tiled(x, s, tl)
    BY <2>2, NoneAssumption DEF Tiled, Shown, Mapped
  <2> QED BY <1>3, <2>1, <2>2
<1>4. ASSUME NEW s \in Spaces, Floats(x, s, tl) \/ Tiled(x, s, tl)
      PROVE  x.on = {t \in Spaces : \/ Mapped(x, t)
                                    \/ x.mini # None /\ x.mini.space = t
                                    \/ x.full # None /\ x.full.space = t}
  BY <1>3, <1>4
<1>5. ASSUME NEW s \in Spaces, Hidden(x, s) \/ Fills(x, s)
      PROVE  /\ ~Sticks(x) /\ x.max = None /\ x.on = {s}
             /\ \A t \in Spaces : x.nodes[t] = 0 /\ ~Mapped(x, t)
             /\ \A t \in Spaces : (\/ x.mini # None /\ x.mini.space = t
                                   \/ x.full # None /\ x.full.space = t) <=> t = s
  <2>1. CASE Hidden(x, s)
    BY <2>1 DEF Hidden, Bare, NoNode, Mapped
  <2>2. CASE Fills(x, s)
    BY <2>2 DEF Fills, Bare, NoNode, Mapped
  <2> QED BY <1>5, <2>1, <2>2
<1>6. ASSUME NEW s \in Spaces, Floats(x, s, tl) \/ Tiled(x, s, tl)
                               \/ Hidden(x, s) \/ Fills(x, s)
      PROVE  /\ x.max = "Sticky" <=> x.max # None /\ Sticks(x)
             /\ x.max # None /\ ~Sticks(x) => x.floating # {}
             /\ \A t \in Spaces : x.nodes[t] > 0 /\ x.max # None => x.max = "Tiling"
             /\ x.on = {t \in Spaces : \/ Mapped(x, t)
                                       \/ x.mini # None /\ x.mini.space = t
                                       \/ x.full # None /\ x.full.space = t}
  <2>1. CASE Floats(x, s, tl) \/ Tiled(x, s, tl)
    BY <2>1, <1>3, <1>4
  <2>2. CASE Hidden(x, s) \/ Fills(x, s)
    BY <2>2, <1>5, NoneAssumption
  <2> QED BY <1>6, <2>1, <2>2
<1> QED BY <1>1, <1>2, <1>6 DEF Placed, ToldRight, Lies, Agrees

\* A closed window is in no layer.
LEMMA FreshAgrees ==
  Agrees(Fresh)
<1>1. Fresh.on = {}
  BY DEF Fresh
<1>2. PICK x : x = Fresh
  OBVIOUS
<1>3. /\ ~x.open /\ ~x.told /\ x.max = None /\ ~Sticks(x) /\ x.on = {}
      /\ x.mini = None /\ x.full = None /\ \A s \in Spaces : ~Mapped(x, s)
  BY <1>1, <1>2, FreshFits
<1>4. x.on = {s \in Spaces : \/ Mapped(x, s)
                             \/ x.mini # None /\ x.mini.space = s
                             \/ x.full # None /\ x.full.space = s}
  BY <1>3
<1>5. x.max # "Sticky"
  BY <1>3, NoneAssumption
<1>6. Agrees(x)
  BY <1>3, <1>4, <1>5 DEF Agrees
<1> QED BY <1>2, <1>6

\* The invariant implies LayersAgree and AnnouncedWhereItIs.
LEMMA LayersHold ==
  WindowInv => LayersAgree /\ AnnouncedWhereItIs
<1> SUFFICES ASSUME WindowInv
             PROVE  LayersAgree /\ AnnouncedWhereItIs
  OBVIOUS
<1>1. ASSUME usual, ~Panicked, NEW w \in Windows
      PROVE  Agrees(win[w])
  <2>1. Good(win[w], tiling, usual) /\ win[w].crash = "no"
    BY <1>1 DEF WindowInv, Panicked
  <2>2. CASE win[w].open
    <3>1. Placed(win[w], tiling) /\ win[w] \in WindowRecords
      BY <1>1, <2>1, <2>2 DEF Good
    <3> QED BY <3>1, PlacedAgrees
  <2>3. CASE ~win[w].open
    <3>1. win[w] = Fresh
      BY <2>1, <2>3 DEF Good
    <3> QED BY <3>1, FreshAgrees
  <2> QED BY <2>2, <2>3
<1>2. OneLayer
  BY <1>1 DEF OneLayer, Agrees
<1>3. MaximizedAgrees
  BY <1>1 DEF MaximizedAgrees, Agrees
<1>4. AnnouncedWhereItIs
  BY <1>1, Zenon DEF AnnouncedWhereItIs, Agrees
<1> QED BY <1>2, <1>3, <1>4 DEF WindowInv, LayersAgree

\* Whatever requests come for whatever number of windows and workspaces, an open
\* window is in exactly one layer and maximized_state agrees with that layer (the
\* map and unmap functions of Workspace and the shell).
THEOREM LayersAlwaysAgree ==
  Spec => []LayersAgree
BY WindowInvariant, LayersHold, PTL

\* The minimized, fullscreen and sticky flags that clients and panels see always
\* follow the layer the window is in, monocle mode or not.
THEOREM FlagsAlwaysAgree ==
  Spec => []FlagsAgree
BY WindowInvariant, FlagsHold, PTL

\* toplevel_info always announces a window on the workspace where it is, and on
\* no other.
THEOREM AnnouncedAlwaysWhereItIs ==
  Spec => []AnnouncedWhereItIs
BY WindowInvariant, LayersHold, PTL

\* The only expectation about layers that can fail is the unreachable!() of
\* unmaximize_request for the sticky layer.
THEOREM OnlyStickyEverPanics ==
  Spec => []OnlyStickyPanics
BY WindowInvariant, CrashesHold, PTL

-----------------------------------------------------------------------------
(* Windows come back where they were: what is away has a way back there.    *)

\* An open window that is followed.
Whole(x) == x.crash = "no" /\ InOneLayer(x)

\* Nodes are where tiling is on.
Rooted(x, tl) == \A s \in Spaces : x.nodes[s] > 0 => tl[s]

\* What is put aside is not maximized, and what is sticky is maximized as such.
MaxRight(x) ==
  /\ x.mini # None \/ x.full # None => x.max = None
  /\ Sticks(x) => x.max \in {None, "Sticky"}

\* The way back b leads to where m says.
Leads(b, m) ==
  /\ b # None /\ b.kind = m.layer
  /\ m.layer = "Sticky" \/ b.space = m.space
  /\ m.max => b.max

\* The window is away from where m says, and has a way back.
Away(x, m, tl) ==
  /\ m.layer = "Sticky" => m.space = None /\ ~m.max
  /\ m.layer = "Tiling" => tl[m.space]
  /\ \/ m.layer = "Sticky" /\ x.sticky = "minimized"
     \/ x.full # None /\ Leads(x.full.back, m)
     \/ x.mini # None /\ x.mini.kind = "Fullscreen" /\ Leads(x.mini.back, m)
     \/ x.mini # None /\ x.mini.kind # "Fullscreen" /\ Leads(x.mini, m)

Unplaced(x) == x.sticky # "shown" /\ \A s \in Spaces : ~Mapped(x, s)

\* Mapped on s and in no other layer.
Only(x, s) ==
  /\ s \in Spaces /\ Mapped(x, s) /\ \A t \in Spaces : Mapped(x, t) => t = s
  /\ x.mini = None /\ x.full = None /\ ~Sticks(x)
  /\ x.nodes[s] <= 1 /\ (x.nodes[s] > 0 /\ s \in x.floating => x.max = "Tiling")

\* A window that is followed is mapped on one workspace, or put aside in one way.
LEMMA WholeShape ==
  ASSUME NEW x \in WindowRecords, Whole(x)
  PROVE  /\ Apart(x)
         /\ Unplaced(x) => x.mini # None \/ x.full # None \/ x.sticky = "minimized"
         /\ \A s \in Spaces : Mapped(x, s) => Only(x, s)
<1>1. Apart(x)
  BY OneLayerApart DEF Whole
<1>2. PICK l : Layers(x) = {l}
  BY OneLayerOf DEF Whole
<1>3. ASSUME NEW s \in Spaces, Mapped(x, s)
      PROVE  Only(x, s)
  <2>1. ASSUME x.nodes[s] > 0, s \in x.floating, x.max # "Tiling"
        PROVE  FALSE
    <3>1. <<s, "Tiling">> \in Layers(x)
      BY <2>1, InLayers
    <3>2. <<s, "Floating">> \in Layers(x)
      BY <2>1, InLayers
    <3>3. <<s, "Tiling">> = <<s, "Floating">>
      BY <1>2, <3>1, <3>2
    <3> QED BY <3>3
  <2> QED BY <1>1, <1>3, <2>1 DEF Apart, Only
<1>4. ASSUME Unplaced(x), x.mini = None, x.full = None, x.sticky # "minimized"
      PROVE  FALSE
  <2>1. l \in Layers(x)
    BY <1>2
  <2>2. ~Sticks(x)
    BY <1>4 DEF Unplaced, Sticks, WindowRecords
  <2>3. x.floating \in SUBSET Spaces
    BY DEF WindowRecords
  <2> QED BY <1>4, <2>1, <2>2, <2>3, InLayers DEF Unplaced, Mapped
<1> QED BY <1>1, <1>3, <1>4

\* Place, case by case.
LEMMA PlaceIs ==
  ASSUME NEW x \in WindowRecords
  PROVE  /\ Place(x) = None <=> Unplaced(x)
         /\ x.sticky = "shown" =>
              Place(x).layer = "Sticky" /\ Place(x).space = None /\ ~Place(x).max
         /\ \A s \in Spaces :
              Mapped(x, s) /\ x.sticky # "shown" /\ (\A t \in Spaces : Mapped(x, t) => t = s)
              => /\ Place(x).layer = IF x.nodes[s] > 0 THEN "Tiling" ELSE "Floating"
                 /\ Place(x).space = s
                 /\ Place(x).max <=> x.max # None
<1>1. PICK z : z = Place(x)
  OBVIOUS
<1>2. CASE x.sticky = "shown"
  <2>1. z = [layer |-> "Sticky", space |-> None, max |-> FALSE]
    BY <1>1, <1>2, Zenon DEF Place
  <2>2. z # None
    <3>1. PICK no \in BOOLEAN : ~no
      OBVIOUS
    <3>2. z = [layer |-> "Sticky", space |-> None, max |-> no]
      BY <2>1, <3>1
    <3>3. z \in Places
      BY <3>2 DEF Places
    <3> QED BY <3>3, NoneAssumption
  <2>3. z.layer = "Sticky" /\ z.space = None /\ ~z.max
    BY <2>1
  <2> QED BY <1>1, <1>2, <2>2, <2>3 DEF Unplaced
<1>3. CASE x.sticky # "shown" /\ \E s \in Spaces : Mapped(x, s)
  <2>1. PICK s : s = CHOOSE h \in Spaces : Mapped(x, h)
    OBVIOUS
  <2>2. s \in Spaces /\ Mapped(x, s)
    BY <1>3, <2>1
  <2>3. PICK l \in {"Floating", "Tiling"} : l = IF x.nodes[s] > 0 THEN "Tiling" ELSE "Floating"
    OBVIOUS
  <2>4. PICK m \in BOOLEAN : m = (x.max # None)
    OBVIOUS
  <2>5. z = [layer |-> l, space |-> s, max |-> m]
    BY <1>1, <1>3, <2>1, <2>3, <2>4, Zenon DEF Place
  <2>6. z # None
    BY <2>2, <2>5, NoneAssumption DEF Places
  <2>7. z.layer = l /\ z.space = s /\ z.max = m
    BY <2>5
  <2>8. ASSUME NEW t \in Spaces, Mapped(x, t), \A r \in Spaces : Mapped(x, r) => r = t
        PROVE  /\ z.layer = IF x.nodes[t] > 0 THEN "Tiling" ELSE "Floating"
               /\ z.space = t
               /\ z.max <=> x.max # None
    <3>1. s = t
      BY <2>2, <2>8
    <3> QED BY <2>3, <2>4, <2>7, <3>1
  <2> QED BY <1>1, <1>3, <2>6, <2>8 DEF Unplaced
<1>4. CASE Unplaced(x)
  <2>1. z = None
    BY <1>1, <1>4, Zenon DEF Place, Unplaced
  <2> QED BY <1>1, <1>4, <2>1 DEF Unplaced
<1> QED BY <1>2, <1>3, <1>4 DEF Unplaced

\* y is where m says.
Returned(y, m) == /\ Place(y).layer = m.layer /\ Place(y).space = m.space
                  /\ m.max => Place(y).max

\* An operation turns x into y: nodes and flags stay right; if x was somewhere, y
\* has a way back to there; if x was away, y is where it leads or still away.
Turned(y, x, tl) ==
  /\ Rooted(y, tl)
  /\ Whole(y) => MaxRight(y)
  /\ ~Unplaced(x) /\ Unplaced(y) /\ Whole(y) => Away(y, Place(x), tl)
  /\ \A m \in Places : Unplaced(x) /\ Away(x, m, tl) =>
       /\ ~Unplaced(y) => Returned(y, m)
       /\ Unplaced(y) /\ Whole(y) => Away(y, m, tl)

\* What the lemmas about the operations start from.
Ready(x) == /\ x \in WindowRecords /\ Flagged(x) /\ Whole(x)
            /\ Rooted(x, tiling) /\ MaxRight(x)

\* Where a window is that was put down on s.
LEMMA DownIs ==
  ASSUME NEW v \in WindowRecords, NEW s \in Spaces, NEW tile \in BOOLEAN,
         NEW m \in BOOLEAN, NEW layer, m => layer \in {"Floating", "Tiling"},
         Down(v, s, tile, m, layer), v.sticky # "shown", NEW tl, tile => tl[s]
  PROVE  /\ ~Unplaced(v) /\ Rooted(v, tl)
         /\ \A t \in Spaces : Mapped(v, t) <=> t = s
         /\ Place(v).layer = IF tile THEN "Tiling" ELSE "Floating"
         /\ Place(v).space = s /\ (Place(v).max <=> m)
<1>1. CASE tile
  <2>1. v.nodes[s] = 1 /\ \A t \in Spaces \ {s} : v.nodes[t] = 0
    BY <1>1 DEF Down
  <2>2. v.floating \subseteq {s}
    BY <1>1 DEF Down
  <2>3. \A t \in Spaces : Mapped(v, t) <=> t = s
    BY <2>1, <2>2 DEF Mapped
  <2>4. v.max # None <=> m
    BY NoneAssumption DEF Down
  <2>5. Rooted(v, tl)
    BY <1>1, <2>1 DEF Rooted
  <2> QED BY <1>1, <2>1, <2>3, <2>4, <2>5, PlaceIs DEF Unplaced
<1>2. CASE ~tile
  <2>1. v.floating = {s} /\ \A t \in Spaces : v.nodes[t] = 0
    BY <1>2 DEF Down, NoNode
  <2>2. \A t \in Spaces : Mapped(v, t) <=> t = s
    BY <2>1 DEF Mapped
  <2>3. v.max # None <=> m
    BY NoneAssumption DEF Down
  <2>4. Rooted(v, tl)
    BY <2>1 DEF Rooted
  <2> QED BY <1>2, <2>1, <2>2, <2>3, <2>4, PlaceIs DEF Unplaced
<1> QED BY <1>1, <1>2

\* A window that is put aside is in no layer of a workspace.
LEMMA AsideIsBare ==
  ASSUME NEW x \in WindowRecords, Apart(x), x.mini # None \/ x.full # None \/ Sticks(x)
  PROVE  Bare(x)
<1>1. \A s \in Spaces : ~Mapped(x, s)
  BY DEF Apart
<1>2. x.floating \in SUBSET Spaces /\ x.nodes \in [Spaces -> 0..2]
  BY DEF WindowRecords
<1> QED BY <1>1, <1>2 DEF Mapped, Bare, NoNode

-----------------------------------------------------------------------------
(* Each operation on a window, in turn.                                     *)

\* The way back to m is kept when what was put aside stays so.
LEMMA AwayStays ==
  ASSUME NEW x, NEW y, NEW m, NEW tl, Away(x, m, tl),
         y.sticky = x.sticky, y.full = x.full, y.mini = x.mini
  PROVE  Away(y, m, tl)
BY DEF Away

\* Workspace::unminimize.
LEMMA UnminimizedTurns ==
  ASSUME TypeOK, NEW x, Ready(x), x.mini # None
  PROVE  /\ Turned(Unminimized(x), x, tiling)
         /\ \A s, t \in Spaces : Mapped(Unminimized(x), s) /\ Mapped(Unminimized(x), t) => s = t
<1>0. x \in WindowRecords /\ Flagged(x) /\ Whole(x) /\ Rooted(x, tiling) /\ MaxRight(x)
  BY DEF Ready
<1> USE <1>0
<1>1. PICK m \in MinimizedWindows : m = x.mini
  BY DEF WindowRecords
<1>2. PICK s \in Spaces : s = m.space
  BY DEF MinimizedWindows
<1>3. tiling[s] \in BOOLEAN /\ m.max \in BOOLEAN
      /\ m.kind \in {"Floating", "Tiling", "Fullscreen"}
      /\ m.back \in {None} \cup WayBacks
  BY DEF TypeOK, MinimizedWindows
<1>4. PICK y : y = [x EXCEPT !.mini = None, !.minimized = FALSE]
  OBVIOUS
<1>5. /\ y \in WindowRecords /\ y.mini = None /\ y.sticky = x.sticky
      /\ y.nodes = x.nodes /\ y.floating = x.floating /\ y.max = x.max
      /\ y.full = x.full
  BY <1>4 DEF WindowRecords
<1>6. Apart(x) /\ Bare(x) /\ x.max = None /\ x.full = None /\ ~Sticks(x)
  BY WholeShape, AsideIsBare DEF Apart, MaxRight
<1>7. x.sticky = "no" /\ Unplaced(x)
  BY <1>6 DEF Sticks, Bare, NoNode, Mapped, Unplaced
<1>8. PICK z : z = Unminimized(x)
  OBVIOUS
<1>9. CASE m.kind = "Fullscreen"
  <2>1. PICK f \in FullscreenSurfaces : f = [space |-> s, back |-> m.back]
    BY <1>3 DEF FullscreenSurfaces
  <2>2. f # None /\ f.back = m.back
    BY <2>1, NoneAssumption DEF FullscreenSurfaces
  <2>3. z = [y EXCEPT !.full = f]
    BY <1>1, <1>2, <1>4, <1>8, <1>9, <2>1, Zenon DEF Unminimized
  <2>4. /\ z.full = f /\ z.mini = None /\ z.sticky = "no" /\ z.max = None
        /\ z.nodes = x.nodes /\ z.floating = x.floating
    BY <2>3, <1>5, <1>6, <1>7 DEF WindowRecords
  <2>5. Unplaced(z) /\ MaxRight(z) /\ Rooted(z, tiling)
    BY <2>4, <1>6 DEF Unplaced, Mapped, Bare, NoNode, MaxRight, Rooted, Sticks
  <2>6. ASSUME NEW p \in Places, Away(x, p, tiling)
        PROVE  Away(z, p, tiling)
    <3>1. Leads(m.back, p)
      BY <2>6, <1>1, <1>6, <1>7, <1>9 DEF Away
    <3>2. z.full # None /\ Leads(z.full.back, p)
      BY <3>1, <2>2, <2>4
    <3> QED BY <2>6, <3>2 DEF Away
  <2>7. Turned(z, x, tiling)
    BY <1>7, <2>5, <2>6 DEF Turned
  <2> QED BY <1>8, <2>5, <2>7 DEF Unplaced
<1>10. CASE m.kind # "Fullscreen"
  <2>1. PICK tile \in BOOLEAN : tile = (m.kind = "Tiling" /\ tiling[s])
    BY <1>3
  <2>2. z = PutDown(y, s, tile, m.max, m.kind)
    BY <1>1, <1>2, <1>4, <1>8, <1>10, <2>1, Zenon DEF Unminimized, PutDown
  <2>3. m.kind \in {"Floating", "Tiling"}
    BY <1>3, <1>10
  <2>4. y.nodes[s] <= 1 /\ Bare(y) /\ y.max = None
    BY <1>5, <1>6 DEF Apart, Bare, NoNode
  <2>5. z \in WindowRecords /\ Moved(z, y) /\ Down(z, s, tile, m.max, m.kind)
    BY <1>3, <1>5, <2>2, <2>3, <2>4, PutDownMoves
  <2>6. z.sticky = "no" /\ z.full = None /\ z.mini = None
    BY <2>5, <1>5, <1>6, <1>7 DEF Moved, Kept
  <2>7. /\ ~Unplaced(z) /\ Rooted(z, tiling)
        /\ \A t \in Spaces : Mapped(z, t) <=> t = s
        /\ Place(z).layer = IF tile THEN "Tiling" ELSE "Floating"
        /\ Place(z).space = s /\ (Place(z).max <=> m.max)
    <3>1. PICK big \in BOOLEAN : big = m.max
      BY <1>3
    <3>2. Down(z, s, tile, big, m.kind)
      BY <2>5, <3>1
    <3>3. z.sticky # "shown"
      BY <2>6
    <3>4. tile => tiling[s]
      BY <2>1
    <3>5. /\ ~Unplaced(z) /\ Rooted(z, tiling)
          /\ \A t \in Spaces : Mapped(z, t) <=> t = s
          /\ Place(z).layer = IF tile THEN "Tiling" ELSE "Floating"
          /\ Place(z).space = s /\ (Place(z).max <=> big)
      BY <2>3, <2>5, <3>2, <3>3, <3>4, DownIs
    <3> QED BY <3>1, <3>5
  <2>8. MaxRight(z)
    BY <2>6 DEF MaxRight, Sticks
  <2>9. ASSUME NEW p \in Places, Away(x, p, tiling)
        PROVE  Returned(z, p)
    <3>1. Leads(m, p) /\ (p.layer = "Tiling" => tiling[p.space])
      BY <2>9, <1>1, <1>6, <1>7, <1>10 DEF Away
    <3>2. m.kind = p.layer /\ p.space = s /\ (p.max => m.max)
      BY <3>1, <2>3, <1>2 DEF Leads
    <3>3. tile <=> p.layer = "Tiling"
      BY <3>1, <3>2, <2>1
    <3>4. p.layer = IF tile THEN "Tiling" ELSE "Floating"
      BY <3>2, <3>3, <2>3
    <3> QED BY <3>2, <3>4, <2>7 DEF Returned
  <2>10. Turned(z, x, tiling)
    BY <1>7, <2>7, <2>8, <2>9 DEF Turned
  <2> QED BY <1>8, <2>7, <2>10
<1> QED BY <1>9, <1>10

\* unminimize_request.
LEMMA UnminimizeTurns ==
  ASSUME TypeOK, NEW x, Ready(x)
  PROVE  /\ Turned(UnminimizeOf(x), x, tiling)
         /\ \A s, t \in Spaces : Mapped(UnminimizeOf(x), s) /\ Mapped(UnminimizeOf(x), t) => s = t
<1>0. x \in WindowRecords /\ Flagged(x) /\ Whole(x) /\ Rooted(x, tiling) /\ MaxRight(x)
  BY DEF Ready
<1> USE <1>0
<1>1. Apart(x)
  BY WholeShape
<1>2. PICK z : z = UnminimizeOf(x)
  OBVIOUS
<1>3. CASE x.sticky = "minimized"
  <2>1. z = [x EXCEPT !.sticky = "shown"]
    BY <1>2, <1>3, Zenon DEF UnminimizeOf
  <2>2. /\ z \in WindowRecords /\ z.sticky = "shown"
        /\ z.mini = x.mini /\ z.full = x.full /\ z.max = x.max
        /\ z.nodes = x.nodes /\ z.floating = x.floating
    BY <2>1 DEF WindowRecords
  <2>3. x.mini = None /\ x.full = None /\ \A s \in Spaces : ~Mapped(x, s)
    BY <1>1, <1>3 DEF Apart, Sticks
  <2>4. Unplaced(x) /\ ~Unplaced(z)
    BY <1>3, <2>2, <2>3 DEF Unplaced
  <2>5. Place(z).layer = "Sticky" /\ Place(z).space = None /\ ~Place(z).max
    BY <2>2, PlaceIs
  <2>6. Rooted(z, tiling) /\ MaxRight(z)
    BY <1>3, <2>2 DEF Rooted, MaxRight, Sticks
  <2>7. ASSUME NEW p \in Places, Away(x, p, tiling)
        PROVE  Returned(z, p)
    <3>1. p.layer = "Sticky" /\ p.space = None /\ ~p.max
      BY <2>3, <2>7 DEF Away
    <3> QED BY <3>1, <2>5 DEF Returned
  <2>8. Turned(z, x, tiling)
    BY <2>4, <2>6, <2>7 DEF Turned
  <2> QED BY <1>2, <2>2, <2>3, <2>8 DEF Mapped
<1>4. CASE x.sticky # "minimized" /\ x.mini # None
  <2>1. z = Unminimized(x)
    BY <1>2, <1>4, Zenon DEF UnminimizeOf
  <2> QED BY <1>2, <1>4, <2>1, UnminimizedTurns
<1>5. CASE x.sticky # "minimized" /\ x.mini = None
  <2>1. z = x
    BY <1>2, <1>5, Zenon DEF UnminimizeOf
  <2>2. Turned(x, x, tiling)
    BY DEF Turned
  <2> QED BY <1>1, <1>2, <2>1, <2>2 DEF Apart
<1> QED BY <1>3, <1>4, <1>5

\* Where a window is that is mapped on s.
LEMMA MappedIs ==
  ASSUME NEW x \in WindowRecords, Whole(x), NEW s \in Spaces, Mapped(x, s)
  PROVE  /\ Only(x, s) /\ x.sticky = "no" /\ ~Unplaced(x)
         /\ Place(x).layer = IF x.nodes[s] > 0 THEN "Tiling" ELSE "Floating"
         /\ Place(x).space = s /\ (Place(x).max <=> x.max # None)
<1>1. Only(x, s)
  BY WholeShape
<1>2. x.sticky = "no"
  BY <1>1 DEF Only, Sticks
<1>3. x.sticky # "shown" /\ \A t \in Spaces : Mapped(x, t) => t = s
  BY <1>1, <1>2 DEF Only
<1> QED BY <1>1, <1>2, <1>3, PlaceIs DEF Unplaced

\* Who was somewhere only has to have a way back.
LEMMA LeftTurns ==
  ASSUME NEW x, NEW y, NEW tl, ~Unplaced(x), Rooted(y, tl), Whole(y) => MaxRight(y),
         Unplaced(y) /\ Whole(y) => Away(y, Place(x), tl)
  PROVE  Turned(y, x, tl)
BY DEF Turned

\* Workspace::minimize.
LEMMA MinimizedFromTurns ==
  ASSUME TypeOK, NEW x, Ready(x), NEW s \in Spaces, Mapped(x, s)
  PROVE  Turned(MinimizedFrom(x, s), x, tiling)
<1>0. x \in WindowRecords /\ Flagged(x) /\ Whole(x) /\ Rooted(x, tiling) /\ MaxRight(x)
  BY DEF Ready
<1>1. tiling[s] \in BOOLEAN
  BY DEF TypeOK
<1>2. PICK u : u = IF x.max = "Tiling" /\ tiling[s] THEN Unfloat(x, s) ELSE x
  OBVIOUS
<1>3. /\ u \in WindowRecords /\ Moved(u, x) /\ u.nodes = x.nodes /\ u.max = x.max
      /\ u.floating = IF x.max = "Tiling" /\ tiling[s] THEN x.floating \ {s} ELSE x.floating
  BY <1>0, <1>2, UnfloatMoves DEF Moved, Kept
<1>4. PICK y : y = IF x.max = None THEN x ELSE [u EXCEPT !.max = None, !.told = FALSE]
  OBVIOUS
<1>5. /\ y \in WindowRecords /\ y.nodes = x.nodes /\ y.max = None
      /\ y.mini = x.mini /\ y.full = x.full /\ y.sticky = x.sticky
      /\ y.floating = IF x.max = "Tiling" /\ tiling[s] THEN x.floating \ {s} ELSE x.floating
  <2>1. CASE x.max = None
    BY <2>1, <1>0, <1>4, NoneAssumption
  <2>2. CASE x.max # None
    <3>1. y = [u EXCEPT !.max = None, !.told = FALSE]
      BY <2>2, <1>4
    <3>2. /\ y \in WindowRecords /\ y.nodes = u.nodes /\ y.max = None
          /\ y.mini = u.mini /\ y.full = u.full /\ y.sticky = u.sticky
          /\ y.floating = u.floating
      BY <3>1, <1>3 DEF WindowRecords
    <3> QED BY <3>2, <1>3 DEF Moved, Kept
  <2> QED BY <2>1, <2>2
<1>6. /\ Only(x, s) /\ x.sticky = "no" /\ ~Unplaced(x)
      /\ Place(x).layer = IF x.nodes[s] > 0 THEN "Tiling" ELSE "Floating"
      /\ Place(x).space = s /\ (Place(x).max <=> x.max # None)
  BY <1>0, MappedIs
<1>7. x.nodes[s] > 0 => tiling[s]
  BY <1>0 DEF Rooted
<1>8. /\ s \in y.floating => ~(x.nodes[s] > 0)
      /\ x.full = None
  BY <1>5, <1>6, <1>7 DEF Only
<1>9. PICK z : z = MinimizedFrom(x, s)
  OBVIOUS
<1> DEFINE Gone(v, kind) ==
      [v EXCEPT !.minimized = TRUE,
                !.mini = [space |-> s, kind |-> kind, max |-> x.max # None, back |-> None]]
<1>10. /\ s \in y.floating => z = Gone(Unfloat(y, s), "Floating")
       /\ s \notin y.floating /\ y.nodes[s] > 0 => z = Gone(Untile(y, s), "Tiling")
       /\ s \notin y.floating /\ ~(y.nodes[s] > 0) => z = Crash(y, "other")
  BY <1>2, <1>4, <1>9, Zenon DEF MinimizedFrom
<1>11. ASSUME NEW v \in WindowRecords, NEW kind \in {"Floating", "Tiling"},
              v.full = None, v.sticky = "no", v.max = None,
              kind = "Tiling" <=> x.nodes[s] > 0,
              \A t \in Spaces : v.nodes[t] <= x.nodes[t]
       PROVE  Turned(Gone(v, kind), x, tiling)
  <2>1. PICK big \in BOOLEAN : big = (x.max # None)
    OBVIOUS
  <2>2. PICK m \in MinimizedWindows :
          m = [space |-> s, kind |-> kind, max |-> big, back |-> None]
    <3>1. [space |-> s, kind |-> kind, max |-> big, back |-> None] \in MinimizedWindows
      BY DEF MinimizedWindows
    <3> QED BY <3>1
  <2>3. m # None /\ m.space = s /\ m.kind = kind /\ (m.max <=> big)
    BY <2>2, NoneAssumption
  <2>4. PICK g : g = [v EXCEPT !.minimized = TRUE, !.mini = m]
    OBVIOUS
  <2>5. g = Gone(v, kind)
    BY <2>1, <2>2, <2>4
  <2>6. /\ g.mini = m /\ g.full = None /\ g.sticky = "no"
        /\ g.nodes = v.nodes /\ g.max = None
    BY <2>4, <1>11 DEF WindowRecords
  <2>7. Rooted(g, tiling)
    <3>1. v.nodes \in [Spaces -> 0..2] /\ x.nodes \in [Spaces -> 0..2]
      BY <1>0 DEF WindowRecords
    <3> QED BY <3>1, <2>6, <1>0, <1>11 DEF Rooted
  <2>8. MaxRight(g)
    BY <2>6 DEF MaxRight, Sticks
  <2>9. Leads(g.mini, Place(x))
    <3>1. kind = Place(x).layer
      BY <1>6, <1>11
    <3> QED BY <3>1, <2>1, <2>3, <2>6, <1>6 DEF Leads
  <2>10. Away(g, Place(x), tiling)
    <3>1. Place(x).layer # "Sticky"
      BY <1>6
    <3>2. Place(x).layer = "Tiling" => tiling[Place(x).space]
      BY <1>6, <1>7
    <3>3. g.mini # None /\ g.mini.kind # "Fullscreen"
      BY <2>3, <2>6
    <3> QED BY <3>1, <3>2, <3>3, <2>9 DEF Away
  <2> QED BY <2>5, <2>7, <2>8, <2>10, <1>6, LeftTurns
<1> HIDE DEF Gone
<1>12. CASE s \in y.floating
  <2>1. PICK v \in WindowRecords : v = Unfloat(y, s)
    BY <1>5, UnfloatMoves
  <2>2. Moved(v, y) /\ v.nodes = y.nodes /\ v.max = y.max
    BY <2>1, <1>5, UnfloatMoves
  <2>3. v.full = None /\ v.sticky = "no" /\ v.max = None /\ v.nodes = x.nodes
    BY <2>2, <1>5, <1>6, <1>8 DEF Moved, Kept
  <2>4. \A t \in Spaces : v.nodes[t] <= x.nodes[t]
    BY <2>3, <1>0 DEF WindowRecords
  <2> QED BY <2>1, <2>3, <2>4, <1>8, <1>9, <1>10, <1>11, <1>12
<1>13. CASE s \notin y.floating /\ y.nodes[s] > 0
  <2>1. PICK v \in WindowRecords : v = Untile(y, s)
    BY <1>5, UntileMoves
  <2>2. /\ Moved(v, y) /\ v.nodes[s] = y.nodes[s] - 1 /\ v.max = y.max
        /\ \A t \in Spaces \ {s} : v.nodes[t] = y.nodes[t]
    BY <2>1, <1>5, <1>13, UntileMoves
  <2>3. v.full = None /\ v.sticky = "no" /\ v.max = None
    BY <2>2, <1>5, <1>6, <1>8 DEF Moved, Kept
  <2>4. \A t \in Spaces : v.nodes[t] <= x.nodes[t]
    BY <2>2, <1>0, <1>5 DEF WindowRecords
  <2> QED BY <2>1, <2>3, <2>4, <1>5, <1>9, <1>10, <1>11, <1>13
<1>14. CASE s \notin y.floating /\ ~(y.nodes[s] > 0)
  <2>1. z = Crash(y, "other")
    BY <1>10, <1>14
  <2>2. z.nodes = x.nodes /\ z.crash = "other"
    BY <2>1, <1>5 DEF Crash, WindowRecords
  <2>3. Rooted(z, tiling) /\ ~Whole(z)
    BY <2>2, <1>0 DEF Rooted, Whole
  <2> QED BY <2>3, <1>6, <1>9, LeftTurns
<1> QED BY <1>12, <1>13, <1>14

\* minimize_request.
LEMMA MinimizeTurns ==
  ASSUME TypeOK, NEW x, Ready(x)
  PROVE  Turned(MinimizeOf(x), x, tiling)
<1>0. x \in WindowRecords /\ Flagged(x) /\ Whole(x) /\ Rooted(x, tiling) /\ MaxRight(x)
  BY DEF Ready
<1>1. Apart(x)
  BY <1>0, WholeShape
<1>2. PICK z : z = MinimizeOf(x)
  OBVIOUS
<1>3. CASE x.sticky = "shown"
  <2>1. z = [x EXCEPT !.sticky = "minimized"]
    BY <1>1, <1>2, <1>3, Zenon DEF MinimizeOf, Apart, Sticks
  <2>2. /\ z.sticky = "minimized" /\ z.mini = x.mini /\ z.full = x.full
        /\ z.max = x.max /\ z.nodes = x.nodes
    BY <2>1, <1>0 DEF WindowRecords
  <2>3. /\ Place(x).layer = "Sticky" /\ Place(x).space = None /\ ~Place(x).max
        /\ ~Unplaced(x)
    BY <1>0, <1>3, PlaceIs DEF Unplaced
  <2>4. Away(z, Place(x), tiling)
    BY <2>2, <2>3 DEF Away
  <2>5. Rooted(z, tiling) /\ MaxRight(z)
    BY <1>0, <1>3, <2>2 DEF Rooted, MaxRight, Sticks
  <2> QED BY <1>2, <2>3, <2>4, <2>5, LeftTurns
<1>4. CASE x.sticky # "shown" /\ x.full # None
  <2>1. PICK f \in FullscreenSurfaces : f = x.full
    BY <1>0, <1>4 DEF WindowRecords
  <2>2. f.space \in Spaces /\ f.back \in {None} \cup WayBacks
    BY DEF FullscreenSurfaces
  <2>3. PICK m \in MinimizedWindows :
          m = [space |-> f.space, kind |-> "Fullscreen", max |-> FALSE, back |-> f.back]
    BY <2>2 DEF MinimizedWindows
  <2>4. m # None /\ m.kind = "Fullscreen" /\ m.back = f.back
    BY <2>3, NoneAssumption DEF MinimizedWindows
  <2>5. z = [x EXCEPT !.full = None, !.minimized = TRUE, !.mini = m]
    BY <1>2, <1>4, <2>1, <2>3, Zenon DEF MinimizeOf
  <2>6. /\ z.sticky = x.sticky /\ z.mini = m /\ z.full = None
        /\ z.nodes = x.nodes /\ z.floating = x.floating /\ z.max = x.max
    BY <2>5, <1>0 DEF WindowRecords
  <2>7. ~Sticks(x) /\ x.mini = None /\ Unplaced(x)
    BY <1>1, <1>4 DEF Apart, Unplaced
  <2>8. Unplaced(z)
    BY <2>6, <2>7 DEF Unplaced, Mapped
  <2>9. Rooted(z, tiling) /\ MaxRight(z)
    BY <1>0, <1>4, <2>6, <2>7 DEF Rooted, MaxRight, Sticks
  <2>10. ASSUME NEW p \in Places, Away(x, p, tiling)
         PROVE  Away(z, p, tiling)
    <3>1. Leads(f.back, p)
      BY <2>1, <2>7, <2>10 DEF Away, Sticks
    <3>2. z.mini # None /\ z.mini.kind = "Fullscreen" /\ Leads(z.mini.back, p)
      BY <3>1, <2>4, <2>6
    <3> QED BY <3>2, <2>10 DEF Away
  <2> QED BY <1>2, <2>7, <2>8, <2>9, <2>10 DEF Turned
<1>5. CASE x.sticky # "shown" /\ x.full = None /\ \E s \in Spaces : Mapped(x, s)
  <2>1. PICK s \in Spaces : Mapped(x, s) /\ z = MinimizedFrom(x, s)
    <3>1. z = MinimizedFrom(x, CHOOSE s \in Spaces : Mapped(x, s))
      BY <1>2, <1>5, Zenon DEF MinimizeOf
    <3>2. PICK s : s = CHOOSE t \in Spaces : Mapped(x, t)
      OBVIOUS
    <3>3. s \in Spaces /\ Mapped(x, s)
      BY <3>2, <1>5, Zenon
    <3> QED BY <3>1, <3>2, <3>3
  <2> QED BY <1>2, <2>1, MinimizedFromTurns
<1>6. CASE x.sticky # "shown" /\ x.full = None /\ \A s \in Spaces : ~Mapped(x, s)
  <2>1. z = x
    BY <1>2, <1>6, Zenon DEF MinimizeOf
  <2> QED BY <1>0, <1>2, <2>1 DEF Turned
<1> QED BY <1>3, <1>4, <1>5, <1>6

\* A window that stays as it is keeps its way back.
LEMMA SameTurns ==
  ASSUME NEW x, Ready(x)
  PROVE  Turned(x, x, tiling)
BY DEF Turned, Ready

\* What is unmaximized where it is mapped stays there, or is in no layer at all.
LEMMA UnmaximizedTurns ==
  ASSUME NEW x, Ready(x), NEW s \in Spaces, Mapped(x, s), NEW t, NEW y,
         UnmaximizedTo(y, x, s, t)
  PROVE  Turned(y, x, tiling)
<1>1. x \in WindowRecords /\ Whole(x) /\ Rooted(x, tiling)
  BY DEF Ready
<1>2. ~Unplaced(x) /\ Only(x, s) /\ x.sticky = "no"
  BY <1>1, MappedIs
<1>3. y.mini = None /\ y.full = None /\ y.sticky = "no" /\ y.nodes = x.nodes
      /\ y \in WindowRecords
  BY <1>2 DEF Only, UnmaximizedTo, Kept
<1>4. Rooted(y, tiling) /\ MaxRight(y)
  BY <1>1, <1>3 DEF Rooted, MaxRight, Sticks
<1>5. Unplaced(y) => ~Whole(y)
  BY <1>3, WholeShape
<1> QED BY <1>2, <1>4, <1>5, LeftTurns

\* unmaximize_request.
LEMMA UnmaximizeTurns ==
  ASSUME TypeOK, NEW x, Ready(x)
  PROVE  Turned(UnmaximizeOf(x), x, tiling)
<1>0. x \in WindowRecords /\ Flagged(x) /\ Whole(x) /\ Rooted(x, tiling) /\ MaxRight(x)
  BY DEF Ready
<1>1. Apart(x)
  BY <1>0, WholeShape
<1>2. PICK z : z = UnmaximizeOf(x)
  OBVIOUS
<1>3. CASE Sticks(x) /\ x.max = "Sticky"
  <2>1. z = [x EXCEPT !.max = None, !.told = FALSE]
    BY <1>2, <1>3, NoneAssumption, Zenon DEF UnmaximizeOf
  <2>2. /\ z \in WindowRecords /\ z.sticky = x.sticky /\ z.mini = x.mini /\ z.full = x.full
        /\ z.nodes = x.nodes /\ z.floating = x.floating /\ z.max = None
    BY <2>1, <1>0 DEF WindowRecords
  <2>3. Rooted(z, tiling) /\ MaxRight(z)
    BY <2>2, <1>0 DEF Rooted, MaxRight
  <2>4. Unplaced(z) <=> Unplaced(x)
    BY <2>2 DEF Unplaced, Mapped
  <2>5. ASSUME NEW p \in Places, Away(x, p, tiling)
        PROVE  Away(z, p, tiling)
    BY <2>2, <2>5, AwayStays
  <2> QED BY <1>2, <2>3, <2>4, <2>5 DEF Turned
<1>4. CASE Sticks(x) /\ x.max # None /\ x.max # "Sticky"
  BY <1>0, <1>4 DEF MaxRight
<1>5. CASE ~Sticks(x) /\ Homes(x) # {}
  <2>1. PICK s \in Homes(x) : z = Unmaximized(x, s, tiling[s])
    <3>1. z = LET s == CHOOSE h \in Homes(x) : TRUE IN Unmaximized(x, s, tiling[s])
      BY <1>2, <1>5, Zenon DEF UnmaximizeOf
    <3> QED BY <3>1, <1>5
  <2>2. s \in Spaces
    BY DEF Homes
  <2>3. tiling[s] \in BOOLEAN
    BY <2>2 DEF TypeOK
  <2>4. UnmaximizedTo(z, x, s, tiling[s])
    BY <1>0, <2>1, <2>2, <2>3, UnmaximizedMoves
  <2>5. CASE Mapped(x, s)
    BY <1>2, <2>2, <2>4, <2>5, UnmaximizedTurns
  <2>6. CASE ~Mapped(x, s)
    <3>1. x.max = None
      BY <1>0, <2>6 DEF Homes, MaxRight
    <3>2. z = x
      BY <2>4, <3>1 DEF UnmaximizedTo
    <3> QED BY <1>2, <3>2, SameTurns
  <2> QED BY <2>5, <2>6
<1>6. CASE (Sticks(x) /\ x.max = None) \/ (~Sticks(x) /\ Homes(x) = {})
  <2>1. z = x
    BY <1>2, <1>6, Zenon DEF UnmaximizeOf
  <2> QED BY <1>2, <2>1, SameTurns
<1> QED BY <1>3, <1>4, <1>5, <1>6

\* maximize_request: where it is, or where it comes back to.
LEMMA MaximizeTurns ==
  ASSUME TypeOK, NEW x, Ready(x)
  PROVE  Turned(MaximizeOf(x), x, tiling)
<1>0. x \in WindowRecords /\ Flagged(x) /\ Whole(x) /\ Rooted(x, tiling) /\ MaxRight(x)
  BY DEF Ready
<1>1. PICK y : y = UnminimizeOf(x)
  OBVIOUS
<1>2. /\ y \in WindowRecords /\ y.mini = None /\ Turned(y, x, tiling)
      /\ \A s, t \in Spaces : Mapped(y, s) /\ Mapped(y, t) => s = t
      /\ Sticks(y) => Homes(y) = {}
  BY <1>0, <1>1, UnminimizeFits, UnminimizeTurns, WholeShape DEF Fit
<1>3. PICK z : z = MaximizeOf(x)
  OBVIOUS
<1>4. CASE y.max # None
  <2>1. z = y
    BY <1>1, <1>3, <1>4, Zenon DEF MaximizeOf
  <2> QED BY <1>2, <1>3, <2>1
<1>5. CASE y.max = None /\ y.sticky = "shown"
  <2>1. z = [y EXCEPT !.max = "Sticky", !.told = TRUE]
    <3>1. Homes(y) = {}
      BY <1>2, <1>5 DEF Sticks
    <3> QED BY <1>1, <1>3, <1>5, <3>1, Zenon DEF MaximizeOf
  <2>2. /\ z \in WindowRecords /\ z.mini = y.mini /\ z.full = y.full
        /\ z.sticky = "shown" /\ z.nodes = y.nodes /\ z.max = "Sticky"
    BY <2>1, <1>2, <1>5 DEF WindowRecords
  <2>3. Whole(z) => z.full = None
    BY <2>2, WholeShape DEF Apart, Sticks
  <2>4. Rooted(z, tiling) /\ (Whole(z) => MaxRight(z))
    BY <1>2, <2>2, <2>3 DEF Turned, Rooted, MaxRight
  <2>5. /\ ~Unplaced(z) /\ ~Unplaced(y)
        /\ Place(z).layer = "Sticky" /\ Place(z).space = None
        /\ Place(y).layer = "Sticky" /\ Place(y).space = None /\ ~Place(y).max
    BY <1>2, <1>5, <2>2, PlaceIs DEF Unplaced
  <2>6. ASSUME NEW p \in Places, Unplaced(x) /\ Away(x, p, tiling)
        PROVE  Returned(z, p)
    <3>1. Returned(y, p)
      BY <1>2, <2>5, <2>6 DEF Turned
    <3> QED BY <2>5, <3>1 DEF Returned
  <2> QED BY <1>3, <2>4, <2>5, <2>6 DEF Turned
<1>6. CASE y.max = None /\ y.sticky # "shown" /\ Homes(y) # {}
  <2>1. PICK s \in Homes(y) :
          z = Maximized(y, s, IF IsTiled(y, s) THEN "Tiling" ELSE "Floating")
    <3>1. z = LET s == CHOOSE h \in Homes(y) : TRUE
              IN Maximized(y, s, IF IsTiled(y, s) THEN "Tiling" ELSE "Floating")
      BY <1>1, <1>3, <1>6, Zenon DEF MaximizeOf
    <3> QED BY <3>1, <1>6
  <2>2. PICK layer \in {"Floating", "Tiling"} :
          layer = IF IsTiled(y, s) THEN "Tiling" ELSE "Floating"
    OBVIOUS
  <2>3. s \in Spaces /\ Mapped(y, s)
    BY <1>2 DEF Homes
  <2>4. /\ z \in WindowRecords /\ Moved(z, y) /\ z.floating = y.floating \cup {s}
        /\ z.nodes = y.nodes /\ z.max = layer
    BY <2>1, <2>2, <2>3, <1>2, MaximizedMoves
  <2>5. z.mini = None /\ z.full = y.full /\ z.sticky = y.sticky /\ z.max # None
    BY <1>2, <2>4, NoneAssumption DEF Moved, Kept
  <2>6. Mapped(z, s) /\ \A t \in Spaces : Mapped(z, t) => t = s
    BY <1>2, <2>3, <2>4 DEF Mapped
  <2>7. Whole(z) => z.full = None /\ ~Sticks(z)
    BY <2>3, <2>4, <2>6, WholeShape DEF Apart
  <2>8. Rooted(z, tiling) /\ (Whole(z) => MaxRight(z))
    BY <1>2, <2>4, <2>5, <2>7 DEF Turned, Rooted, MaxRight
  <2>9. /\ Place(y).layer = IF y.nodes[s] > 0 THEN "Tiling" ELSE "Floating"
        /\ Place(y).space = s
    BY <1>2, <1>6, <2>3, PlaceIs
  <2>10. /\ Place(z).layer = IF z.nodes[s] > 0 THEN "Tiling" ELSE "Floating"
         /\ Place(z).space = s /\ (Place(z).max <=> z.max # None)
    BY <1>6, <2>3, <2>4, <2>5, <2>6, PlaceIs
  <2>11. ~Unplaced(z) /\ ~Unplaced(y)
    BY <2>3, <2>6 DEF Unplaced
  <2>12. ASSUME NEW p \in Places, Unplaced(x) /\ Away(x, p, tiling)
         PROVE  Returned(z, p)
    <3>1. Returned(y, p)
      BY <1>2, <2>11, <2>12 DEF Turned
    <3> QED BY <2>4, <2>5, <2>9, <2>10, <3>1 DEF Returned
  <2> QED BY <1>3, <2>8, <2>11, <2>12 DEF Turned
<1>7. CASE y.max = None /\ y.sticky # "shown" /\ Homes(y) = {}
  <2>1. z = y
    BY <1>1, <1>3, <1>7, Zenon DEF MaximizeOf
  <2> QED BY <1>2, <1>3, <2>1
<1> QED BY <1>4, <1>5, <1>6, <1>7

\* map_fullscreen: what is left of the window, and its way back.
LEMMA MadeFullscreenHolds ==
  ASSUME NEW x \in WindowRecords, NEW s \in Spaces, NEW back \in {None} \cup WayBacks
  PROVE  LET z == MadeFullscreen(x, s, back) IN
         /\ z.full # None /\ z.full.back = back /\ z.max = None
         /\ z.nodes = x.nodes /\ z.mini = x.mini /\ z.sticky = x.sticky
<1>1. PICK f \in FullscreenSurfaces : f = [space |-> s, back |-> back]
  BY DEF FullscreenSurfaces
<1>2. f # None /\ f.back = back
  BY <1>1, NoneAssumption DEF FullscreenSurfaces
<1>3. PICK z : z = MadeFullscreen(x, s, back)
  OBVIOUS
<1>4. z = [x EXCEPT !.fullscreen = TRUE, !.full = f, !.max = None, !.before = None]
  BY <1>1, <1>3, Zenon DEF MadeFullscreen
<1>5. /\ z.full = f /\ z.max = None /\ z.mini = x.mini /\ z.sticky = x.sticky
      /\ z.nodes = x.nodes
  BY <1>4 DEF WindowRecords
<1> QED BY <1>2, <1>3, <1>5

\* fullscreen_request: the way back leads to the layer the window was in.
LEMMA FullscreenTurns ==
  ASSUME TypeOK, NEW x, Ready(x)
  PROVE  Turned(FullscreenOf(x), x, tiling)
<1>0. x \in WindowRecords /\ Flagged(x) /\ Whole(x) /\ Rooted(x, tiling) /\ MaxRight(x)
  BY DEF Ready
<1>1. active \in Spaces
  BY DEF TypeOK
<1>2. PICK z : z = FullscreenOf(x)
  OBVIOUS
<1>3. CASE x.sticky = "shown"
  <2>1. PICK b \in WayBacks : b = [kind |-> "Sticky", space |-> active, max |-> x.max # None]
    <3>1. PICK m \in BOOLEAN : m = (x.max # None)
      OBVIOUS
    <3>2. [kind |-> "Sticky", space |-> active, max |-> m] \in WayBacks
      BY <1>1 DEF WayBacks
    <3> QED BY <3>1, <3>2
  <2>2. PICK t \in BOOLEAN : t = IF x.max = None THEN x.told ELSE FALSE
    BY <1>0 DEF WindowRecords
  <2>3. PICK on \in SUBSET Spaces : on = x.on \cup {active}
    BY <1>0, <1>1 DEF WindowRecords
  <2>4. PICK y : y = [x EXCEPT !.sticky = "no", !.told = t, !.on = on]
    OBVIOUS
  <2>5. y \in WindowRecords /\ y.nodes = x.nodes
    BY <2>4, <1>0 DEF WindowRecords
  <2>6. z = MadeFullscreen(y, active, b)
    <3>1. z = MadeFullscreen(
                [x EXCEPT !.sticky = "no", !.told = IF x.max = None THEN @ ELSE FALSE,
                          !.on = @ \cup {active}],
                active, [kind |-> "Sticky", space |-> active, max |-> x.max # None])
      BY <1>2, <1>3, Zenon DEF FullscreenOf
    <3>2. y = [x EXCEPT !.sticky = "no", !.told = IF x.max = None THEN @ ELSE FALSE,
                        !.on = @ \cup {active}]
      BY <2>2, <2>3, <2>4, <1>0 DEF WindowRecords
    <3> QED BY <3>1, <3>2, <2>1
  <2>7. z.full # None /\ z.full.back = b /\ z.max = None /\ z.nodes = x.nodes
    BY <1>1, <2>5, <2>6, MadeFullscreenHolds
  <2>8. /\ Place(x).layer = "Sticky" /\ Place(x).space = None /\ ~Place(x).max
        /\ ~Unplaced(x)
    BY <1>0, <1>3, PlaceIs DEF Unplaced
  <2>9. b # None /\ b.kind = "Sticky"
    BY <2>1, NoneAssumption
  <2>10. Away(z, Place(x), tiling)
    BY <2>7, <2>8, <2>9 DEF Away, Leads
  <2>11. Rooted(z, tiling) /\ MaxRight(z)
    BY <1>0, <2>7 DEF Rooted, MaxRight
  <2> QED BY <1>2, <2>8, <2>10, <2>11, LeftTurns
<1>4. CASE x.sticky # "shown" /\ Homes(x) # {} /\ ~x.minimized
  <2>1. PICK s \in Homes(x) :
          z = MadeFullscreen(Reannounced(Unmapped(x, s), s, active), active, WayBack(x, s))
    <3>1. z = LET s == CHOOSE h \in Homes(x) : TRUE
                  y == Reannounced(Unmapped(x, s), s, active)
              IN MadeFullscreen(y, active, WayBack(x, s))
      BY <1>2, <1>4, Zenon DEF FullscreenOf
    <3> QED BY <3>1, <1>4
  <2>2. s \in Spaces
    BY DEF Homes
  <2>3. x.mini = None
    BY <1>0, <1>4, Zenon DEF Flagged
  <2>4. Mapped(x, s)
    BY <2>3 DEF Homes
  <2>5. /\ ~Unplaced(x) /\ Place(x).space = s /\ (Place(x).max <=> x.max # None)
        /\ Place(x).layer = IF x.nodes[s] > 0 THEN "Tiling" ELSE "Floating"
    BY <1>0, <2>2, <2>4, MappedIs
  <2>6. PICK b \in WayBacks : /\ b = WayBack(x, s) /\ b.kind \in {"Floating", "Tiling"}
                              /\ b.kind = "Tiling" <=> x.nodes[s] > 0
                              /\ b.max = (x.max # None) /\ b.space = s
    BY <1>0, <2>3, WayBackFits
  <2>7. PICK y : y = Reannounced(Unmapped(x, s), s, active)
    OBVIOUS
  <2>8. Lifted(Unmapped(x, s), x)
    BY <1>0, <2>2, UnmappedMoves
  <2>9. y \in WindowRecords /\ y.nodes = Unmapped(x, s).nodes
    BY <1>1, <2>2, <2>7, <2>8, ReannouncedMoves DEF Lifted
  <2>10. z.full # None /\ z.full.back = b /\ z.max = None /\ z.nodes = y.nodes
    BY <1>1, <2>1, <2>6, <2>7, <2>9, MadeFullscreenHolds
  <2>11. Rooted(z, tiling) /\ MaxRight(z)
    <3>1. \A t \in Spaces : z.nodes[t] <= x.nodes[t]
      BY <2>8, <2>9, <2>10 DEF Lifted
    <3>2. z.nodes \in [Spaces -> 0..2] /\ x.nodes \in [Spaces -> 0..2]
      BY <1>0, <2>9, <2>10 DEF WindowRecords
    <3> QED BY <1>0, <2>10, <3>1, <3>2 DEF Rooted, MaxRight
  <2>12. Away(z, Place(x), tiling)
    <3>1. b # None /\ b.kind = Place(x).layer
      BY <2>5, <2>6, NoneAssumption
    <3>2. Leads(z.full.back, Place(x))
      BY <2>5, <2>6, <2>10, <3>1 DEF Leads
    <3>3. Place(x).layer = "Tiling" => tiling[Place(x).space]
      BY <1>0, <2>2, <2>5 DEF Rooted
    <3> QED BY <2>5, <2>10, <3>2, <3>3 DEF Away
  <2> QED BY <1>2, <2>5, <2>11, <2>12, LeftTurns
<1>5. CASE x.sticky # "shown" /\ (Homes(x) = {} \/ x.minimized)
  <2>1. z = x
    BY <1>2, <1>5, Zenon DEF FullscreenOf
  <2> QED BY <1>2, <2>1, SameTurns
<1> QED BY <1>3, <1>4, <1>5

\* unfullscreen_request: where the way back leads.
LEMMA UnfullscreenTurns ==
  ASSUME TypeOK, NEW x, Ready(x)
  PROVE  Turned(UnfullscreenOf(x), x, tiling)
<1>0. x \in WindowRecords /\ Flagged(x) /\ Whole(x) /\ Rooted(x, tiling) /\ MaxRight(x)
  BY DEF Ready
<1>1. active \in Spaces /\ tiling \in [Spaces -> BOOLEAN]
  BY DEF TypeOK
<1>2. PICK z : z = UnfullscreenOf(x)
  OBVIOUS
<1>3. CASE x.full = None
  <2>1. z = x
    BY <1>2, <1>3, Zenon DEF UnfullscreenOf
  <2> QED BY <1>2, <2>1, SameTurns
<1>4. CASE x.full # None
  <2>1. PICK f \in FullscreenSurfaces : f = x.full
    BY <1>0, <1>4 DEF WindowRecords
  <2>2. PICK b \in {None} \cup WayBacks : b = f.back
    BY DEF FullscreenSurfaces
  <2>3. b # None => /\ b.space \in Spaces /\ b.max \in BOOLEAN
                    /\ b.kind \in {"Floating", "Tiling", "Sticky"}
    BY DEF WayBacks
  <2>4. PICK y : y = [x EXCEPT !.full = None, !.fullscreen = FALSE]
    OBVIOUS
  <2>5. /\ y \in WindowRecords /\ y.full = None /\ y.max = x.max /\ y.mini = x.mini
        /\ y.sticky = x.sticky /\ y.floating = x.floating /\ y.nodes = x.nodes
        /\ y.on = x.on
    BY <2>4, <1>0 DEF WindowRecords
  <2>6. /\ Apart(x) /\ Bare(x) /\ x.mini = None /\ ~Sticks(x) /\ x.max = None
    BY <1>0, <1>4, WholeShape, AsideIsBare DEF Apart, MaxRight
  <2>7. x.sticky = "no" /\ Unplaced(x)
    BY <2>6 DEF Sticks, Bare, NoNode, Mapped, Unplaced
  <2>8. ASSUME NEW p \in Places, Away(x, p, tiling)
        PROVE  Leads(b, p) /\ (p.layer = "Tiling" => tiling[p.space])
               /\ (p.layer = "Sticky" => p.space = None /\ ~p.max)
    BY <2>1, <2>2, <2>6, <2>7, <2>8 DEF Away
  <2>9. CASE b # None /\ b.kind = "Sticky"
    <3>1. PICK on \in SUBSET Spaces : on = x.on \ {f.space}
      BY <1>0 DEF WindowRecords
    <3>2. z = [y EXCEPT !.sticky = "shown", !.on = on]
      <4>1. z = [y EXCEPT !.sticky = "shown", !.on = @ \ {x.full.space}]
        BY <1>2, <1>4, <2>1, <2>2, <2>4, <2>9, Zenon DEF UnfullscreenOf
      <4> QED BY <4>1, <3>1, <2>1, <2>5 DEF WindowRecords
    <3>3. /\ z \in WindowRecords /\ z.full = None /\ z.max = None /\ z.mini = None
          /\ z.sticky = "shown" /\ z.nodes = x.nodes
      BY <3>2, <2>5, <2>6 DEF WindowRecords
    <3>4. Rooted(z, tiling) /\ MaxRight(z) /\ ~Unplaced(z)
      BY <1>0, <3>3 DEF Rooted, MaxRight, Unplaced
    <3>5. Place(z).layer = "Sticky" /\ Place(z).space = None /\ ~Place(z).max
      BY <3>3, PlaceIs
    <3>6. ASSUME NEW p \in Places, Away(x, p, tiling)
          PROVE  Returned(z, p)
      BY <2>8, <2>9, <3>5, <3>6 DEF Leads, Returned
    <3> QED BY <1>2, <2>7, <3>4, <3>6 DEF Turned
  <2>10. CASE b = None \/ b.kind # "Sticky"
    <3>1. PICK s \in Spaces : s = IF b = None THEN active ELSE b.space
      BY <1>1, <2>3
    <3>2. PICK tile \in BOOLEAN : tile = ((b = None \/ b.kind = "Tiling") /\ tiling[s])
      OBVIOUS
    <3>3. PICK m \in BOOLEAN : m = (b # None /\ b.max)
      OBVIOUS
    <3>4. PICK layer \in {"Floating", "Tiling"} : layer = IF tile THEN "Tiling" ELSE "Floating"
      OBVIOUS
    <3>5. PICK v : v = PutDown(y, s, tile, m, layer)
      OBVIOUS
    <3>6. z = Reannounced(v, f.space, s)
      BY <1>2, <1>4, <2>1, <2>2, <2>4, <2>10, <3>1, <3>2, <3>3, <3>4, <3>5, Zenon
      DEF UnfullscreenOf, PutDown
    <3>7. y.nodes[s] <= 1 /\ Bare(y) /\ y.max = None
      BY <2>5, <2>6 DEF Apart, Bare, NoNode
    <3>8. v \in WindowRecords /\ Moved(v, y) /\ Down(v, s, tile, m, layer)
      BY <2>5, <3>5, <3>7, PutDownMoves
    <3>9. f.space \in Spaces
      BY DEF FullscreenSurfaces
    <3>10. /\ z \in WindowRecords /\ z.full = v.full /\ z.mini = v.mini
           /\ z.sticky = v.sticky /\ z.floating = v.floating /\ z.nodes = v.nodes
           /\ z.max = v.max
      BY <3>6, <3>8, <3>9, ReannouncedMoves
    <3>11. z.full = None /\ z.mini = None /\ z.sticky = "no"
      BY <2>5, <2>6, <2>7, <3>8, <3>10 DEF Moved, Kept
    <3>12. Down(z, s, tile, m, layer)
      BY <3>8, <3>10 DEF Down, NoNode
    <3>13. /\ ~Unplaced(z) /\ Rooted(z, tiling)
           /\ Place(z).layer = IF tile THEN "Tiling" ELSE "Floating"
           /\ Place(z).space = s /\ (Place(z).max <=> m)
      <4>1. z.sticky # "shown" /\ (tile => tiling[s]) /\ z \in WindowRecords
        BY <3>2, <3>10, <3>11
      <4> QED BY <3>12, <4>1, DownIs
    <3>14. MaxRight(z)
      BY <3>11 DEF MaxRight, Sticks
    <3>15. ASSUME NEW p \in Places, Away(x, p, tiling)
           PROVE  Returned(z, p)
      <4>1. b # None /\ b.kind = p.layer /\ (p.max => b.max) /\ p.layer # "Sticky"
        BY <2>8, <2>10, <3>15 DEF Leads
      <4>2. p.space = s
        BY <2>8, <3>1, <3>15, <4>1 DEF Leads
      <4>3. tile <=> p.layer = "Tiling"
        BY <2>8, <3>2, <3>15, <4>1, <4>2
      <4>4. p.layer = IF tile THEN "Tiling" ELSE "Floating"
        BY <2>3, <4>1, <4>3
      <4>5. p.max => m
        BY <3>3, <4>1
      <4> QED BY <3>13, <4>2, <4>4, <4>5 DEF Returned
    <3> QED BY <1>2, <2>7, <3>13, <3>14, <3>15 DEF Turned
  <2> QED BY <2>9, <2>10
<1> QED BY <1>3, <1>4

\* toggle_floating_window, of a window that is mapped on s or sticky.
LEMMA FloatingToggledTurns ==
  ASSUME TypeOK, NEW x, Ready(x), NEW s \in Spaces, Mapped(x, s) \/ Sticks(x)
  PROVE  Turned(FloatingToggled(x, s), x, tiling)
<1>0. x \in WindowRecords /\ Whole(x) /\ Rooted(x, tiling) /\ MaxRight(x) /\ Apart(x)
  BY WholeShape DEF Ready
<1>1. PICK u : u = IF x.acked THEN Unmaximized(x, s, TRUE) ELSE x
  OBVIOUS
<1>2. x.acked => UnmaximizedTo(u, x, s, TRUE)
  BY <1>0, <1>1, UnmaximizedMoves
<1>3. ~x.acked => u = x
  BY <1>1
<1>4. u \in WindowRecords /\ Kept(u, x) /\ u.nodes = x.nodes
  BY <1>0, <1>2, <1>3 DEF UnmaximizedTo, Kept
<1>5. u.nodes[s] \in 0 .. 2
  BY <1>4 DEF WindowRecords
<1>6. PICK z : z = FloatingToggled(x, s)
  OBVIOUS
<1>7. CASE ~tiling[s]
  <2>1. z = x
    BY <1>1, <1>6, <1>7, Zenon DEF FloatingToggled
  <2> QED BY <1>6, <2>1, SameTurns
<1>8. CASE tiling[s] /\ Sticks(x)
  <2>1. x.mini = None /\ x.full = None /\ \A t \in Spaces : ~Mapped(x, t)
    BY <1>0, <1>8 DEF Apart
  <2>2. \/ u = x
        \/ u.crash = "Sticky" /\ u.floating = x.floating /\ u.sticky = x.sticky
           /\ u.full = x.full /\ u.mini = x.mini
    <3>1. CASE x.acked /\ x.max = "Sticky"
      <4>1. u = Crash(x, "Sticky")
        BY <1>1, <2>1, <3>1, NoneAssumption DEF Unmaximized
      <4> QED BY <1>0, <4>1 DEF Crash, WindowRecords
    <3>2. CASE x.max = None
      BY <1>2, <1>3, <3>2 DEF UnmaximizedTo
    <3>3. CASE ~x.acked
      BY <1>3, <3>3
    <3> QED BY <1>0, <1>8, <3>1, <3>2, <3>3 DEF MaxRight
  <2>3. \A t \in Spaces : ~Mapped(u, t)
    BY <1>4, <2>1, <2>2 DEF Mapped
  <2>4. z = u
    BY <1>1, <1>5, <1>6, <1>8, <2>3 DEF FloatingToggled, Mapped
  <2>5. CASE u = x
    BY <1>6, <2>4, <2>5, SameTurns
  <2>6. CASE u # x
    <3>1. ~Whole(z)
      BY <2>2, <2>4, <2>6 DEF Whole
    <3>2. Rooted(z, tiling)
      BY <1>0, <1>4, <2>4 DEF Rooted
    <3>3. Unplaced(z) <=> Unplaced(x)
      BY <2>1, <2>2, <2>3, <2>4, <2>6 DEF Unplaced
    <3> QED BY <1>6, <3>1, <3>2, <3>3 DEF Turned
  <2> QED BY <2>5, <2>6
<1>9. CASE tiling[s] /\ Mapped(x, s)
  <2>1. ~Unplaced(x) /\ Only(x, s) /\ x.sticky = "no"
    BY <1>0, <1>9, MappedIs
  <2>2. z \in WindowRecords /\ Kept(z, x)
    BY <1>0, <1>6, FloatingToggledMoves
  <2>3. z.mini = None /\ z.full = None /\ z.sticky = "no"
    BY <2>1, <2>2 DEF Kept, Only
  <2>4. MaxRight(z) /\ (Unplaced(z) => ~Whole(z))
    BY <2>2, <2>3, WholeShape DEF MaxRight, Sticks
  <2>5. \A t \in Spaces \ {s} : z.nodes[t] = x.nodes[t]
    <3>1. CASE u.nodes[s] > 0
      <4>1. z = Float(Untile(u, s), s)
        <5>1. ~(u.nodes[s] = 0) /\ Mapped(u, s)
          BY <1>5, <3>1 DEF Mapped
        <5> QED BY <1>1, <1>6, <1>9, <3>1, <5>1, Zenon DEF FloatingToggled
      <4>2. /\ Untile(u, s) \in WindowRecords
            /\ \A t \in Spaces \ {s} : Untile(u, s).nodes[t] = u.nodes[t]
        BY <1>4, UntileMoves
      <4>3. z.nodes = Untile(u, s).nodes
        BY <4>1, <4>2, FloatMoves
      <4> QED BY <1>4, <4>2, <4>3
    <3>2. CASE u.nodes[s] = 0 /\ s \in u.floating
      <4>1. z = Tile(Unfloat(u, s), s)
        <5>1. ~(u.nodes[s] > 0) /\ Mapped(u, s)
          BY <1>5, <3>2 DEF Mapped
        <5> QED BY <1>1, <1>6, <1>9, <3>2, <5>1, Zenon DEF FloatingToggled
      <4>2. Unfloat(u, s) \in WindowRecords /\ Unfloat(u, s).nodes = u.nodes
        BY <1>4, UnfloatMoves
      <4>3. \A t \in Spaces \ {s} : z.nodes[t] = Unfloat(u, s).nodes[t]
        BY <3>2, <4>1, <4>2, TileMoves
      <4> QED BY <1>4, <4>2, <4>3
    <3>3. CASE u.nodes[s] = 0 /\ s \notin u.floating
      <4>1. z = u
        <5>1. ~(u.nodes[s] > 0) /\ ~Mapped(u, s)
          BY <1>5, <3>3 DEF Mapped
        <5>2. ~(s \in u.floating)
          BY <3>3
        <5> QED BY <1>1, <1>6, <1>9, <5>1, <5>2, Zenon DEF FloatingToggled
      <4> QED BY <1>4, <4>1
    <3> QED BY <1>5, <3>1, <3>2, <3>3
  <2>6. Rooted(z, tiling)
    BY <1>0, <1>9, <2>5 DEF Rooted
  <2> QED BY <1>6, <2>1, <2>4, <2>6, LeftTurns
<1> QED BY <1>7, <1>8, <1>9

\* unmap_element leaves a window unmaximized, or panics.
LEMMA UnmappedMax ==
  ASSUME TypeOK, NEW x \in WindowRecords, NEW s \in Spaces, x.mini = None,
         Unmapped(x, s).crash = "no"
  PROVE  Unmapped(x, s).max = None
<1>1. PICK y : y = Unmaximized(x, s, tiling[s])
  OBVIOUS
<1>2. tiling[s] \in BOOLEAN
  BY DEF TypeOK
<1>3. UnmaximizedTo(y, x, s, tiling[s])
  BY <1>1, <1>2, UnmaximizedMoves
<1>4. y \in WindowRecords /\ y.mini = None
  BY <1>3 DEF UnmaximizedTo, Kept
<1>5. Unmapped(x, s) = IF y.nodes[s] > 0 THEN Untile(y, s) ELSE Unfloat(y, s)
  BY <1>1, <1>4 DEF Unmapped
<1>6. Unmapped(x, s).max = y.max /\ Unmapped(x, s).crash = y.crash
  BY <1>4, <1>5, UntileMoves, UnfloatMoves
<1> QED BY <1>3, <1>6 DEF UnmaximizedTo

\* toggle_sticky, in both directions.
LEMMA StickyToggledTurns ==
  ASSUME TypeOK, NEW x, Ready(x)
  PROVE  Turned(StickyToggled(x), x, tiling)
<1>0. /\ x \in WindowRecords /\ Flagged(x) /\ Whole(x) /\ Rooted(x, tiling)
      /\ MaxRight(x) /\ Apart(x)
  BY WholeShape DEF Ready
<1>1. active \in Spaces /\ tiling \in [Spaces -> BOOLEAN]
  BY DEF TypeOK
<1>2. PICK z : z = StickyToggled(x)
  OBVIOUS
<1>3. CASE Homes(x) # {}
  <2>1. PICK s : s = CHOOSE h \in Homes(x) : TRUE
    OBVIOUS
  <2>2. s \in Homes(x) /\ s \in Spaces
    BY <1>3, <2>1 DEF Homes
  <2>3. PICK layer \in {"Floating", "Tiling"} :
          layer = IF IsTiled(x, s) THEN "Tiling" ELSE "Floating"
    OBVIOUS
  <2>4. PICK y : y = IF IsTiled(x, s) THEN FloatingToggled(x, s) ELSE x
    OBVIOUS
  <2>5. CASE ~Mapped(x, s)
    <3>1. x.max = None /\ x.mini # None
      BY <1>0, <2>2, <2>5 DEF Homes, MaxRight
    <3>2. FloatingToggled(x, s) = x
      <4>1. PICK u : u = IF x.acked THEN Unmaximized(x, s, TRUE) ELSE x
        OBVIOUS
      <4>2. UnmaximizedTo(Unmaximized(x, s, TRUE), x, s, TRUE)
        BY <1>0, <2>2, UnmaximizedMoves
      <4>3. u = x
        BY <3>1, <4>1, <4>2 DEF UnmaximizedTo
      <4>4. ~(x.nodes[s] > 0) /\ ~(s \in x.floating)
        BY <2>5 DEF Mapped
      <4>5. FloatingToggled(x, s) = IF tiling[s] THEN u ELSE x
        BY <2>5, <4>1, <4>3, <4>4, Zenon DEF FloatingToggled
      <4> QED BY <4>3, <4>5
    <3>3. y = x
      BY <2>4, <3>2
    <3>4. z = x
      BY <1>2, <1>3, <2>1, <2>4, <2>5, <3>3, Zenon DEF StickyToggled
    <3> QED BY <1>2, <3>4, SameTurns
  <2>6. CASE Mapped(x, s)
    <3>1. ~Unplaced(x) /\ Only(x, s) /\ x.sticky = "no"
      BY <1>0, <2>2, <2>6, MappedIs
    <3>2. Turned(y, x, tiling) /\ y \in WindowRecords /\ Kept(y, x)
      <4>1. CASE IsTiled(x, s)
        BY <1>0, <2>2, <2>4, <2>6, <4>1, FloatingToggledTurns, FloatingToggledMoves
      <4>2. CASE ~IsTiled(x, s)
        BY <1>0, <2>4, <4>2, SameTurns DEF Kept
      <4> QED BY <4>1, <4>2
    <3>3. CASE ~Mapped(y, s)
      <4>1. z = y
        BY <1>2, <1>3, <2>1, <2>4, <3>3, Zenon DEF StickyToggled
      <4> QED BY <1>2, <3>2, <4>1
    <3>4. CASE Mapped(y, s)
      <4>1. PICK u : u = Unmapped(y, s)
        OBVIOUS
      <4>2. Lifted(u, y) /\ y.mini = None /\ y.full = None
        BY <2>2, <3>1, <3>2, <4>1, UnmappedMoves DEF Kept, Only
      <4>3. PICK on \in SUBSET Spaces : on = u.on \ {s}
        BY <4>2 DEF Lifted, WindowRecords
      <4>4. z = [u EXCEPT !.before = layer, !.stuck = TRUE, !.sticky = "shown", !.on = on]
        <5>1. z = [Unmapped(y, s) EXCEPT !.before = layer, !.stuck = TRUE,
                                         !.sticky = "shown", !.on = @ \ {s}]
          BY <1>2, <1>3, <2>1, <2>3, <2>4, <3>4, Zenon DEF StickyToggled
        <5>2. z = [u EXCEPT !.before = layer, !.stuck = TRUE,
                            !.sticky = "shown", !.on = @ \ {s}]
          BY <5>1, <4>1
        <5> QED BY <5>2, <4>2, <4>3 DEF Lifted, WindowRecords
      <4>5. u \in WindowRecords
        BY <4>2 DEF Lifted
      <4>6. /\ z.full = u.full /\ z.crash = u.crash /\ z.max = u.max /\ z.mini = u.mini
            /\ z.sticky = "shown" /\ z.nodes = u.nodes
        BY <4>4, <4>5 DEF WindowRecords
      <4>7. Rooted(z, tiling)
        <5>1. \A t \in Spaces : z.nodes[t] <= y.nodes[t]
          BY <4>2, <4>6 DEF Lifted
        <5>2. z.nodes \in [Spaces -> 0..2] /\ y.nodes \in [Spaces -> 0..2]
          BY <3>2, <4>5, <4>6 DEF WindowRecords
        <5> QED BY <3>2, <5>1, <5>2 DEF Rooted, Turned
      <4>8. Whole(z) => MaxRight(z)
        <5>1. Whole(z) => u.crash = "no"
          BY <4>6 DEF Whole
        <5>2. Whole(z) => u.max = None
          BY <2>2, <3>2, <4>1, <4>2, <5>1, UnmappedMax
        <5> QED BY <4>6, <5>2 DEF MaxRight
      <4>9. ~Unplaced(z)
        BY <4>6 DEF Unplaced
      <4> QED BY <1>2, <3>1, <4>7, <4>8, <4>9, LeftTurns
    <3> QED BY <3>3, <3>4
  <2> QED BY <2>5, <2>6
<1>4. CASE Homes(x) = {} /\ x.sticky = "shown"
  <2>1. PICK layer \in {"Floating", "Tiling"} :
          layer = IF x.before = None THEN "Floating" ELSE x.before
    BY <1>0 DEF WindowRecords
  <2>2. PICK on \in SUBSET Spaces : on = x.on \cup {active}
    BY <1>0, <1>1 DEF WindowRecords
  <2>3. PICK y : y = [x EXCEPT !.sticky = "no", !.stuck = FALSE, !.before = None, !.on = on]
    OBVIOUS
  <2>4. /\ y \in WindowRecords /\ y.full = x.full /\ y.max = x.max /\ y.mini = x.mini
        /\ y.sticky = "no" /\ y.floating = x.floating /\ y.nodes = x.nodes
    BY <2>3, <1>0 DEF WindowRecords
  <2>5. PICK tile \in BOOLEAN : tile = (layer = "Tiling" /\ tiling[active])
    OBVIOUS
  <2>6. PICK m \in BOOLEAN : m = (x.max # None)
    OBVIOUS
  <2>7. z = PutDown(y, active, tile, m, layer)
    <3>1. y = [x EXCEPT !.sticky = "no", !.stuck = FALSE, !.before = None,
                        !.on = @ \cup {active}]
      BY <2>2, <2>3, <1>0 DEF WindowRecords
    <3>2. z = LET l == IF x.before = None THEN "Floating" ELSE x.before
                  v == [x EXCEPT !.sticky = "no", !.stuck = FALSE, !.before = None,
                                 !.on = @ \cup {active}]
                  w == IF l = "Tiling" /\ tiling[active] THEN Tile(v, active)
                       ELSE Float(v, active)
              IN IF x.max = None THEN w ELSE Maximized(w, active, l)
      BY <1>2, <1>4, Zenon DEF StickyToggled
    <3> QED BY <3>1, <3>2, <2>1, <2>5, <2>6, Zenon DEF PutDown
  <2>8. x.mini = None /\ x.full = None /\ Bare(x)
    BY <1>0, <1>4, AsideIsBare DEF Apart, Sticks
  <2>9. y.nodes[active] <= 1 /\ Bare(y) /\ (m \/ y.max = None)
    <3>1. Bare(y)
      BY <2>4, <2>8 DEF Bare, NoNode
    <3>2. y.nodes[active] = 0
      BY <1>1, <3>1 DEF Bare, NoNode
    <3>3. m \/ y.max = None
      BY <2>4, <2>6
    <3> QED BY <3>1, <3>2, <3>3
  <2>10. z \in WindowRecords /\ Moved(z, y) /\ Down(z, active, tile, m, layer)
    BY <1>1, <2>4, <2>7, <2>9, PutDownMoves
  <2>11. z.mini = None /\ z.full = None /\ z.sticky = "no"
    BY <2>4, <2>8, <2>10 DEF Moved, Kept
  <2>12. ~Unplaced(z) /\ Rooted(z, tiling)
    <3>1. z.sticky # "shown" /\ (tile => tiling[active])
      BY <2>5, <2>11
    <3> QED BY <1>1, <2>10, <3>1, DownIs
  <2>13. MaxRight(z) /\ ~Unplaced(x)
    BY <1>4, <2>11 DEF MaxRight, Sticks, Unplaced
  <2> QED BY <1>2, <2>12, <2>13, LeftTurns
<1>5. CASE Homes(x) = {} /\ x.sticky # "shown"
  <2>1. z = x
    BY <1>2, <1>5, Zenon DEF StickyToggled
  <2> QED BY <1>2, <2>1, SameTurns
<1> QED BY <1>3, <1>4, <1>5

-----------------------------------------------------------------------------
(* The invariant of the windows that are away, and what each step needs.    *)

\* Nodes and flags of one window are right.
Held(x, tl) == Rooted(x, tl) /\ (Whole(x) => MaxRight(x))

\* And if the history says that it was where m says, it is away from there.
WayHome(x, m, tl) ==
  /\ Held(x, tl)
  /\ m # None => x.open /\ Unplaced(x) /\ (Whole(x) => Away(x, m, tl))

\* The invariant that ComesBack rests on.
ReturnInv == \A w \in Windows : WayHome(win[w], was[w], tiling)

\* What ComesBack says of a step and one window.
Comes(w) == was[w] # None /\ win'[w].open /\ ~Unplaced(win'[w]) => Returned(win'[w], was[w])

\* A window that is mapped nowhere is held.
LEMMA FreshIsHeld ==
  ASSUME NEW tl
  PROVE  Held(Fresh, tl) /\ MaxRight(Fresh) /\ Unplaced(Fresh)
<1>1. Bare(Fresh) /\ \A s \in Spaces : ~Mapped(Fresh, s)
  BY FreshFits
<1>2. Fresh.mini = None /\ Fresh.full = None /\ Fresh.max = None /\ ~Sticks(Fresh)
  BY FreshFits
<1>3. Rooted(Fresh, tl)
  BY <1>1 DEF Rooted, Bare, NoNode
<1>4. Fresh.sticky # "shown"
  BY <1>2 DEF Sticks
<1> QED BY <1>1, <1>2, <1>3, <1>4 DEF Held, MaxRight, Unplaced

\* A window while states are followed.
LEMMA FollowedReturns ==
  ASSUME WindowInv, Followed, ReturnInv, NEW w \in Windows
  PROVE  /\ Rooted(win[w], tiling) /\ MaxRight(win[w]) /\ Apart(win[w])
         /\ win[w].open => Ready(win[w])
         /\ ~win[w].open => win[w] = Fresh /\ was[w] = None
         /\ was[w] # None => Unplaced(win[w]) /\ Away(win[w], was[w], tiling)
         /\ win[w] \in WindowRecords /\ was[w] \in {None} \cup Places
<1>1. /\ win[w] \in WindowRecords /\ win[w].crash = "no" /\ Flagged(win[w])
      /\ Apart(win[w]) /\ (~win[w].open => win[w] = Fresh)
  BY FollowedWindow
<1>2. WayHome(win[w], was[w], tiling)
  BY DEF ReturnInv
<1>3. win[w].open => Whole(win[w])
  BY <1>1 DEF Followed, Whole
<1>4. MaxRight(win[w])
  BY <1>1, <1>2, <1>3, FreshIsHeld DEF WayHome, Held
<1>5. was[w] # None => win[w].open
  BY <1>2 DEF WayHome
<1>6. was[w] # None => Unplaced(win[w]) /\ Away(win[w], was[w], tiling)
  BY <1>2, <1>3, <1>5 DEF WayHome
<1>7. win[w].open => Ready(win[w])
  BY <1>1, <1>2, <1>3, <1>4 DEF Ready, WayHome, Held
<1>8. was[w] \in {None} \cup Places
  BY DEF WindowInv, TypeOK
<1> QED BY <1>1, <1>2, <1>4, <1>5, <1>6, <1>7, <1>8 DEF WayHome, Held

\* A step that turns windows, and remembers where they were.
LEMMA TurnedKeeps ==
  ASSUME WindowInv, Followed, ReturnInv, WindowInv',
         NEW new, win' = new, was' = Remembered(new), tiling' = tiling,
         \A v \in Windows : Held(new[v], tiling)
                              /\ (win[v].open /\ new[v].open => Turned(new[v], win[v], tiling))
  PROVE  ReturnInv' /\ \A v \in Windows : Comes(v)
<1> SUFFICES ASSUME NEW v \in Windows
             PROVE  WayHome(win'[v], was'[v], tiling') /\ Comes(v)
  BY DEF ReturnInv
<1>1. PICK x : x = win[v]
  OBVIOUS
<1>2. PICK y : y = new[v]
  OBVIOUS
<1>3. PICK m : m = was[v]
  OBVIOUS
<1>4. /\ x \in WindowRecords /\ m \in {None} \cup Places
      /\ ~x.open => x = Fresh /\ m = None
      /\ m # None => Unplaced(x) /\ Away(x, m, tiling)
  BY <1>1, <1>3, FollowedReturns
<1>5. y \in WindowRecords
  BY <1>2 DEF WindowInv, TypeOK
<1>6. Held(y, tiling) /\ (x.open /\ y.open => Turned(y, x, tiling))
  BY <1>1, <1>2
<1>7. was'[v] = IF ~y.open \/ Place(y) # None THEN None
                ELSE IF Place(x) # None THEN Place(x) ELSE m
  BY <1>1, <1>2, <1>3 DEF Remembered
<1>8. (Place(x) = None <=> Unplaced(x)) /\ (Place(y) = None <=> Unplaced(y))
  BY <1>4, <1>5, PlaceIs
<1>9. Place(x) # None => x.open
  BY <1>4, <1>8, FreshIsHeld
<1>10. ASSUME was'[v] # None
       PROVE  y.open /\ Unplaced(y) /\ (Whole(y) => Away(y, was'[v], tiling))
  <2>1. y.open /\ Unplaced(y)
    BY <1>7, <1>8, <1>10
  <2>2. CASE Place(x) # None
    <3>1. was'[v] = Place(x)
      BY <1>7, <1>8, <2>1, <2>2
    <3> QED BY <1>6, <1>8, <1>9, <2>1, <2>2, <3>1 DEF Turned
  <2>3. CASE Place(x) = None
    <3>1. was'[v] = m
      BY <1>7, <1>8, <2>1, <2>3
    <3>2. m \in Places /\ x.open
      BY <1>4, <1>10, <3>1
    <3> QED BY <1>4, <1>6, <1>10, <2>1, <3>1, <3>2 DEF Turned
  <2> QED BY <2>1, <2>2, <2>3
<1>11. ASSUME m # None, y.open, ~Unplaced(y)
       PROVE  Returned(y, m)
  <2>1. m \in Places /\ x.open
    BY <1>4, <1>11
  <2> QED BY <1>4, <1>6, <1>11, <2>1 DEF Turned
<1> QED BY <1>2, <1>3, <1>6, <1>10, <1>11 DEF WayHome, Comes

\* A request that turns one window alone.
LEMMA ChangeTurns ==
  ASSUME WindowInv, Followed, ReturnInv, WindowInv', NEW w \in Windows, NEW x,
         Change(w, x), Held(x, tiling),
         win[w].open /\ x.open => Turned(x, win[w], tiling)
  PROVE  ReturnInv' /\ \A v \in Windows : Comes(v)
<1>1. PICK new : new = [win EXCEPT ![w] = x]
  OBVIOUS
<1>2. win' = new /\ was' = Remembered(new) /\ tiling' = tiling
  BY <1>1 DEF Change
<1>3. win = [v \in Windows |-> win[v]]
  BY DEF WindowInv, TypeOK
<1>4. new[w] = x /\ \A v \in Windows \ {w} : new[v] = win[v]
  BY <1>1, <1>3
<1>5. ASSUME NEW v \in Windows
      PROVE  /\ Held(new[v], tiling)
             /\ win[v].open /\ new[v].open => Turned(new[v], win[v], tiling)
  <2>1. CASE v = w
    BY <1>4, <2>1
  <2>2. CASE v # w
    <3>1. new[v] = win[v]
      BY <1>4, <2>2
    <3>2. Held(win[v], tiling)
      BY DEF ReturnInv, WayHome
    <3>3. win[v].open => Turned(win[v], win[v], tiling)
      BY FollowedReturns, SameTurns
    <3> QED BY <3>1, <3>2, <3>3
  <2> QED BY <2>1, <2>2
<1> QED BY <1>2, <1>5, TurnedKeeps

\* The requests for one open window, whose operations are known to turn it.
LEMMA OperationKeeps ==
  ASSUME WindowInv, Followed, ReturnInv, WindowInv', NEW w \in Windows, NEW x,
         Change(w, x), win[w].open, Turned(x, win[w], tiling)
  PROVE  ReturnInv' /\ \A v \in Windows : Comes(v)
<1>1. Held(x, tiling)
  BY DEF Held, Turned
<1> QED BY <1>1, ChangeTurns

\* A step that forgets where a window was; the others are held as they were.
LEMMA ForgottenKeeps ==
  ASSUME WindowInv, Followed, ReturnInv, WindowInv', tiling' = tiling,
         NEW w \in Windows, NEW old, NEW x,
         old = [v \in Windows |-> old[v]],
         win' = [old EXCEPT ![w] = x], was' = [was EXCEPT ![w] = None],
         Held(x, tiling), Unplaced(win[w]) => Unplaced(x),
         \A v \in Windows : old[v] = win[v] \/ (Held(old[v], tiling) /\ ~Unplaced(win[v]))
  PROVE  ReturnInv' /\ \A v \in Windows : Comes(v)
<1> SUFFICES ASSUME NEW v \in Windows
             PROVE  WayHome(win'[v], was'[v], tiling') /\ Comes(v)
  BY DEF ReturnInv
<1>1. was = [u \in Windows |-> was[u]]
  BY DEF WindowInv, TypeOK
<1>2. CASE v = w
  <2>1. win'[v] = x /\ was'[v] = None
    BY <1>1, <1>2
  <2>2. was[v] # None => Unplaced(win[v])
    BY FollowedReturns
  <2> QED BY <1>2, <2>1, <2>2 DEF WayHome, Comes
<1>3. CASE v # w
  <2>1. win'[v] = old[v] /\ was'[v] = was[v]
    BY <1>1, <1>3
  <2>2. was[v] # None => Unplaced(win[v])
    BY FollowedReturns
  <2>3. WayHome(win[v], was[v], tiling)
    BY DEF ReturnInv
  <2>4. CASE old[v] = win[v]
    BY <2>1, <2>2, <2>3, <2>4 DEF Comes
  <2>5. CASE Held(old[v], tiling) /\ ~Unplaced(win[v])
    BY <2>1, <2>2, <2>5 DEF Comes, WayHome
  <2> QED BY <2>4, <2>5
<1> QED BY <1>2, <1>3

\* The windows that RoomFor unmaximizes are turned; the others stay.
LEMMA RoomForTurns ==
  ASSUME WindowInv, Followed, ReturnInv, NEW w \in Windows, NEW s \in Spaces,
         NEW v \in Windows
  PROVE  \/ RoomFor(w, s)[v] = win[v]
         \/ /\ Turned(RoomFor(w, s)[v], win[v], tiling)
            /\ ~Unplaced(win[v]) /\ win[v].open
<1>1. PICK x : x = win[v]
  OBVIOUS
<1>2. CASE v # w /\ Mapped(x, s)
  <2>1. tiling[s] \in BOOLEAN
    BY DEF WindowInv, TypeOK
  <2>2. x.open
    BY <1>1, <1>2, FollowedReturns, FreshFits
  <2>3. Ready(x)
    BY <1>1, <2>2, FollowedReturns
  <2>4. PICK y : y = Unmaximized(x, s, tiling[s])
    OBVIOUS
  <2>5. UnmaximizedTo(y, x, s, tiling[s])
    BY <2>1, <2>3, <2>4, UnmaximizedMoves DEF Ready
  <2>6. Turned(y, x, tiling)
    BY <1>2, <2>3, <2>5, UnmaximizedTurns
  <2>7. RoomFor(w, s)[v] = y
    BY <1>1, <1>2, <2>4 DEF RoomFor
  <2>8. ~Unplaced(x)
    BY <1>2 DEF Unplaced
  <2> QED BY <1>1, <2>2, <2>6, <2>7, <2>8
<1>3. CASE ~(v # w /\ Mapped(x, s))
  BY <1>1, <1>3 DEF RoomFor
<1> QED BY <1>2, <1>3

-----------------------------------------------------------------------------
(* The requests, one by one.                                                *)

\* What is in one layer has its nodes and flags right.
LEMMA LiesHeld ==
  ASSUME NEW x \in WindowRecords, NEW tl, Lies(x, tl)
  PROVE  Held(x, tl)
<1>1. CASE Stuck(x)
  BY <1>1 DEF Held, Rooted, MaxRight, Stuck, Bare, NoNode
<1>2. ASSUME NEW s \in Spaces, Floats(x, s, tl)
      PROVE  Held(x, tl)
  BY <1>2 DEF Held, Rooted, MaxRight, Floats, NoNode, Shown
<1>3. ASSUME NEW s \in Spaces, Tiled(x, s, tl)
      PROVE  Held(x, tl)
  <2>1. Rooted(x, tl)
    BY <1>3 DEF Rooted, Tiled
  <2> QED BY <1>3, <2>1 DEF Held, MaxRight, Tiled, Shown
<1>4. ASSUME NEW s \in Spaces, Hidden(x, s) \/ Fills(x, s)
      PROVE  Held(x, tl)
  BY <1>4 DEF Held, Rooted, MaxRight, Hidden, Fills, Bare, NoNode
<1> QED BY <1>1, <1>2, <1>3, <1>4 DEF Lies

\* What a client commits changes no layer.
LEMMA AcknowledgeReturns ==
  ASSUME WindowInv, Followed, ReturnInv, WindowInv', NEW w \in Windows, Acknowledge(w)
  PROVE  ReturnInv' /\ \A v \in Windows : Comes(v)
<1>1. PICK x : x = win[w]
  OBVIOUS
<1>2. PICK y : y = [x EXCEPT !.acked = x.told]
  OBVIOUS
<1>3. Change(w, y) /\ x.told # x.acked
  BY <1>1, <1>2 DEF Acknowledge
<1>4. x.open
  BY <1>1, <1>3, FollowedReturns, FreshFits
<1>5. Ready(x)
  BY <1>1, <1>4, FollowedReturns
<1>6. /\ y.floating = x.floating /\ y.nodes = x.nodes /\ y.mini = x.mini
      /\ y.full = x.full /\ y.sticky = x.sticky /\ y.max = x.max
  BY <1>2, <1>5 DEF Ready, WindowRecords
<1>7. (\A s \in Spaces : Mapped(y, s) <=> Mapped(x, s)) /\ (Unplaced(y) <=> Unplaced(x))
  BY <1>6 DEF Mapped, Unplaced
<1>8. Rooted(y, tiling) /\ MaxRight(y)
  BY <1>5, <1>6 DEF Ready, Rooted, MaxRight, Sticks
<1>9. ASSUME NEW m, Away(x, m, tiling)
      PROVE  Away(y, m, tiling)
  BY <1>6, <1>9, AwayStays
<1>10. Turned(y, x, tiling)
  BY <1>7, <1>8, <1>9 DEF Turned
<1> QED BY <1>1, <1>3, <1>4, <1>10, OperationKeeps

\* What is closed is gone.
LEMMA CloseReturns ==
  ASSUME WindowInv, Followed, ReturnInv, WindowInv', NEW w \in Windows, Close(w)
  PROVE  ReturnInv' /\ \A v \in Windows : Comes(v)
<1>1. PICK f : f = Fresh
  OBVIOUS
<1>2. Change(w, f)
  BY <1>1 DEF Close
<1>3. Held(f, tiling) /\ ~f.open
  BY <1>1, FreshIsHeld, FreshFits
<1> QED BY <1>2, <1>3, ChangeTurns

\* A window that is opened fullscreen has been nowhere.
LEMMA OpenFullscreenReturns ==
  ASSUME WindowInv, Followed, ReturnInv, WindowInv', NEW w \in Windows, NEW s \in Spaces,
         OpenFullscreen(w, s)
  PROVE  ReturnInv' /\ \A v \in Windows : Comes(v)
<1>1. TypeOK
  BY DEF WindowInv
<1>2. PICK o : o = [Fresh EXCEPT !.open = TRUE, !.on = {s}]
  OBVIOUS
<1>3. o \in WindowRecords /\ Bare(o) /\ Shown(o) /\ o.on = {s} /\ Flagged(o)
  BY <1>1, <1>2, OpenedFits
<1>4. PICK none \in {None} \cup WayBacks : none = None
  OBVIOUS
<1>5. PICK z : z = MadeFullscreen(o, s, none)
  OBVIOUS
<1>6. z \in WindowRecords /\ Fills(z, s)
  BY <1>3, <1>5, MadeFullscreenMoves DEF Shown
<1>7. Held(z, tiling)
  BY <1>6, LiesHeld DEF Lies
<1>8. Change(w, z) /\ ~win[w].open
  BY <1>2, <1>4, <1>5, Zenon DEF OpenFullscreen
<1> QED BY <1>7, <1>8, ChangeTurns

\* A window that is opened has been nowhere; those it makes room for stay.
LEMMA OpenReturns ==
  ASSUME WindowInv, Followed, ReturnInv, WindowInv', NEW w \in Windows, NEW s \in Spaces,
         NEW float \in BOOLEAN, NEW sticky \in BOOLEAN,
         NEW maximize \in BOOLEAN, NEW minimize \in BOOLEAN,
         Open(w, s, float, sticky, maximize, minimize)
  PROVE  ReturnInv' /\ \A v \in Windows : Comes(v)
<1>1. PICK m : m = Asked(OpenedOn(s, float), sticky, maximize, minimize)
  OBVIOUS
<1>2. PICK old : old = IF ~float /\ tiling[s] THEN RoomFor(w, s) ELSE win
  OBVIOUS
<1>3. PICK new : new = [old EXCEPT ![w] = m]
  OBVIOUS
<1>4. /\ win' = new /\ was' = Remembered(new) /\ ~win[w].open
      /\ UNCHANGED <<tiling, mode, restore, active, usual>>
  BY <1>1, <1>2, <1>3, Zenon DEF Open, Asked, OpenedOn
<1>5. m \in WindowRecords /\ Lies(m, tiling)
  BY <1>1, OpenedLies
<1>6. Held(m, tiling)
  BY <1>5, LiesHeld
<1>7. old = [v \in Windows |-> old[v]]
  <2>1. RoomFor(w, s) = [v \in Windows |-> RoomFor(w, s)[v]]
    BY DEF RoomFor
  <2>2. win = [v \in Windows |-> win[v]]
    BY DEF WindowInv, TypeOK
  <2> QED BY <1>2, <2>1, <2>2
<1>8. ASSUME NEW v \in Windows
      PROVE  /\ Held(new[v], tiling)
             /\ win[v].open /\ new[v].open => Turned(new[v], win[v], tiling)
  <2>1. CASE v = w
    BY <1>3, <1>4, <1>6, <1>7, <2>1
  <2>2. CASE v # w
    <3>1. new[v] = old[v]
      BY <1>3, <1>7, <2>2
    <3>2. old[v] = win[v] \/ Turned(old[v], win[v], tiling)
      BY <1>2, RoomForTurns
    <3>3. CASE old[v] = win[v]
      <4>1. Held(win[v], tiling)
        BY DEF ReturnInv, WayHome
      <4>2. win[v].open => Turned(win[v], win[v], tiling)
        BY FollowedReturns, SameTurns
      <4> QED BY <3>1, <3>3, <4>1, <4>2
    <3>4. CASE Turned(old[v], win[v], tiling)
      BY <3>1, <3>4 DEF Held, Turned
    <3> QED BY <3>2, <3>3, <3>4
  <2> QED BY <2>1, <2>2
<1>9. tiling' = tiling
  BY <1>4
<1> QED BY <1>4, <1>8, <1>9, TurnedKeeps

\* The six requests that are one operation on an open window.
LEMMA RequestReturns ==
  ASSUME WindowInv, Followed, ReturnInv, WindowInv', NEW w \in Windows,
         \/ Minimize(w) \/ Unminimize(w) \/ Maximize(w) \/ Unmaximize(w)
         \/ Fullscreen(w) \/ Unfullscreen(w) \/ ToggleSticky(w)
  PROVE  ReturnInv' /\ \A v \in Windows : Comes(v)
<1>1. PICK x : x = win[w]
  OBVIOUS
<1>2. TypeOK
  BY DEF WindowInv
<1>3. x.open
  <2>1. x.full # None => x.open
    BY <1>1, FollowedReturns, FreshFits
  <2> QED BY <1>1, <2>1 DEF Minimize, Unminimize, Maximize, Unmaximize, Fullscreen, Unfullscreen,
          ToggleSticky, HasElement
<1>4. Ready(x)
  BY <1>1, <1>3, FollowedReturns
<1>5. /\ Turned(MinimizeOf(x), x, tiling) /\ Turned(UnminimizeOf(x), x, tiling)
      /\ Turned(MaximizeOf(x), x, tiling) /\ Turned(UnmaximizeOf(x), x, tiling)
      /\ Turned(FullscreenOf(x), x, tiling) /\ Turned(UnfullscreenOf(x), x, tiling)
      /\ Turned(StickyToggled(x), x, tiling)
  BY <1>2, <1>4, MinimizeTurns, UnminimizeTurns, MaximizeTurns, UnmaximizeTurns,
     FullscreenTurns, UnfullscreenTurns, StickyToggledTurns
<1>6. \E y : Change(w, y) /\ Turned(y, x, tiling)
  <2>1. CASE Minimize(w)
    BY <1>1, <1>5, <2>1 DEF Minimize
  <2>2. CASE Unminimize(w)
    BY <1>1, <1>5, <2>2 DEF Unminimize
  <2>3. CASE Maximize(w)
    BY <1>1, <1>5, <2>3 DEF Maximize
  <2>4. CASE Unmaximize(w)
    BY <1>1, <1>5, <2>4 DEF Unmaximize
  <2>5. CASE Fullscreen(w)
    BY <1>1, <1>5, <2>5 DEF Fullscreen
  <2>6. CASE Unfullscreen(w)
    BY <1>1, <1>5, <2>6 DEF Unfullscreen
  <2>7. CASE ToggleSticky(w)
    BY <1>1, <1>5, <2>7 DEF ToggleSticky
  <2> QED BY <2>1, <2>2, <2>3, <2>4, <2>5, <2>6, <2>7
<1> QED BY <1>1, <1>3, <1>6, OperationKeeps

\* toggle_floating_window, by the shortcut or the menu.
LEMMA ToggleFloatingReturns ==
  ASSUME WindowInv, Followed, ReturnInv, WindowInv', NEW w \in Windows, NEW s \in Spaces,
         ToggleFloating(w, s)
  PROVE  ReturnInv' /\ \A v \in Windows : Comes(v)
<1>1. PICK x : x = win[w]
  OBVIOUS
<1>2. TypeOK
  BY DEF WindowInv
<1>3. PICK y : y = FloatingToggled(x, s)
  OBVIOUS
<1>4. Change(w, y) /\ (Mapped(x, s) \/ Sticks(x))
  BY <1>1, <1>3 DEF ToggleFloating, Focusable
<1>5. x.open
  BY <1>1, <1>4, FollowedReturns, FreshFits
<1>6. Ready(x)
  BY <1>1, <1>5, FollowedReturns
<1>7. Turned(y, x, tiling)
  BY <1>2, <1>3, <1>4, <1>6, FloatingToggledTurns
<1> QED BY <1>1, <1>4, <1>5, <1>7, OperationKeeps

\* A panel's request: the window is unminimized, and room is made beside it.
LEMMA ActivateReturns ==
  ASSUME WindowInv, Followed, ReturnInv, WindowInv', NEW w \in Windows,
         NEW elsewhere \in BOOLEAN, Activate(w, elsewhere)
  PROVE  ReturnInv' /\ \A v \in Windows : Comes(v)
<1> DEFINE x == UnminimizeOf(win[w])
           at == {s \in Spaces : Mapped(x, s) \/ (x.full # None /\ x.full.space = s)}
           room == {s \in at : elsewhere /\ IsTiled(x, s)}
           new == [v \in Windows |->
                     IF v = w THEN x
                     ELSE IF \E s \in room : Mapped(win[v], s)
                     THEN RoomFor(w, CHOOSE s \in room : Mapped(win[v], s))[v]
                     ELSE win[v]]
<1>1. TypeOK
  BY DEF WindowInv
<1>2. win' = new /\ was' = Remembered(new) /\ tiling' = tiling
  BY DEF Activate
<1>3. win[w].open
  BY DEF Activate
<1>4. Turned(x, win[w], tiling)
  BY <1>1, <1>3, FollowedReturns, UnminimizeTurns
<1> HIDE DEF x
<1>5. \A s \in room : s \in Spaces
  OBVIOUS
<1> HIDE DEF at, room
<1>6. \A v \in Windows :
        new[v] = IF v = w THEN x
                 ELSE IF \E s \in room : Mapped(win[v], s)
                 THEN RoomFor(w, CHOOSE s \in room : Mapped(win[v], s))[v]
                 ELSE win[v]
  BY Zenon
<1> HIDE DEF new
<1>7. ASSUME NEW v \in Windows
      PROVE  /\ Held(new[v], tiling)
             /\ win[v].open /\ new[v].open => Turned(new[v], win[v], tiling)
  <2>1. CASE v = w
    BY <1>4, <1>6, <2>1 DEF Held, Turned
  <2>2. CASE v # w
    <3>1. new[v] = win[v] \/ Turned(new[v], win[v], tiling)
      <4>1. CASE \E s \in room : Mapped(win[v], s)
        <5>1. PICK s : s = CHOOSE h \in room : Mapped(win[v], h)
          OBVIOUS
        <5>2. s \in Spaces
          BY <1>5, <4>1, <5>1
        <5>3. new[v] = RoomFor(w, s)[v]
          BY <1>6, <2>2, <4>1, <5>1
        <5> QED BY <5>2, <5>3, RoomForTurns
      <4>2. CASE ~\E s \in room : Mapped(win[v], s)
        BY <1>6, <2>2, <4>2
      <4> QED BY <4>1, <4>2
    <3>2. CASE new[v] = win[v]
      <4>1. Held(win[v], tiling)
        BY DEF ReturnInv, WayHome
      <4>2. win[v].open => Turned(win[v], win[v], tiling)
        BY FollowedReturns, SameTurns
      <4> QED BY <3>2, <4>1, <4>2
    <3>3. CASE Turned(new[v], win[v], tiling)
      BY <3>3 DEF Held, Turned
    <3> QED BY <3>1, <3>2, <3>3
  <2> QED BY <2>1, <2>2
<1> QED BY <1>2, <1>7, TurnedKeeps

\* What stays put while a window moves.
LEMMA OthersStay ==
  ASSUME WindowInv, Followed, ReturnInv, NEW w \in Windows, NEW s \in Spaces,
         NEW tile, NEW old, old = IF tile THEN RoomFor(w, s) ELSE win
  PROVE  /\ old = [v \in Windows |-> old[v]]
         /\ \A v \in Windows : old[v] = win[v] \/ (Held(old[v], tiling) /\ ~Unplaced(win[v]))
<1>1. RoomFor(w, s) = [v \in Windows |-> RoomFor(w, s)[v]]
  BY DEF RoomFor
<1>2. win = [v \in Windows |-> win[v]]
  BY DEF WindowInv, TypeOK
<1>3. \A v \in Windows : \/ RoomFor(w, s)[v] = win[v]
                         \/ Held(RoomFor(w, s)[v], tiling) /\ ~Unplaced(win[v])
  BY RoomForTurns DEF Held, Turned
<1> QED BY <1>1, <1>2, <1>3

\* A window with the layers of v and announced elsewhere is held like v.
LEMMA ReannouncedHeld ==
  ASSUME NEW v, NEW z, NEW tl,
         z.max = v.max, z.floating = v.floating, z.nodes = v.nodes, z.mini = v.mini,
         z.full = v.full, z.sticky = v.sticky
  PROVE  /\ Rooted(v, tl) => Rooted(z, tl)
         /\ MaxRight(v) => MaxRight(z)
         /\ Unplaced(v) => Unplaced(z)
BY DEF Rooted, MaxRight, Unplaced, Mapped, Sticks

\* Nothing that is taken out of a layer gains a node.
LEMMA LiftedRooted ==
  ASSUME NEW x \in WindowRecords, NEW y, Lifted(y, x), NEW tl, Rooted(x, tl)
  PROVE  Rooted(y, tl)
<1>1. y \in WindowRecords /\ \A s \in Spaces : y.nodes[s] <= x.nodes[s]
  BY DEF Lifted
<1>2. \A s \in Spaces : x.nodes[s] \in 0 .. 2 /\ y.nodes[s] \in 0 .. 2
  BY <1>1 DEF WindowRecords
<1> QED BY <1>1, <1>2 DEF Rooted

\* Nor does one that is put down on s where s does not tile.
LEMMA PutDownRooted ==
  ASSUME NEW y \in WindowRecords, NEW s \in Spaces, y.nodes[s] <= 1, NEW tile \in BOOLEAN,
         NEW tl, Rooted(y, tl), tile => tl[s], NEW z, z = IF tile THEN Tile(y, s) ELSE Float(y, s)
  PROVE  Rooted(z, tl) /\ z \in WindowRecords /\ Moved(z, y)
<1>1. CASE tile
  BY <1>1, TileMoves DEF Rooted
<1>2. CASE ~tile
  BY <1>2, FloatMoves DEF Rooted
<1> QED BY <1>1, <1>2

\* move_element forgets where the window was; a minimized sticky one stays so.
LEMMA MoveCurrentReturns ==
  ASSUME WindowInv, Followed, ReturnInv, WindowInv', NEW w \in Windows, NEW to \in Spaces,
         NEW follow \in BOOLEAN, MoveCurrent(w, to, follow)
  PROVE  ReturnInv' /\ \A v \in Windows : Comes(v)
<1>1. TypeOK /\ active \in Spaces /\ tiling \in [Spaces -> BOOLEAN]
  BY DEF WindowInv, TypeOK
<1>2. PICK x : x = win[w]
  OBVIOUS
<1>3. /\ x \in WindowRecords /\ Apart(x) /\ Rooted(x, tiling) /\ MaxRight(x)
  BY <1>2, FollowedReturns
<1>4. PICK y : y = Unmapped(x, active)
  OBVIOUS
<1>5. PICK back : back = WayBack(x, active)
  OBVIOUS
<1>6. PICK tile \in BOOLEAN : tile = (back # None /\ tiling[to])
  OBVIOUS
<1>7. PICK m : m = IF back = None THEN y
                   ELSE IF tile THEN Tile(y, to)
                   ELSE IF back.kind = "Floating" /\ back.max THEN Maximized(y, to, "Floating")
                   ELSE Float(y, to)
  OBVIOUS
<1>8. PICK z : z = IF back = None THEN m ELSE Reannounced(m, active, to)
  OBVIOUS
<1>9. PICK old : old = IF tile THEN RoomFor(w, to) ELSE win
  OBVIOUS
<1>10. /\ Mapped(x, active) \/ Sticks(x)
       /\ win' = [old EXCEPT ![w] = z]
       /\ was' = [was EXCEPT ![w] = None]
       /\ tiling' = tiling
  BY <1>2, <1>4, <1>5, <1>6, <1>7, <1>8, <1>9, Zenon DEF MoveCurrent, Focusable
<1>11. x.mini = None
  BY <1>1, <1>3, <1>10 DEF Apart
<1>12. Lifted(y, x) /\ y \in WindowRecords
  BY <1>1, <1>3, <1>4, UnmappedMoves DEF Lifted
<1>13. Rooted(y, tiling)
  BY <1>3, <1>12, LiftedRooted
<1>14. ASSUME Sticks(x)
       PROVE  Held(z, tiling) /\ (Unplaced(x) => Unplaced(z))
  <2>1. active \notin Homes(x)
    BY <1>1, <1>3, <1>11, <1>14 DEF Homes, Apart
  <2>2. back = None
    BY <1>5, <2>1, Zenon DEF WayBack
  <2>3. z = y
    BY <1>7, <1>8, <2>2
  <2>4. Bare(x)
    BY <1>3, <1>14, AsideIsBare
  <2>5. CASE x.max = None
    <3>1. Bare(y) /\ y.max = None
      BY <1>1, <1>3, <1>4, <2>4, <2>5, UnmappedMoves
    <3>2. Unplaced(x) => Unplaced(y)
      BY <1>12, <3>1 DEF Unplaced, Mapped, Bare, NoNode, Lifted
    <3>3. MaxRight(y)
      BY <3>1 DEF MaxRight
    <3> QED BY <1>13, <2>3, <3>2, <3>3 DEF Held
  <2>6. CASE x.max # None
    <3>1. x.max = "Sticky"
      BY <1>3, <1>14, <2>6 DEF MaxRight
    <3>2. y.crash = "Sticky"
      BY <1>1, <1>3, <1>4, <1>11, <3>1, UnmappedMoves
    <3>3. Unplaced(x) => Unplaced(y)
      <4>1. PICK v : v = Unmaximized(x, active, tiling[active])
        OBVIOUS
      <4>2. v = Crash(x, "Sticky")
        BY <1>11, <3>1, <4>1, NoneAssumption DEF Unmaximized
      <4>3. /\ v \in WindowRecords /\ v.floating = x.floating /\ v.nodes = x.nodes
            /\ v.mini = None /\ v.sticky = x.sticky
        BY <1>3, <1>11, <4>2 DEF Crash, WindowRecords
      <4>4. v.nodes[active] = 0
        BY <1>1, <2>4, <4>3 DEF Bare, NoNode
      <4>5. y = Unfloat(v, active)
        <5>1. ~(v.nodes[active] > 0)
          BY <4>4
        <5> QED BY <1>4, <4>1, <4>3, <5>1, Zenon DEF Unmapped
      <4>6. y.floating = v.floating \ {active} /\ y.nodes = v.nodes /\ y.sticky = v.sticky
        BY <1>1, <4>3, <4>5, UnfloatMoves DEF Moved, Kept
      <4> QED BY <4>3, <4>6 DEF Unplaced, Mapped
    <3>4. ~Whole(y)
      BY <3>2 DEF Whole
    <3> QED BY <1>13, <2>3, <3>3, <3>4 DEF Held
  <2> QED BY <2>5, <2>6
<1>15. ASSUME Mapped(x, active), ~Sticks(x)
       PROVE  Held(z, tiling) /\ (Unplaced(x) => Unplaced(z))
  <2>1. ~Unplaced(x) /\ active \in Homes(x) /\ x.full = None
    BY <1>1, <1>3, <1>15 DEF Unplaced, Homes, Apart
  <2>2. back # None
    <3>1. WayBack(x, active) \in WayBacks
      BY <1>3, <1>11, <2>1, WayBackFits
    <3> QED BY <1>5, <3>1, NoneAssumption
  <2>3. y.nodes[to] <= 1
    <3>1. x.nodes[to] \in 0 .. 2 /\ y.nodes[to] \in 0 .. 2
      BY <1>3, <1>12 DEF WindowRecords
    <3> QED BY <1>3, <1>12, <3>1 DEF Apart, Lifted
  <2>4. Rooted(m, tiling) /\ m \in WindowRecords /\ Moved(m, y)
    <3>1. CASE ~tile /\ back.kind = "Floating" /\ back.max
      <4>1. PICK layer \in {"Floating", "Tiling"} : layer = "Floating"
        OBVIOUS
      <4>2. m = Maximized(y, to, layer)
        BY <1>7, <2>2, <3>1, <4>1
      <4>3. m \in WindowRecords /\ Moved(m, y) /\ m.nodes = y.nodes
        BY <1>12, <4>2, MaximizedMoves
      <4> QED BY <1>13, <4>3 DEF Rooted
    <3>2. CASE ~(~tile /\ back.kind = "Floating" /\ back.max)
      <4>1. m = IF tile THEN Tile(y, to) ELSE Float(y, to)
        BY <1>7, <2>2, <3>2
      <4>2. tile => tiling[to]
        BY <1>6
      <4> QED BY <1>12, <1>13, <2>3, <4>1, <4>2, PutDownRooted
    <3> QED BY <3>1, <3>2
  <2>5. m.mini = None /\ m.full = None /\ ~Sticks(m)
    BY <1>12, <1>15, <2>1, <2>4 DEF Moved, Kept, Lifted, Sticks
  <2>6. z = Reannounced(m, active, to)
    BY <1>8, <2>2
  <2>7. /\ z.max = m.max /\ z.floating = m.floating /\ z.nodes = m.nodes /\ z.mini = m.mini
        /\ z.full = m.full /\ z.sticky = m.sticky
    BY <1>1, <2>4, <2>6, ReannouncedMoves
  <2>8. Held(z, tiling)
    BY <2>4, <2>5, <2>7, ReannouncedHeld DEF Held, MaxRight
  <2> QED BY <2>1, <2>8
<1>16. Held(z, tiling) /\ (Unplaced(win[w]) => Unplaced(z))
  BY <1>2, <1>10, <1>14, <1>15
<1>17. /\ old = [v \in Windows |-> old[v]]
       /\ \A v \in Windows : old[v] = win[v] \/ (Held(old[v], tiling) /\ ~Unplaced(win[v]))
  BY <1>9, OthersStay
<1> QED BY <1>10, <1>16, <1>17, ForgottenKeeps

\* What was on no workspace is mapped nowhere, and has no nodes, in another place.
LEMMA BareHeld ==
  ASSUME NEW z, NEW tl, Bare(z), z.max = None, ~Sticks(z)
  PROVE  Held(z, tl) /\ Unplaced(z)
BY DEF Held, Rooted, MaxRight, Unplaced, Mapped, Bare, NoNode, Sticks

\* move_window forgets where the window was; a minimized or fullscreen one stays so.
LEMMA MoveWindowReturns ==
  ASSUME WindowInv, Followed, ReturnInv, WindowInv', NEW w \in Windows,
         NEW from \in Spaces, NEW to \in Spaces, NEW follow \in BOOLEAN,
         MoveWindow(w, from, to, follow)
  PROVE  ReturnInv' /\ \A v \in Windows : Comes(v)
<1>1. TypeOK /\ tiling \in [Spaces -> BOOLEAN]
  BY DEF WindowInv, TypeOK
<1>2. PICK x : x = win[w]
  OBVIOUS
<1>3. x \in WindowRecords /\ Apart(x) /\ Rooted(x, tiling) /\ MaxRight(x)
  BY <1>2, FollowedReturns
<1>4. PICK u : u = Unmapped(x, from)
  OBVIOUS
<1>5. PICK y : y = [u EXCEPT !.before = None]
  OBVIOUS
<1>6. PICK tile \in BOOLEAN : tile = (x.full = None /\ x.mini = None /\ tiling[to])
  OBVIOUS
<1>7. PICK b : b = x.full.back
  OBVIOUS
<1>8. PICK back : back = IF b = None THEN None
                         ELSE IF tiling[to] /\ ~tiling[from]
                         THEN [kind |-> "Tiling", space |-> to, max |-> b.max]
                         ELSE IF b.kind = "Sticky" THEN b ELSE [b EXCEPT !.space = to]
  OBVIOUS
<1>9. PICK moved : moved = CASE x.full # None -> MadeFullscreen(x, to, back)
                             [] x.mini # None -> [y EXCEPT !.mini = [x.mini EXCEPT !.space = to],
                                                           !.minimized = TRUE]
                             [] tile -> Tile(y, to)
                             [] OTHER -> Float(y, to)
  OBVIOUS
<1>10. PICK z : z = Reannounced(moved, from, to)
  OBVIOUS
<1>11. PICK old : old = IF tile THEN RoomFor(w, to) ELSE win
  OBVIOUS
<1>12. /\ IF x.full # None THEN x.full.space = from ELSE from \in Homes(x)
       /\ win' = [old EXCEPT ![w] = z] /\ was' = [was EXCEPT ![w] = None]
       /\ tiling' = tiling
  BY <1>2, <1>4, <1>5, <1>6, <1>7, <1>8, <1>9, <1>10, <1>11, Zenon DEF MoveWindow
<1>13. Lifted(u, x) /\ u \in WindowRecords
  BY <1>1, <1>3, <1>4, UnmappedMoves DEF Lifted
<1>14. /\ y \in WindowRecords /\ y.max = u.max /\ y.floating = u.floating
       /\ y.nodes = u.nodes /\ y.mini = u.mini /\ y.full = u.full /\ y.sticky = u.sticky
  BY <1>5, <1>13 DEF WindowRecords
<1>15. /\ moved \in WindowRecords /\ Held(moved, tiling)
       /\ Unplaced(x) => Unplaced(moved)
  <2>1. ASSUME x.full # None
        PROVE  moved \in WindowRecords /\ Held(moved, tiling) /\ Unplaced(moved)
    <3>1. PICK f \in FullscreenSurfaces : f = x.full
      BY <1>3, <2>1 DEF WindowRecords
    <3>2. b \in {None} \cup WayBacks
      BY <1>7, <3>1 DEF FullscreenSurfaces
    <3>3. back \in {None} \cup WayBacks
      <4>1. CASE b = None
        BY <1>8, <4>1
      <4>2. CASE b # None /\ tiling[to] /\ ~tiling[from]
        BY <1>8, <3>2, <4>2 DEF WayBacks
      <4>3. CASE b # None /\ ~(tiling[to] /\ ~tiling[from])
        BY <1>8, <3>2, <4>3 DEF WayBacks
      <4> QED BY <4>1, <4>2, <4>3
    <3>4. x.mini = None /\ ~Sticks(x) /\ Bare(x)
      BY <1>3, <2>1, AsideIsBare DEF Apart
    <3>5. moved = MadeFullscreen(x, to, back)
      <4>1. ~tile
        BY <1>6, <2>1
      <4> QED BY <1>9, <2>1, <3>4, <4>1
    <3>6. /\ moved \in WindowRecords /\ moved.max = None
          /\ moved.sticky = x.sticky /\ Bare(moved)
      BY <1>3, <3>3, <3>4, <3>5, MadeFullscreenMoves
    <3>7. ~Sticks(moved)
      BY <3>4, <3>6 DEF Sticks
    <3> QED BY <3>6, <3>7, BareHeld
  <2>2. ASSUME x.full = None, x.mini # None
        PROVE  moved \in WindowRecords /\ Held(moved, tiling) /\ Unplaced(moved)
    <3>1. PICK n \in MinimizedWindows : n = x.mini
      BY <1>3, <2>2 DEF WindowRecords
    <3>2. PICK m : m = [n EXCEPT !.space = to]
      OBVIOUS
    <3>3. m \in MinimizedWindows
      BY <3>2 DEF MinimizedWindows
    <3>4. ~tile
      BY <1>6, <2>2
    <3>5. moved = [y EXCEPT !.mini = m, !.minimized = TRUE]
      BY <1>9, <2>2, <3>1, <3>2, <3>4
    <3>6. /\ moved \in WindowRecords /\ moved.max = y.max
          /\ moved.floating = y.floating /\ moved.nodes = y.nodes
          /\ moved.sticky = y.sticky
      BY <1>14, <3>3, <3>5 DEF WindowRecords
    <3>7. Bare(x) /\ ~Sticks(x) /\ x.max = None
      BY <1>3, <2>2, AsideIsBare DEF Apart, MaxRight
    <3>8. Bare(u) /\ u.max = None
      BY <1>1, <1>3, <1>4, <3>7, UnmappedMoves
    <3>9. Bare(moved) /\ moved.max = None /\ ~Sticks(moved)
      BY <1>13, <1>14, <3>6, <3>7, <3>8 DEF Bare, NoNode, Sticks, Lifted
    <3> QED BY <3>6, <3>9, BareHeld
  <2>3. ASSUME x.full = None, x.mini = None
        PROVE  moved \in WindowRecords /\ Held(moved, tiling) /\ ~Unplaced(x)
    <3>1. Mapped(x, from)
      BY <1>12, <2>3 DEF Homes
    <3>2. ~Sticks(x) /\ ~Unplaced(x)
      BY <1>3, <3>1 DEF Apart, Unplaced
    <3>3. y.nodes[to] <= 1
      <4>1. x.nodes[to] \in 0 .. 2 /\ y.nodes[to] \in 0 .. 2
        BY <1>3, <1>14 DEF WindowRecords
      <4> QED BY <4>1, <1>3, <1>13, <1>14 DEF Apart, Lifted
    <3>4. Rooted(u, tiling)
      BY <1>3, <1>13, LiftedRooted
    <3>5. Rooted(y, tiling)
      BY <1>14, <3>4 DEF Rooted
    <3>6. moved = IF tile THEN Tile(y, to) ELSE Float(y, to)
      BY <1>9, <2>3
    <3>7. tile => tiling[to]
      BY <1>6
    <3>8. Rooted(moved, tiling) /\ moved \in WindowRecords /\ Moved(moved, y)
      BY <1>14, <3>3, <3>5, <3>6, <3>7, PutDownRooted
    <3>9. moved.mini = None /\ moved.full = None /\ ~Sticks(moved)
      BY <1>13, <1>14, <2>3, <3>2, <3>8 DEF Moved, Kept, Lifted, Sticks
    <3> QED BY <3>2, <3>8, <3>9 DEF Held, MaxRight
  <2> QED BY <2>1, <2>2, <2>3
<1>16. /\ z.max = moved.max /\ z.floating = moved.floating /\ z.nodes = moved.nodes
       /\ z.mini = moved.mini /\ z.full = moved.full /\ z.sticky = moved.sticky
       /\ z.crash = moved.crash
  BY <1>10, <1>15, ReannouncedMoves
<1>17. Whole(z) <=> Whole(moved)
  BY <1>16 DEF Whole, InOneLayer, Layers, Sticks
<1>18. Held(z, tiling) /\ (Unplaced(win[w]) => Unplaced(z))
  BY <1>2, <1>15, <1>16, <1>17, ReannouncedHeld DEF Held
<1>19. /\ old = [v \in Windows |-> old[v]]
       /\ \A v \in Windows : old[v] = win[v] \/ (Held(old[v], tiling) /\ ~Unplaced(win[v]))
  BY <1>11, OthersStay
<1> QED BY <1>12, <1>18, <1>19, ForgottenKeeps

-----------------------------------------------------------------------------
(* The requests for a workspace move no window that is away.                *)

\* y is x after a request for workspace s: only what is mapped there changed.
Retiled(y, x, s) ==
  /\ y \in WindowRecords /\ Kept(y, x)
  /\ \A t \in Spaces \ {s} : y.nodes[t] = x.nodes[t]
  /\ ~Mapped(x, s) => y = x

\* One request after another.
LEMMA RetiledTwice ==
  ASSUME NEW x, NEW y, NEW z, NEW s \in Spaces, Retiled(y, x, s), Retiled(z, y, s)
  PROVE  Retiled(z, x, s)
<1>1. Kept(z, x)
  BY KeptTwice DEF Retiled
<1> QED BY <1>1 DEF Retiled

\* What a request for a workspace keeps of one window.
LEMMA RetiledHeld ==
  ASSUME NEW x \in WindowRecords, NEW y, NEW s \in Spaces, NEW tl,
         Apart(x), Rooted(x, tiling), MaxRight(x), Retiled(y, x, s),
         \A t \in Spaces \ {s} : tl[t] = tiling[t], y.nodes[s] > 0 => tl[s]
  PROVE  Held(y, tl) /\ (Unplaced(x) => Unplaced(y))
<1>1. Rooted(y, tl)
  BY DEF Rooted, Retiled
<1>2. CASE Mapped(x, s)
  <2>1. y.mini = None /\ y.full = None /\ ~Sticks(y)
    BY <1>2 DEF Apart, Retiled, Kept, Sticks
  <2>2. ~Unplaced(x)
    BY <1>2 DEF Unplaced
  <2> QED BY <1>1, <2>1, <2>2 DEF Held, MaxRight
<1>3. CASE ~Mapped(x, s)
  BY <1>1, <1>3 DEF Held, Retiled
<1> QED BY <1>2, <1>3

\* A request for workspace s, which is where all of its changes are.
LEMMA RetiledKeeps ==
  ASSUME WindowInv, Followed, ReturnInv, NEW s \in Spaces,
         was' = [w \in Windows |-> None],
         \A t \in Spaces \ {s} : tiling'[t] = tiling[t],
         \A w \in Windows : /\ Retiled(win'[w], win[w], s)
                            /\ win'[w].nodes[s] > 0 => tiling'[s]
  PROVE  ReturnInv' /\ \A v \in Windows : Comes(v)
<1> SUFFICES ASSUME NEW v \in Windows
             PROVE  WayHome(win'[v], was'[v], tiling') /\ Comes(v)
  BY DEF ReturnInv
<1>1. was'[v] = None
  OBVIOUS
<1>2. /\ win[v] \in WindowRecords /\ Apart(win[v]) /\ Rooted(win[v], tiling)
      /\ MaxRight(win[v]) /\ (was[v] # None => Unplaced(win[v]))
  BY FollowedReturns
<1>3. Held(win'[v], tiling') /\ (Unplaced(win[v]) => Unplaced(win'[v]))
  BY <1>2, RetiledHeld
<1> QED BY <1>1, <1>2, <1>3 DEF WayHome, Comes

\* set_tiling of one window: it has a node where tiling is set, and none where not.
LEMMA TilingSetRetiles ==
  ASSUME TypeOK, NEW x \in WindowRecords, NEW s \in Spaces, NEW b \in BOOLEAN, x.nodes[s] <= 1
  PROVE  /\ Retiled(TilingSet(x, s, b), x, s)
         /\ ~b => TilingSet(x, s, b).nodes[s] = 0
         /\ x.nodes[s] = 0 => TilingSet(x, s, b).nodes[s] <= 1
<1>1. PICK u : u = IF x.acked THEN Unmaximized(x, s, TRUE) ELSE x
  OBVIOUS
<1>2. x.acked => UnmaximizedTo(u, x, s, TRUE)
  BY <1>1, UnmaximizedMoves
<1>3. ~x.acked => u = x
  BY <1>1
<1>4. u \in WindowRecords /\ u.nodes = x.nodes
  BY <1>2, <1>3 DEF UnmaximizedTo
<1>5. \A t \in Spaces : x.nodes[t] \in 0 .. 2
  BY DEF WindowRecords
<1>6. PICK z : z = TilingSet(x, s, b)
  OBVIOUS
<1>7. z \in WindowRecords /\ Kept(z, x) /\ (~Mapped(x, s) => z = x)
  BY <1>6, TilingSetMoves
<1>8. CASE b /\ s \in x.floating
  <2>1. PICK d : d = Unfloat(x, s)
    OBVIOUS
  <2>2. d \in WindowRecords /\ d.nodes = x.nodes
    BY <2>1, UnfloatMoves
  <2>3. PICK e : e = Tile(d, s)
    OBVIOUS
  <2>4. /\ e \in WindowRecords /\ \A t \in Spaces \ {s} : e.nodes[t] = x.nodes[t]
        /\ e.nodes[s] = x.nodes[s] + 1
    BY <2>2, <2>3, TileMoves
  <2>5. PICK layer \in {"Floating", "Tiling"} : layer = "Tiling"
    OBVIOUS
  <2>6. z = IF x.acked THEN Maximized(e, s, layer) ELSE e
    BY <1>1, <1>6, <1>8, <2>1, <2>3, <2>5, Zenon DEF TilingSet
  <2>7. z.nodes = e.nodes
    BY <2>4, <2>6, MaximizedMoves
  <2>8. Retiled(z, x, s)
    BY <1>7, <2>4, <2>7 DEF Retiled
  <2>9. x.nodes[s] = 0 => z.nodes[s] <= 1
    BY <2>4, <2>7
  <2> QED BY <1>6, <1>8, <2>8, <2>9
<1>9. CASE ~b /\ x.nodes[s] > 0
  <2>1. PICK d : d = Untile(u, s)
    OBVIOUS
  <2>2. /\ d \in WindowRecords /\ d.nodes[s] = 0
        /\ \A t \in Spaces \ {s} : d.nodes[t] = x.nodes[t]
    BY <1>4, <1>5, <1>9, <2>1, UntileMoves
  <2>3. PICK e : e = Float(d, s)
    OBVIOUS
  <2>4. e \in WindowRecords /\ e.nodes = d.nodes
    BY <2>2, <2>3, FloatMoves
  <2>5. PICK layer \in {"Floating", "Tiling"} : layer = "Floating"
    OBVIOUS
  <2>6. z = IF x.acked THEN Maximized(e, s, layer) ELSE e
    BY <1>1, <1>6, <1>9, <2>1, <2>3, <2>5, Zenon DEF TilingSet
  <2>7. z.nodes = d.nodes
    BY <2>4, <2>6, MaximizedMoves
  <2> QED BY <1>6, <1>7, <2>2, <2>7 DEF Retiled
<1>10. CASE ~(b /\ s \in x.floating) /\ ~(~b /\ x.nodes[s] > 0)
  <2>1. z = x
    BY <1>6, <1>10, Zenon DEF TilingSet
  <2> QED BY <1>5, <1>6, <1>7, <1>10, <2>1 DEF Retiled
<1> QED BY <1>8, <1>9, <1>10

\* The flags of one window change alone.
LEMMA ToldRetiles ==
  ASSUME NEW x \in WindowRecords, NEW b \in BOOLEAN, NEW s \in Spaces, NEW c,
         c => Mapped(x, s), NEW y, y = IF c THEN [x EXCEPT !.told = b] ELSE x
  PROVE  Retiled(y, x, s) /\ y.nodes = x.nodes /\ y.floating = x.floating
<1>1. CASE c
  <2>1. y = [x EXCEPT !.told = b]
    BY <1>1
  <2> QED BY <1>1, <2>1, ToldKept DEF Retiled
<1>2. CASE ~c
  <2>1. y = x
    BY <1>2
  <2> QED BY <2>1 DEF Retiled, Kept
<1> QED BY <1>1, <1>2

\* enter_monocle of one window: it has no node there any more.
LEMMA MonocleEnteredRetiles ==
  ASSUME TypeOK, NEW x \in WindowRecords, NEW s \in Spaces, x.nodes[s] <= 1, Rooted(x, tiling)
  PROVE  Retiled(MonocleEntered(x, s), x, s) /\ MonocleEntered(x, s).nodes[s] = 0
<1>1. PICK no \in BOOLEAN : ~no
  OBVIOUS
<1>2. PICK yes \in BOOLEAN : yes = TRUE
  OBVIOUS
<1>3. PICK y : y = IF tiling[s] THEN TilingSet(x, s, no) ELSE x
  OBVIOUS
<1>4. Retiled(y, x, s) /\ y.nodes[s] = 0
  <2>1. CASE tiling[s]
    <3>1. y = TilingSet(x, s, no)
      BY <1>3, <2>1
    <3> QED BY <1>1, <3>1, TilingSetRetiles
  <2>2. CASE ~tiling[s]
    <3>1. y = x
      BY <1>3, <2>2
    <3>2. x.nodes[s] \in 0 .. 2
      BY DEF WindowRecords
    <3> QED BY <2>2, <3>1, <3>2 DEF Retiled, Kept, Rooted
  <2> QED BY <2>1, <2>2
<1>5. PICK z : z = IF s \in y.floating THEN [y EXCEPT !.told = yes] ELSE y
  OBVIOUS
<1>6. y \in WindowRecords /\ (s \in y.floating => Mapped(y, s))
  BY <1>4 DEF Retiled, Mapped
<1>7. Retiled(z, y, s) /\ z.nodes = y.nodes
  BY <1>5, <1>6, ToldRetiles
<1>8. MonocleEntered(x, s) = z
  BY <1>1, <1>2, <1>3, <1>5 DEF MonocleEntered
<1>9. Retiled(z, x, s)
  BY <1>4, <1>7, RetiledTwice
<1> QED BY <1>4, <1>7, <1>8, <1>9

\* exit_monocle of one window: it has a node where it had one, or tiling comes back.
LEMMA MonocleExitedRetiles ==
  ASSUME TypeOK, NEW x \in WindowRecords, NEW s \in Spaces, x.nodes[s] <= 1, Rooted(x, tiling)
  PROVE  /\ Retiled(MonocleExited(x, s), x, s)
         /\ MonocleExited(x, s).nodes[s] > 0 => tiling[s] \/ restore[s] = "Tiling"
         /\ MonocleExited(x, s).nodes[s] <= 1
<1>1. PICK no \in BOOLEAN : ~no
  OBVIOUS
<1>2. PICK yes \in BOOLEAN : yes = TRUE
  OBVIOUS
<1>3. PICK y : y = IF Mapped(x, s) THEN [x EXCEPT !.told = no] ELSE x
  OBVIOUS
<1>4. Retiled(y, x, s) /\ y.nodes = x.nodes
  BY <1>3, ToldRetiles
<1>5. PICK z : z = IF restore[s] = "Tiling" /\ ~tiling[s] THEN TilingSet(y, s, yes) ELSE y
  OBVIOUS
<1>6. y \in WindowRecords /\ y.nodes[s] <= 1
  BY <1>4 DEF Retiled
<1>7. Retiled(z, y, s) /\ z.nodes[s] <= 1
  <2>1. CASE restore[s] = "Tiling" /\ ~tiling[s]
    <3>1. z = TilingSet(y, s, yes)
      BY <1>5, <2>1
    <3>2. y.nodes[s] = 0
      <4>1. x.nodes[s] \in 0 .. 2
        BY DEF WindowRecords
      <4> QED BY <1>4, <2>1, <4>1 DEF Rooted
    <3> QED BY <1>6, <3>1, <3>2, TilingSetRetiles
  <2>2. CASE ~(restore[s] = "Tiling" /\ ~tiling[s])
    <3>1. z = y
      BY <1>5, <2>2
    <3> QED BY <1>6, <3>1 DEF Retiled, Kept
  <2> QED BY <2>1, <2>2
<1>8. tiling[s] \/ restore[s] # "Tiling" => z.nodes = x.nodes
  BY <1>4, <1>5
<1>9. z.nodes[s] > 0 => tiling[s] \/ restore[s] = "Tiling"
  BY <1>8 DEF Rooted
<1>10. MonocleExited(x, s) = z
  BY <1>1, <1>2, <1>3, <1>5 DEF MonocleExited
<1>11. Retiled(z, x, s)
  BY <1>4, <1>7, RetiledTwice
<1> QED BY <1>7, <1>9, <1>10, <1>11

\* set_tiling of a workspace.
LEMMA SetTilingReturns ==
  ASSUME WindowInv, Followed, ReturnInv, NEW s \in Spaces, NEW b \in BOOLEAN, NEW layout,
         SetTiling(s, b, layout)
  PROVE  ReturnInv' /\ \A v \in Windows : Comes(v)
<1>1. TypeOK /\ tiling \in [Spaces -> BOOLEAN]
  BY DEF WindowInv, TypeOK
<1>2. /\ win' = [w \in Windows |-> TilingSet(win[w], s, b)]
      /\ tiling' = [tiling EXCEPT ![s] = b]
      /\ was' = [w \in Windows |-> None]
  BY DEF SetTiling
<1>3. ASSUME NEW w \in Windows
      PROVE  Retiled(win'[w], win[w], s) /\ (win'[w].nodes[s] > 0 => tiling'[s])
  <2>1. win'[w] = TilingSet(win[w], s, b)
    BY <1>2
  <2>2. win[w] \in WindowRecords /\ win[w].nodes[s] <= 1
    BY FollowedReturns DEF Apart
  <2> QED BY <1>1, <1>2, <2>1, <2>2, TilingSetRetiles
<1>4. \A t \in Spaces \ {s} : tiling'[t] = tiling[t]
  BY <1>1, <1>2
<1> QED BY <1>2, <1>3, <1>4, RetiledKeeps

\* enter_monocle of the active workspace.
LEMMA EnterMonocleReturns ==
  ASSUME WindowInv, Followed, ReturnInv, EnterMonocle
  PROVE  ReturnInv' /\ \A v \in Windows : Comes(v)
<1>1. TypeOK /\ tiling \in [Spaces -> BOOLEAN]
  BY DEF WindowInv, TypeOK
<1>2. PICK s \in Spaces : s = active
  BY <1>1 DEF TypeOK
<1>3. /\ win' = [w \in Windows |-> MonocleEntered(win[w], s)]
      /\ tiling' = [tiling EXCEPT ![s] = FALSE]
      /\ was' = [w \in Windows |-> None]
  BY <1>2 DEF EnterMonocle
<1>4. ASSUME NEW w \in Windows
      PROVE  Retiled(win'[w], win[w], s) /\ (win'[w].nodes[s] > 0 => tiling'[s])
  <2>1. win'[w] = MonocleEntered(win[w], s)
    BY <1>3
  <2>2. win[w] \in WindowRecords /\ win[w].nodes[s] <= 1 /\ Rooted(win[w], tiling)
    BY FollowedReturns DEF Apart
  <2>3. Retiled(win'[w], win[w], s) /\ win'[w].nodes[s] = 0
    BY <1>1, <2>1, <2>2, MonocleEnteredRetiles
  <2> QED BY <2>3
<1>5. \A t \in Spaces \ {s} : tiling'[t] = tiling[t]
  BY <1>1, <1>3
<1> QED BY <1>3, <1>4, <1>5, RetiledKeeps

\* exit_monocle of the active workspace.
LEMMA ExitMonocleReturns ==
  ASSUME WindowInv, Followed, ReturnInv, ExitMonocle
  PROVE  ReturnInv' /\ \A v \in Windows : Comes(v)
<1>1. TypeOK /\ tiling \in [Spaces -> BOOLEAN]
  BY DEF WindowInv, TypeOK
<1>2. PICK s \in Spaces : s = active
  BY <1>1 DEF TypeOK
<1>3. PICK b \in BOOLEAN : b = (tiling[s] \/ restore[s] = "Tiling")
  OBVIOUS
<1>4. /\ win' = [w \in Windows |-> MonocleExited(win[w], s)]
      /\ tiling' = [tiling EXCEPT ![s] = b]
      /\ was' = [w \in Windows |-> None]
  BY <1>2, <1>3 DEF ExitMonocle
<1>5. ASSUME NEW w \in Windows
      PROVE  Retiled(win'[w], win[w], s) /\ (win'[w].nodes[s] > 0 => tiling'[s])
  <2>1. win'[w] = MonocleExited(win[w], s)
    BY <1>4
  <2>2. win[w] \in WindowRecords /\ win[w].nodes[s] <= 1 /\ Rooted(win[w], tiling)
    BY FollowedReturns DEF Apart
  <2>3. /\ Retiled(win'[w], win[w], s)
        /\ win'[w].nodes[s] > 0 => tiling[s] \/ restore[s] = "Tiling"
    BY <1>1, <2>1, <2>2, MonocleExitedRetiles
  <2>4. tiling'[s] = b
    BY <1>1, <1>4
  <2> QED BY <1>3, <2>3, <2>4
<1>6. \A t \in Spaces \ {s} : tiling'[t] = tiling[t]
  BY <1>1, <1>4
<1> QED BY <1>4, <1>5, <1>6, RetiledKeeps

\* set_layout_mode of the active workspace: monocle is left, then tiling is set.
LEMMA SetLayoutModeReturns ==
  ASSUME WindowInv, Followed, ReturnInv, NEW layout, SetLayoutMode(layout)
  PROVE  ReturnInv' /\ \A v \in Windows : Comes(v)
<1>1. TypeOK /\ tiling \in [Spaces -> BOOLEAN]
  BY DEF WindowInv, TypeOK
<1>2. PICK s \in Spaces : s = active
  BY <1>1 DEF TypeOK
<1>3. PICK leave \in BOOLEAN : leave = (mode[s] = "Monocle")
  OBVIOUS
<1>4. PICK b \in BOOLEAN : b = (layout = "Tiling")
  OBVIOUS
<1>5. PICK now \in BOOLEAN : now = (tiling[s] \/ (leave /\ restore[s] = "Tiling"))
  OBVIOUS
<1> DEFINE Left(x) == IF leave THEN MonocleExited(x, s) ELSE x
<1>6. /\ win' = [w \in Windows |->
                   IF now = b THEN Left(win[w]) ELSE TilingSet(Left(win[w]), s, b)]
      /\ tiling' = [tiling EXCEPT ![s] = b]
      /\ was' = [w \in Windows |-> None]
  BY <1>2, <1>3, <1>4, <1>5 DEF SetLayoutMode
<1>7. ASSUME NEW w \in Windows
      PROVE  Retiled(win'[w], win[w], s) /\ (win'[w].nodes[s] > 0 => tiling'[s])
  <2>1. PICK x : x = win[w]
    OBVIOUS
  <2>2. x \in WindowRecords /\ x.nodes[s] <= 1 /\ Rooted(x, tiling)
    BY <2>1, FollowedReturns DEF Apart
  <2>3. PICK y : y = Left(x)
    OBVIOUS
  <2>4. /\ Retiled(y, x, s)
        /\ y.nodes[s] > 0 => now
        /\ y.nodes[s] <= 1
    <3>1. CASE leave
      <4>1. y = MonocleExited(x, s)
        BY <2>3, <3>1
      <4>2. /\ Retiled(y, x, s)
            /\ y.nodes[s] > 0 => tiling[s] \/ restore[s] = "Tiling"
            /\ y.nodes[s] <= 1
        BY <1>1, <2>2, <4>1, MonocleExitedRetiles
      <4> QED BY <1>5, <2>2, <3>1, <4>2
    <3>2. CASE ~leave
      <4>1. y = x
        BY <2>3, <3>2
      <4> QED BY <1>5, <2>2, <4>1 DEF Retiled, Kept, Rooted
    <3> QED BY <3>1, <3>2
  <2>5. tiling'[s] = b
    BY <1>1, <1>6
  <2>6. CASE now = b
    <3>1. win'[w] = y
      BY <1>6, <2>1, <2>3, <2>6
    <3> QED BY <2>1, <2>4, <2>5, <2>6, <3>1
  <2>7. CASE now # b
    <3>1. PICK z : z = TilingSet(y, s, b)
      OBVIOUS
    <3>2. win'[w] = z
      BY <1>6, <2>1, <2>3, <2>7, <3>1
    <3>3. y \in WindowRecords /\ y.nodes[s] <= 1
      BY <2>4 DEF Retiled
    <3>4. Retiled(z, y, s) /\ (~b => z.nodes[s] = 0)
      BY <1>1, <3>1, <3>3, TilingSetRetiles
    <3>5. Retiled(z, x, s)
      BY <2>4, <3>4, RetiledTwice
    <3> QED BY <2>1, <2>5, <3>2, <3>4, <3>5
  <2> QED BY <2>6, <2>7
<1>8. \A t \in Spaces \ {s} : tiling'[t] = tiling[t]
  BY <1>1, <1>6
<1> QED BY <1>6, <1>7, <1>8, RetiledKeeps

-----------------------------------------------------------------------------
(* The theorem.                                                             *)

\* Nothing has been away at the start.
LEMMA ReturnInit ==
  Init => ReturnInv
<1> SUFFICES ASSUME Init, NEW w \in Windows
             PROVE  WayHome(win[w], was[w], tiling)
  BY DEF ReturnInv
<1>1. win[w] = Fresh /\ was[w] = None
  BY DEF Init
<1>2. Held(Fresh, tiling)
  BY FreshIsHeld
<1> QED BY <1>1, <1>2 DEF WayHome

\* Every request keeps the invariant, and brings windows back where they were.
LEMMA NextReturns ==
  ASSUME WindowInv, ReturnInv, Next
  PROVE  ReturnInv' /\ \A v \in Windows : Comes(v)
<1>1. Followed /\ WindowInv'
  BY StepHolds DEF Next
<1>2. ASSUME NEW w \in Windows, WindowRequest(w)
      PROVE  ReturnInv' /\ \A v \in Windows : Comes(v)
  <2>1. ASSUME NEW s \in Spaces, NEW float \in BOOLEAN, NEW sticky \in BOOLEAN,
               NEW maximize \in BOOLEAN, NEW minimize \in BOOLEAN,
               Open(w, s, float, sticky, maximize, minimize)
        PROVE  ReturnInv' /\ \A v \in Windows : Comes(v)
    BY <1>1, <2>1, OpenReturns
  <2>2. ASSUME NEW s \in Spaces, OpenFullscreen(w, s)
        PROVE  ReturnInv' /\ \A v \in Windows : Comes(v)
    BY <1>1, <2>2, OpenFullscreenReturns
  <2>3. ASSUME NEW s \in Spaces, ToggleFloating(w, s)
        PROVE  ReturnInv' /\ \A v \in Windows : Comes(v)
    BY <1>1, <2>3, ToggleFloatingReturns
  <2>4. CASE Close(w)
    BY <1>1, <2>4, CloseReturns
  <2>5. CASE Acknowledge(w)
    BY <1>1, <2>5, AcknowledgeReturns
  <2>6. CASE Minimize(w) \/ Unminimize(w) \/ Maximize(w) \/ Unmaximize(w)
             \/ Fullscreen(w) \/ Unfullscreen(w) \/ ToggleSticky(w)
    BY <1>1, <2>6, RequestReturns
  <2>7. ASSUME NEW to \in Spaces, NEW follow \in BOOLEAN, MoveCurrent(w, to, follow)
        PROVE  ReturnInv' /\ \A v \in Windows : Comes(v)
    BY <1>1, <2>7, MoveCurrentReturns
  <2>8. ASSUME NEW from \in Spaces, NEW to \in Spaces, NEW follow \in BOOLEAN,
               MoveWindow(w, from, to, follow)
        PROVE  ReturnInv' /\ \A v \in Windows : Comes(v)
    BY <1>1, <2>8, MoveWindowReturns
  <2>9. ASSUME NEW elsewhere \in BOOLEAN, Activate(w, elsewhere)
        PROVE  ReturnInv' /\ \A v \in Windows : Comes(v)
    BY <1>1, <2>9, ActivateReturns
  <2> QED BY <1>2, <2>1, <2>2, <2>3, <2>4, <2>5, <2>6, <2>7, <2>8, <2>9, Zenon
          DEF WindowRequest
<1>3. CASE WorkspaceRequest
  <2>1. active \in Spaces /\ tiling \in [Spaces -> BOOLEAN]
    BY DEF WindowInv, TypeOK
  <2>2. ASSUME NEW s \in Spaces, Switch(s)
        PROVE  ReturnInv' /\ \A v \in Windows : Comes(v)
    <3>1. win' = win /\ was' = was /\ tiling' = tiling
      BY <2>2 DEF Switch
    <3>2. \A v \in Windows : was[v] # None => Unplaced(win[v])
      BY <1>1, FollowedReturns
    <3> QED BY <3>1, <3>2 DEF ReturnInv, Comes
  <2>3. CASE ToggleTiling
    <3>1. PICK b \in BOOLEAN : b = ~tiling[active]
      OBVIOUS
    <3>2. PICK layout : layout = IF tiling[active] THEN "Floating" ELSE "Tiling"
      OBVIOUS
    <3>3. SetTiling(active, b, layout)
      BY <2>3, <3>1, <3>2 DEF ToggleTiling
    <3> QED BY <1>1, <2>1, <3>3, SetTilingReturns
  <2>4. ASSUME NEW s \in Spaces, NEW b \in BOOLEAN, RequestTiling(s, b)
        PROVE  ReturnInv' /\ \A v \in Windows : Comes(v)
    <3>1. PICK layout : layout = mode[s]
      OBVIOUS
    <3>2. SetTiling(s, b, layout)
      BY <2>4, <3>1 DEF RequestTiling
    <3> QED BY <1>1, <3>2, SetTilingReturns
  <2>5. CASE EnterMonocle
    BY <1>1, <2>5, EnterMonocleReturns
  <2>6. CASE ExitMonocle
    BY <1>1, <2>6, ExitMonocleReturns
  <2>7. ASSUME NEW layout \in {"Floating", "Tiling"}, SetLayoutMode(layout)
        PROVE  ReturnInv' /\ \A v \in Windows : Comes(v)
    BY <1>1, <2>7, SetLayoutModeReturns
  <2> QED BY <1>3, <2>2, <2>3, <2>4, <2>5, <2>6, <2>7 DEF WorkspaceRequest
<1> QED BY <1>2, <1>3 DEF Next

\* Both invariants, step by step.
LEMMA ReturnStep ==
  WindowInv /\ ReturnInv /\ [Next]_vars => ReturnInv'
<1>1. ASSUME WindowInv, ReturnInv, Next
      PROVE  ReturnInv'
  BY <1>1, NextReturns
<1>2. ASSUME ReturnInv, UNCHANGED vars
      PROVE  ReturnInv'
  BY <1>2 DEF vars, ReturnInv
<1> QED BY <1>1, <1>2

\* A window that is shown again after it was minimized, fullscreen or both, is in
\* the layer and the workspace it had, and maximized if it was.
THEOREM AlwaysComesBack ==
  Spec => ComesBack
<1>1. WindowInv /\ ReturnInv /\ [Next]_vars =>
        [\A w \in Windows :
           was[w] # None /\ win'[w].open /\ Place(win'[w]) # None =>
             LET p == Place(win'[w]) IN
             /\ p.layer = was[w].layer
             /\ p.space = was[w].space
             /\ was[w].max => p.max]_vars
  <2>1. SUFFICES ASSUME WindowInv, ReturnInv, Next, NEW w \in Windows, was[w] # None,
                        win'[w].open, Place(win'[w]) # None
                 PROVE  LET p == Place(win'[w]) IN
                        /\ p.layer = was[w].layer
                        /\ p.space = was[w].space
                        /\ was[w].max => p.max
    OBVIOUS
  <2>2. win'[w] \in WindowRecords
    BY <2>1, StepHolds DEF WindowInv, TypeOK
  <2>3. ~Unplaced(win'[w])
    BY <2>1, <2>2, PlaceIs
  <2>4. Returned(win'[w], was[w])
    BY <2>1, <2>3, NextReturns DEF Comes
  <2> QED BY <2>4 DEF Returned
<1>2. Spec => []ReturnInv
  BY WindowInvariant, ReturnInit, ReturnStep, PTL DEF Spec
<1> QED BY <1>1, <1>2, WindowInvariant, PTL DEF Spec, ComesBack
=============================================================================
