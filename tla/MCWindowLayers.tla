---------------------------- MODULE MCWindowLayers ----------------------------
(* TLC instance of WindowLayers: two windows and two workspaces.            *)
EXTENDS WindowLayers, TLC

CONSTANTS w1, w2, s1, s2

OpenWindows == {w \in Windows : win[w].open}

Aside == {w \in OpenWindows :
            win[w].mini # None \/ win[w].full # None \/ Sticks(win[w])}

\* Workspaces in monocle mode, or whose layout mode SetTilingState left behind.
Odd == {s \in Spaces : mode[s] # IF tiling[s] THEN "Tiling" ELSE "Floating"}

\* Bounds.  One window alone goes through everything, with one odd workspace at
\* a time.  While two are open, no workspace is odd, at most one of the windows
\* is minimized, fullscreen or sticky, and at most one has to acknowledge.
Bound ==
  \/ Cardinality(OpenWindows) <= 1 /\ Cardinality(Odd) <= 1
  \/ /\ usual
     /\ Odd = {}
     /\ Cardinality(Aside) <= 1
     /\ Cardinality({w \in Windows : win[w].told # win[w].acked}) <= 1

Symmetry == Permutations(Windows) \cup Permutations(Spaces)
=============================================================================
