------------------------------- MODULE MCLayout -------------------------------
(* TLC instance of the tiling tree, of a stack of windows and of the         *)
(* keyboard focus.  The tree and a stack meet only where a stack is a leaf   *)
(* of the tree, which needs no more than its windows; the focus is about     *)
(* windows that are no stacks.  A behaviour is one of them, `part` says of   *)
(* which, and the variables of the others do not move.                       *)
EXTENDS Stack, TLC

CONSTANTS w1, w2, w3, w4, s1, s2, s3, win, popped, o1, o2, left1, right1, None

VARIABLES part,
    scope, tree, saved, grabbed, zone, trouble,
    home, minimized, seen, modal, activeSpaces, stacks, focus, focusedOutput,
    activeOutput, layers, locked, lockSurfaces, overrides, changes

Scope(n, m, s, p) ==
    [windows |-> n, minimized |-> m, stacks |-> s, placeholders |-> p]

\* Stacks and minimizing; many minimized windows; dragging one of three
\* windows; dragging with two placeholders in the tree.
Tiles == INSTANCE TilingTree WITH
    Windows <- {w1, w2, w3, w4},
    Scopes <- {Scope(3, 1, TRUE, 0), Scope(4, 2, FALSE, 0),
               Scope(3, 0, FALSE, 1), Scope(2, 1, TRUE, 2)}

\* Two outputs with a workspace each, a window and its dialog.
Desk == INSTANCE Focus WITH
    active <- activeSpaces, focused <- focusedOutput,
    Windows <- {win, popped}, ParentOf <- (popped :> win),
    Outputs <- {o1, o2}, OutputOf <- (left1 :> o1) @@ (right1 :> o2), MaxChanges <- 1

treeVars == <<scope, tree, saved, grabbed, zone, trouble>>
focusVars == <<home, minimized, seen, modal, activeSpaces, stacks, focus,
               focusedOutput, activeOutput, layers, locked, lockSurfaces,
               overrides, changes>>
vars == <<part, treeVars, stackVars, focusVars>>

\* The parts that do not run are in an initial state of their own.
TreeAtRest == Tiles!Init /\ scope.windows = 2
StackAtRest == StackInit /\ wins = <<s1>> /\ ~listening
FocusAtRest == Desk!FocusInit /\ activeOutput = o1 /\ modal = {}

Init ==
    \/ part = "tiles" /\ Tiles!Init /\ StackAtRest /\ FocusAtRest
    \/ part = "keys" /\ StackInit /\ ~listening /\ TreeAtRest /\ FocusAtRest
    \/ /\ part = "tabs" /\ StackInit /\ listening /\ s3 \notin Range(wins)
       /\ TreeAtRest /\ FocusAtRest
    \/ part = "focus" /\ Desk!FocusInit /\ TreeAtRest /\ StackAtRest

Only(p) == part = p /\ UNCHANGED part

\* A stack with a shell has two windows, and the modifiers stay as they are.
\* Once tabs moved or went without a word to the shell, nothing is claimed
\* about its list any more.
SmallStep ==
    ~unannounced /\ StackNext /\ s3 \notin Range(wins') /\ mods' = 0

Next ==
    \/ Only("tiles") /\ Tiles!Next /\ UNCHANGED <<stackVars, focusVars>>
    \/ Only("keys") /\ StackNext /\ UNCHANGED <<treeVars, focusVars>>
    \/ Only("tabs") /\ SmallStep /\ UNCHANGED <<treeVars, focusVars>>
    \/ Only("focus") /\ Desk!FocusNext /\ UNCHANGED <<treeVars, stackVars>>

Spec == Init /\ [][Next]_vars

\* The windows of the tree are alike.
Perms == Permutations({w1, w2, w3, w4})
-----------------------------------------------------------------------------
(* The type invariants of the parts; CosmicStack::active, which every reader *)
(* uses unchecked, is the index of a window.                                 *)
TypeOK ==
    /\ Tiles!TilingTypeOK
    /\ StackTypeOK /\ ActiveInRange
    /\ Desk!FocusTypeOK

(* TilingTree: whatever is mapped, closed, minimized, restored, moved,       *)
(* stacked, dragged or dropped, groups have as many sizes as children, and a *)
(* window is in one place (TilingTree::map, unmap, remap, move_current_node, *)
(* toggle_stacking, drop_window).                                            *)
TreeIsSound == Tiles!TreeIsSound

(* TilingTree: remap undoes unmap for every tile of every tree.              *)
RestoreIsInverse == Tiles!RestoreIsInverse

(* KeyboardFollows and TabsCatchUp are the properties of Stack.              *)

(* Focus: every refresh leaves the keys with something that may have them,   *)
(* and the parent of a dialog that had them gets them back.                  *)
KeysGoWhereTheyMay ==
    [][part = "focus" /\ Desk!Refresh => Desk!KeysAreGiven]_focusVars
=============================================================================
