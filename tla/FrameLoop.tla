------------------------------ MODULE FrameLoop -------------------------------
(***************************************************************************)
(* What the thread of an output promises (the states and doc comments of   *)
(* QueueState, src/backend/kms/surface/mod.rs): at most one render waits   *)
(* to be drawn and at most one frame to be presented, no frame is          *)
(* submitted before the last one was presented, and what is scheduled      *)
(* while a frame is on its way is rendered after it, unless the output is  *)
(* told to go dark.                                                        *)
(*                                                                         *)
(* KmsSurface implements it, with timers, commands and the kernel's flips  *)
(* in the place of the words "waits" and "presented".                      *)
(***************************************************************************)

VARIABLES
  lit,      \* there is a compositor to draw with
  dark,     \* the next command turns the output dark
  waiting,  \* for what the loop waits: "nothing", "vblank" or "estimate"
  again,    \* a redraw was asked for while a frame was on its way
  render    \* a render waits to be drawn

vars == <<lit, dark, waiting, again, render>>

Init == ~lit /\ ~dark /\ waiting = "nothing" /\ ~again /\ ~render

\* Commands come, and a compositor with one of them.
Tell == lit' \in {lit, TRUE} /\ UNCHANGED <<waiting, again, render>>

Stop ==
  /\ dark
  /\ lit' \in {lit, FALSE}
  /\ waiting' = "nothing" /\ again' = FALSE /\ render' = FALSE

Schedule ==
  /\ lit
  /\ IF waiting = "vblank" THEN again' = TRUE /\ UNCHANGED render
                           ELSE render' = TRUE /\ UNCHANGED again
  /\ UNCHANGED <<lit, waiting>>

\* A render ends in a frame, or in none because nothing changed on screen.
Submit ==
  /\ lit /\ render /\ waiting # "vblank"
  /\ waiting' = "vblank" /\ render' = FALSE /\ again' \in BOOLEAN
  /\ UNCHANGED lit
Skip ==
  /\ lit /\ render /\ waiting # "vblank"
  /\ waiting' = "estimate" /\ render' \in BOOLEAN
  /\ UNCHANGED <<lit, again>>

\* The frame is on screen, or would have been; a redraw asked for meanwhile,
\* or one that waits already, is drawn next.
Presented ==
  /\ lit /\ waiting = "vblank"
  /\ waiting' = "nothing" /\ again' = FALSE
  /\ render' \in BOOLEAN /\ (again => render')
  /\ UNCHANGED lit
Estimated ==
  /\ waiting = "estimate"
  /\ waiting' = "nothing"
  /\ render' \in BOOLEAN /\ (render => render')
  /\ UNCHANGED <<lit, again>>

\* A frame of before the output was dark is on screen after all; the thread
\* then waits for nothing, a render included.
Late ==
  /\ lit /\ waiting # "vblank"
  /\ waiting' = "nothing" /\ render' = FALSE
  /\ UNCHANGED <<lit, again>>

Next ==
  /\ \/ Tell \/ Stop \/ Schedule \/ Submit \/ Skip \/ Presented \/ Estimated
     \/ Late
  /\ dark' \in BOOLEAN

Spec == Init /\ [][Next]_vars
=============================================================================
