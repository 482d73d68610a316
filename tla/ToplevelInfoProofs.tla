-------------------------- MODULE ToplevelInfoProofs --------------------------
(***************************************************************************)
(* Theorems about ToplevelInfo: for any windows, clients, outputs and      *)
(* workspaces, a refresh leaves every client with what is so, and nobody   *)
(* waits for a `done` that does not come.                                  *)
(*                                                                         *)
(* A refresh sends the difference to what a handle remembers, so it is     *)
(* right only if what the handle remembers is right: the inductive         *)
(* invariant says what each handle knows of the client's objects, in every *)
(* state and not only after a refresh.                                     *)
(***************************************************************************)
EXTENDS ToplevelInfo, TLAPS

InfoTypes ==
  /\ state \in [Windows -> {"none", "open", "dead"}]
  /\ title \in [Windows -> Titles] /\ geometry \in [Windows -> Geometries]
  /\ outputs \in [Windows -> SUBSET Screens]
  /\ workspaces \in [Windows -> SUBSET Spaces]
  /\ foreign \in [Windows -> Titles \cup {None}]
  /\ legacy \in SUBSET Clients
  /\ info \in [Clients -> {"none", "bound", "stopped"}]
  /\ wlOutputs \in [Clients -> SUBSET Screens]
  /\ spaceHandles \in [Clients -> SUBSET Spaces]
  /\ told \in [Clients -> [Windows -> Handle \cup {None}]]
  /\ seen \in [Clients -> [Windows -> SUBSET Spaces]]
  /\ missed \in [Clients -> [Windows -> SUBSET (Screens \cup Spaces)]]
  /\ dirty \in BOOLEAN /\ lastDirty \in BOOLEAN

\* A window that is not listed is announced nowhere, nobody has a handle of
\* it, and it alone is not in the foreign list.
Unlisted ==
  \A w \in Windows :
    /\ foreign[w] = None <=> state[w] = "none"
    /\ state[w] = "none" => /\ outputs[w] = {} /\ workspaces[w] = {}
                            /\ \A c \in Clients : told[c][w] = None

\* What handle h remembers, of a client with wl_outputs wl and workspace
\* handles sp that was told of the workspaces sn: what it entered is alive or
\* it is stale, and what it did not enter was missed.
Remembers(h, wl, sp, sn, ms) ==
  /\ h.bound \subseteq h.outputs
  /\ h.stale \/ h.bound \subseteq wl
  /\ (wl \cap h.outputs) \ h.bound \subseteq ms
  /\ sn \subseteq sp \cap h.workspaces
  /\ (sp \cap h.workspaces) \ sn \subseteq ms

HandlesRemember ==
  \A c \in Clients, w \in Windows :
    IF told[c][w] = None THEN seen[c][w] = {} /\ missed[c][w] = {}
    ELSE Remembers(told[c][w], wlOutputs[c], spaceHandles[c], seen[c][w],
                   missed[c][w])

\* A `done` is owed only to clients that have bound, and a refresh to come
\* finds that there is one to send.
DoneIsOwed ==
  /\ \A c \in undone : info[c] # "none"
  /\ undone \cap Instances # {} => dirty \/ lastDirty

InfoInv == InfoTypes /\ Unlisted /\ HandlesRemember /\ DoneIsOwed

-----------------------------------------------------------------------------
(* What is sent.                                                            *)

LEMMA BlankHandle == Blank \in Handle
BY DEF Blank, Handle

\* What a handle remembers after it was sent the difference is a handle.
LEMMA SentHandle ==
  ASSUME InfoTypes, NEW c \in Clients, NEW w \in Windows,
         NEW held \in BOOLEAN, NEW h \in Handle
  PROVE  Sent(h, c, w, held) \in Handle
<1>1. /\ title[w] \in Titles /\ geometry[w] \in Geometries
      /\ outputs[w] \in SUBSET Screens /\ workspaces[w] \in SUBSET Spaces
      /\ wlOutputs[c] \in SUBSET Screens
  BY DEF InfoTypes
<1>2. NewGeometry(h, w, held) \in Geometries \cup {None}
  BY <1>1 DEF NewGeometry, Handle
<1>3. ResendOutputs(h, w, held) \in BOOLEAN
  BY DEF ResendOutputs
<1>4. outputs[w] \cap wlOutputs[c] \in SUBSET Screens
  BY <1>1
<1> QED BY <1>1, <1>2, <1>3, <1>4 DEF Sent, Handle

\* The handle a client has of a window, or is given, is None or a handle that
\* remembers.
LEMMA HandleOfRemembers ==
  ASSUME InfoConstants, InfoTypes, HandlesRemember,
         NEW c \in Clients, NEW w \in Windows, HandleOf(c, w) # None
  PROVE  /\ HandleOf(c, w) \in Handle
         /\ Remembers(HandleOf(c, w), wlOutputs[c], spaceHandles[c],
                      seen[c][w], missed[c][w])
<1>1. told[c][w] \in Handle \cup {None}
  BY DEF InfoTypes
<1>2. CASE told[c][w] = None
  <2>1. HandleOf(c, w) = Blank /\ seen[c][w] = {} /\ missed[c][w] = {}
    BY <1>2 DEF HandleOf, HandlesRemember
  <2>2. Remembers(Blank, wlOutputs[c], spaceHandles[c], {}, {})
    BY DEF Remembers, Blank
  <2> QED BY <2>1, <2>2, BlankHandle
<1>3. CASE told[c][w] # None
  BY <1>1, <1>3 DEF HandleOf, HandlesRemember
<1> QED BY <1>2, <1>3

-----------------------------------------------------------------------------
(* Send, for a client and a window.                                         *)

\* A window that is gone is forgotten.
LEMMA SendForgets ==
  ASSUME NEW cs, NEW ws, NEW gone, NEW held, Send(cs, ws, gone, held),
         NEW w \in Windows, w \in gone
  PROVE  /\ foreign'[w] = None /\ outputs'[w] = {} /\ workspaces'[w] = {}
         /\ \A c \in Clients : /\ told'[c][w] = None
                               /\ seen'[c][w] = {} /\ missed'[c][w] = {}
BY DEF Send

\* The others stay where they are, and in the foreign list.
LEMMA SendKeepsLists ==
  ASSUME NEW cs, NEW ws, NEW gone, NEW held, Send(cs, ws, gone, held),
         NEW w \in Windows, w \notin gone
  PROVE  outputs'[w] = outputs[w] /\ workspaces'[w] = workspaces[w]
BY DEF Send

\* A refresh keeps which remaining windows have a foreign handle.
LEMMA SendKeepsForeign ==
  ASSUME InfoConstants, InfoTypes, NEW cs, NEW ws, NEW gone, NEW held,
         Send(cs, ws, gone, held), NEW w \in Windows, w \notin gone
  PROVE  /\ foreign'[w] = None <=> foreign[w] = None
         /\ foreign'[w] \in {title[w], foreign[w]}
<1>1. title[w] \in Titles /\ None \notin Titles
  BY DEF InfoTypes, InfoConstants
<1>2. foreign'[w] = IF /\ foreign[w] # None
                       /\ \E c \in cs : /\ IsTold(c, w, cs, ws)
                                        /\ HandleOf(c, w).title # title[w]
                    THEN title[w] ELSE foreign[w]
  BY Zenon DEF Send
<1> QED BY <1>1, <1>2

\* Who is not told keeps what it has.
LEMMA SendSkips ==
  ASSUME NEW cs, NEW ws, NEW gone, NEW held, Send(cs, ws, gone, held),
         NEW c \in Clients, NEW w \in Windows, w \notin gone,
         ~IsTold(c, w, cs, ws)
  PROVE  /\ told'[c][w] = told[c][w] /\ seen'[c][w] = seen[c][w]
         /\ missed'[c][w] = missed[c][w]
BY DEF Send

\* Who is told has a handle that remembers what is.
LEMMA SendTells ==
  ASSUME InfoConstants, InfoTypes, HandlesRemember,
         NEW cs, NEW ws, NEW gone,
         NEW held \in BOOLEAN, Send(cs, ws, gone, held),
         NEW c \in Clients, NEW w \in Windows, w \notin gone,
         IsTold(c, w, cs, ws)
  PROVE  /\ HandleOf(c, w) \in Handle
         /\ told'[c][w] = Sent(HandleOf(c, w), c, w, held)
         /\ told'[c][w] \in Handle
         /\ seen'[c][w] \in SUBSET Spaces
         /\ missed'[c][w] \in SUBSET (Screens \cup Spaces)
         /\ Remembers(told'[c][w], wlOutputs[c], spaceHandles[c],
                      seen'[c][w], missed'[c][w])
         /\ told'[c][w].bound \subseteq wlOutputs[c] \cap outputs[w]
         /\ told'[c][w].outputs = outputs[w]
         /\ told'[c][w].workspaces = workspaces[w]
<1> DEFINE h == HandleOf(c, w)
<1>1. told'[c][w] = Sent(h, c, w, held)
  BY Zenon DEF Send
<1>2. seen'[c][w] = (seen[c][w] \cap workspaces[w]) \cup
                    ((workspaces[w] \ h.workspaces) \cap spaceHandles[c])
  BY Zenon DEF Send
<1>3. missed'[c][w] = (missed[c][w] \cap (outputs[w] \cup workspaces[w]))
                  \ IF ResendOutputs(h, w, held) THEN Screens ELSE {}
  BY Zenon DEF Send
<1>4. h # None
  BY DEF IsTold
<1>5. h \in Handle /\ Remembers(h, wlOutputs[c], spaceHandles[c], seen[c][w],
                                missed[c][w])
  BY <1>4, HandleOfRemembers
<1>6. Sent(h, c, w, held) \in Handle
  BY <1>5, SentHandle
<1>7. /\ seen[c][w] \in SUBSET Spaces /\ workspaces[w] \in SUBSET Spaces
      /\ missed[c][w] \in SUBSET (Screens \cup Spaces)
  BY DEF InfoTypes
<1>8. /\ seen'[c][w] \in SUBSET Spaces
      /\ missed'[c][w] \in SUBSET (Screens \cup Spaces)
  BY <1>2, <1>3, <1>7
<1>9. /\ Remembers(Sent(h, c, w, held), wlOutputs[c], spaceHandles[c],
                   seen'[c][w], missed'[c][w])
      /\ Sent(h, c, w, held).bound \subseteq wlOutputs[c] \cap outputs[w]
      /\ Sent(h, c, w, held).outputs = outputs[w]
      /\ Sent(h, c, w, held).workspaces = workspaces[w]
  <2> HIDE DEF h
  <2> DEFINE s == Sent(h, c, w, held)
             again == ResendOutputs(h, w, held)
             sn == seen[c][w]
             ms == missed[c][w]
             sn2 == seen'[c][w]
             ms2 == missed'[c][w]
  <2>0. /\ sn \in SUBSET Spaces /\ ms \in SUBSET (Screens \cup Spaces)
        /\ Remembers(h, wlOutputs[c], spaceHandles[c], sn, ms)
        /\ sn2 = (sn \cap workspaces[w]) \cup
                 ((workspaces[w] \ h.workspaces) \cap spaceHandles[c])
        /\ ms2 = (ms \cap (outputs[w] \cup workspaces[w]))
                   \ IF again THEN Screens ELSE {}
    BY <1>2, <1>3, <1>5, <1>7
  <2> HIDE DEF sn, ms, sn2, ms2
  <2>1. /\ outputs[w] \in SUBSET Screens /\ workspaces[w] \in SUBSET Spaces
        /\ wlOutputs[c] \in SUBSET Screens /\ spaceHandles[c] \in SUBSET Spaces
    BY DEF InfoTypes
  <2>2. /\ s.outputs = IF again THEN outputs[w] ELSE h.outputs
        /\ s.bound = IF again THEN outputs[w] \cap wlOutputs[c] ELSE h.bound
        /\ s.stale = (h.stale /\ ~again)
        /\ s.workspaces = workspaces[w]
    BY DEF Sent
  <2>3. ~again => outputs[w] = h.outputs /\ ~h.stale
    BY DEF ResendOutputs
  <2>4. /\ h.bound \subseteq h.outputs
        /\ h.stale \/ h.bound \subseteq wlOutputs[c]
        /\ (wlOutputs[c] \cap h.outputs) \ h.bound \subseteq ms
        /\ sn \subseteq spaceHandles[c] \cap h.workspaces
        /\ (spaceHandles[c] \cap h.workspaces) \ sn \subseteq ms
    BY <2>0 DEF Remembers
  <2>5. /\ sn2 \subseteq spaceHandles[c] \cap s.workspaces
        /\ (spaceHandles[c] \cap s.workspaces) \ sn2 \subseteq ms2
    <3>1. sn2 \subseteq spaceHandles[c] \cap workspaces[w]
      BY <2>0, <2>4
    <3>2. ASSUME NEW x \in (spaceHandles[c] \cap workspaces[w]) \ sn2
          PROVE  x \in ms2
      <4>1. x \in h.workspaces /\ x \notin sn
        BY <2>0
      <4>2. x \in ms /\ x \in Spaces
        BY <2>1, <2>4, <4>1
      <4>3. x \notin Screens
        BY <4>2 DEF InfoConstants
      <4> QED BY <2>0, <4>2, <4>3
    <3> QED BY <2>2, <3>1, <3>2
  <2>6. /\ s.outputs = outputs[w] /\ s.bound \subseteq outputs[w]
        /\ s.bound \subseteq wlOutputs[c]
        /\ (wlOutputs[c] \cap outputs[w]) \ s.bound \subseteq ms2
    <3>1. CASE again
      BY <2>2, <2>0, <3>1
    <3>2. CASE ~again
      <4>1. /\ s.outputs = outputs[w] /\ s.bound = h.bound
            /\ h.outputs = outputs[w] /\ ~h.stale
        BY <2>2, <2>3, <3>2
      <4>2. ms2 = ms \cap (outputs[w] \cup workspaces[w])
        BY <2>0, <3>2
      <4> QED BY <2>4, <4>1, <4>2
    <3> QED BY <3>1, <3>2
  <2>7. Remembers(s, wlOutputs[c], spaceHandles[c], sn2, ms2)
    BY <2>5, <2>6 DEF Remembers
  <2>8. s.workspaces = workspaces[w]
    BY <2>2
  <2> HIDE DEF s
  <2> QED BY <2>6, <2>7, <2>8 DEF s, sn2, ms2
<1> QED BY <1>1, <1>5, <1>6, <1>8, <1>9 DEF h

\* What Send leaves alone, with wl_outputs and handles of workspaces.
SendTypes ==
  /\ outputs \in [Windows -> SUBSET Screens]
  /\ workspaces \in [Windows -> SUBSET Spaces]
  /\ foreign \in [Windows -> Titles \cup {None}]
  /\ told \in [Clients -> [Windows -> Handle \cup {None}]]
  /\ seen \in [Clients -> [Windows -> SUBSET Spaces]]
  /\ missed \in [Clients -> [Windows -> SUBSET (Screens \cup Spaces)]]

\* A refresh keeps the types.
LEMMA SendKeepsTypes ==
  ASSUME InfoConstants, InfoTypes, HandlesRemember,
         NEW cs, NEW ws, NEW gone,
         NEW held \in BOOLEAN, Send(cs, ws, gone, held)
  PROVE  SendTypes'
<1>1. ASSUME NEW w \in Windows
      PROVE  /\ outputs'[w] \in SUBSET Screens
             /\ workspaces'[w] \in SUBSET Spaces
             /\ foreign'[w] \in Titles \cup {None}
  <2>1. /\ outputs[w] \in SUBSET Screens /\ workspaces[w] \in SUBSET Spaces
        /\ foreign[w] \in Titles \cup {None} /\ title[w] \in Titles
    BY DEF InfoTypes
  <2>2. CASE w \in gone
    BY <2>2, SendForgets
  <2>3. CASE w \notin gone
    BY <2>1, <2>3, SendKeepsLists, SendKeepsForeign
  <2> QED BY <2>2, <2>3
<1>2. ASSUME NEW c \in Clients, NEW w \in Windows
      PROVE  /\ told'[c][w] \in Handle \cup {None}
             /\ seen'[c][w] \in SUBSET Spaces
             /\ missed'[c][w] \in SUBSET (Screens \cup Spaces)
  <2>1. /\ told[c][w] \in Handle \cup {None} /\ seen[c][w] \in SUBSET Spaces
        /\ missed[c][w] \in SUBSET (Screens \cup Spaces)
    BY DEF InfoTypes
  <2>2. CASE w \in gone
    BY <2>2, SendForgets
  <2>3. CASE w \notin gone /\ ~IsTold(c, w, cs, ws)
    BY <2>1, <2>3, SendSkips
  <2>4. CASE w \notin gone /\ IsTold(c, w, cs, ws)
    <3>1. /\ told'[c][w] \in Handle /\ seen'[c][w] \in SUBSET Spaces
          /\ missed'[c][w] \in SUBSET (Screens \cup Spaces)
      BY <2>4, SendTells
    <3> QED BY <3>1
  <2> QED BY <2>2, <2>3, <2>4
<1>3. outputs' \in [Windows -> SUBSET Screens]
  <2>1. outputs' = [w \in Windows |-> outputs'[w]]
    BY Zenon DEF Send
  <2> QED BY <1>1, <2>1
<1>4. workspaces' \in [Windows -> SUBSET Spaces]
  <2>1. workspaces' = [w \in Windows |-> workspaces'[w]]
    BY Zenon DEF Send
  <2> QED BY <1>1, <2>1
<1>5. foreign' \in [Windows -> Titles \cup {None}]
  <2>1. foreign' = [w \in Windows |-> foreign'[w]]
    BY Zenon DEF Send
  <2> QED BY <1>1, <2>1
<1>6. told' \in [Clients -> [Windows -> Handle \cup {None}]]
  <2>1. told' = [c \in Clients |-> [w \in Windows |-> told'[c][w]]]
    BY Zenon DEF Send
  <2> QED BY <1>2, <2>1
<1>7. seen' \in [Clients -> [Windows -> SUBSET Spaces]]
  <2>1. seen' = [c \in Clients |-> [w \in Windows |-> seen'[c][w]]]
    BY Zenon DEF Send
  <2> QED BY <1>2, <2>1
<1>8. missed' \in [Clients -> [Windows -> SUBSET (Screens \cup Spaces)]]
  <2>1. missed' = [c \in Clients |-> [w \in Windows |-> missed'[c][w]]]
    BY Zenon DEF Send
  <2> QED BY <1>2, <2>1
<1> QED BY <1>3, <1>4, <1>5, <1>6, <1>7, <1>8 DEF SendTypes

\* A refresh keeps what the handles remember.
LEMMA SendKeepsHandles ==
  ASSUME InfoConstants, InfoTypes, HandlesRemember,
         NEW cs, NEW ws, NEW gone,
         NEW held \in BOOLEAN, Send(cs, ws, gone, held),
         UNCHANGED <<wlOutputs, spaceHandles>>
  PROVE  HandlesRemember'
<1> SUFFICES ASSUME NEW c \in Clients, NEW w \in Windows
             PROVE  IF told'[c][w] = None
                      THEN seen'[c][w] = {} /\ missed'[c][w] = {}
                    ELSE Remembers(told'[c][w], wlOutputs[c], spaceHandles[c],
                                   seen'[c][w], missed'[c][w])
  BY DEF HandlesRemember
<1>1. CASE w \in gone
  BY <1>1, SendForgets
<1>2. CASE w \notin gone /\ ~IsTold(c, w, cs, ws)
  <2>1. IF told[c][w] = None THEN seen[c][w] = {} /\ missed[c][w] = {}
        ELSE Remembers(told[c][w], wlOutputs[c], spaceHandles[c], seen[c][w],
                       missed[c][w])
    BY DEF HandlesRemember
  <2>2. /\ told'[c][w] = told[c][w] /\ seen'[c][w] = seen[c][w]
        /\ missed'[c][w] = missed[c][w]
    BY <1>2, SendSkips
  <2> QED BY <2>1, <2>2, Zenon
<1>3. CASE w \notin gone /\ IsTold(c, w, cs, ws)
  <2>1. /\ told'[c][w] \in Handle
        /\ Remembers(told'[c][w], wlOutputs[c], spaceHandles[c],
                     seen'[c][w], missed'[c][w])
    BY <1>3, SendTells
  <2>2. told'[c][w] # None
    BY <2>1 DEF InfoConstants
  <2> QED BY <2>1, <2>2
<1> QED BY <1>1, <1>2, <1>3

-----------------------------------------------------------------------------
(* The invariant.                                                           *)

LEMMA InfoInvInit == InfoConstants /\ InfoInit => InfoInv
<1> SUFFICES ASSUME InfoConstants, InfoInit
             PROVE  InfoInv
  OBVIOUS
<1>1. InfoTypes
  BY DEF InfoInit, InfoTypes
<1>2. Unlisted
  BY DEF InfoInit, Unlisted
<1>3. HandlesRemember
  BY DEF InfoInit, HandlesRemember
<1>4. DoneIsOwed
  BY DEF InfoInit, DoneIsOwed
<1> QED BY <1>1, <1>2, <1>3, <1>4 DEF InfoInv

\* new_toplevel: the window was announced nowhere, so that nothing is missed.
LEMMA NewToplevelKeeps ==
  ASSUME InfoConstants, InfoInv, NEW w \in Windows, NEW o \in Screens,
         NEW s \in Spaces, NewToplevel(w, o, s)
  PROVE  InfoInv'
<1> USE DEF InfoInv
<1> DEFINE new == [c \in Clients |-> Sent(Blank, c, w, FALSE)]
<1>1. /\ outputs[w] = {} /\ workspaces[w] = {} /\ state[w] = "none"
      /\ \A c \in Clients : told[c][w] = None
  BY DEF NewToplevel, Unlisted
<1>2. \A c \in Clients : new[c] \in Handle
  BY BlankHandle, SentHandle
<1>3. /\ told' = [c \in Clients |-> IF c \in Instances \cap legacy
                                    THEN [told[c] EXCEPT ![w] = new[c]]
                                    ELSE told[c]]
  BY Zenon DEF NewToplevel
<1> HIDE DEF new
<1>4. told' \in [Clients -> [Windows -> Handle \cup {None}]]
  BY <1>2, <1>3 DEF InfoTypes
<1>5. InfoTypes'
  <2>1. state' \in [Windows -> {"none", "open", "dead"}]
    <3>1. state' = [state EXCEPT ![w] = "open"]
      BY Zenon DEF NewToplevel
    <3>2. state \in [Windows -> {"none", "open", "dead"}]
      BY DEF InfoTypes
    <3> QED BY <3>1, <3>2
  <2>2. foreign' \in [Windows -> Titles \cup {None}]
    BY DEF InfoTypes, NewToplevel
  <2>3. outputs' \in [Windows -> SUBSET Screens]
    BY DEF InfoTypes, NewToplevel
  <2>4. workspaces' \in [Windows -> SUBSET Spaces]
    BY DEF InfoTypes, NewToplevel
  <2>5. dirty' = TRUE /\ UNCHANGED <<title, geometry, legacy, info, wlOutputs,
                                    spaceHandles, seen, missed, lastDirty>>
    BY DEF NewToplevel, clientVars
  <2> QED BY <1>4, <2>1, <2>2, <2>3, <2>4, <2>5 DEF InfoTypes
<1>6. Unlisted'
  <2> SUFFICES ASSUME NEW u \in Windows
               PROVE  /\ foreign'[u] = None <=> state'[u] = "none"
                      /\ state'[u] = "none" =>
                           /\ outputs'[u] = {} /\ workspaces'[u] = {}
                           /\ \A c \in Clients : told'[c][u] = None
    BY DEF Unlisted
  <2>1. CASE u = w
    <3>1. foreign'[w] = title[w] /\ state'[w] = "open" /\ title[w] \in Titles
      BY DEF NewToplevel, InfoTypes
    <3> QED BY <2>1, <3>1 DEF InfoConstants
  <2>2. CASE u # w
    <3>1. /\ foreign'[u] = foreign[u] /\ state'[u] = state[u]
          /\ outputs'[u] = outputs[u] /\ workspaces'[u] = workspaces[u]
      BY <2>2 DEF NewToplevel, InfoTypes
    <3>2. \A c \in Clients : told'[c][u] = told[c][u]
      BY <1>3, <2>2 DEF InfoTypes
    <3> QED BY <3>1, <3>2 DEF Unlisted
  <2> QED BY <2>1, <2>2
<1>7. HandlesRemember'
  <2> SUFFICES ASSUME NEW c \in Clients, NEW u \in Windows
               PROVE  IF told'[c][u] = None
                        THEN seen[c][u] = {} /\ missed[c][u] = {}
                      ELSE Remembers(told'[c][u], wlOutputs[c],
                                     spaceHandles[c], seen[c][u], missed[c][u])
    BY DEF HandlesRemember, NewToplevel, clientVars
  <2>1. IF told[c][u] = None THEN seen[c][u] = {} /\ missed[c][u] = {}
        ELSE Remembers(told[c][u], wlOutputs[c], spaceHandles[c], seen[c][u],
                       missed[c][u])
    BY DEF HandlesRemember
  <2>2. CASE u = w /\ c \in Instances \cap legacy
    <3>1. told'[c][u] = new[c] /\ seen[c][u] = {} /\ missed[c][u] = {}
      BY <1>1, <1>3, <2>1, <2>2 DEF InfoTypes
    <3>2. /\ new[c].outputs = {} /\ new[c].bound = {}
          /\ new[c].workspaces = {}
      BY <1>1 DEF new, Sent, Blank
    <3>3. Remembers(new[c], wlOutputs[c], spaceHandles[c], {}, {})
      BY <3>2 DEF Remembers
    <3>4. new[c] # None
      BY <1>2 DEF InfoConstants
    <3> QED BY <3>1, <3>3, <3>4
  <2>3. CASE ~(u = w /\ c \in Instances \cap legacy)
    <3>1. told'[c][u] = told[c][u]
      BY <1>3, <2>3 DEF InfoTypes
    <3> QED BY <2>1, <3>1
  <2> QED BY <2>2, <2>3
<1>8. DoneIsOwed'
  BY DEF DoneIsOwed, NewToplevel, Instances, clientVars
<1> QED BY <1>5, <1>6, <1>7, <1>8

\* Announce, Change and Die: what clients were told is not touched.
LEMMA ShellKeeps ==
  ASSUME InfoConstants, InfoInv, NEW w \in Windows,
         \/ \E os \in AtMostOne(Screens), ss \in AtMostOne(Spaces) :
              Announce(w, os, ss)
         \/ \E t \in Titles, g \in Geometries : Change(w, t, g)
         \/ Die(w)
  PROVE  InfoInv'
<1> USE DEF InfoInv
<1>1. /\ UNCHANGED <<foreign, clientVars, told, seen, missed, dirty, lastDirty,
                     undone>>
      /\ InfoTypes'
  <2>1. CASE \E os \in AtMostOne(Screens), ss \in AtMostOne(Spaces) :
               Announce(w, os, ss)
    BY <2>1 DEF Announce, AtMostOne, InfoTypes, clientVars
  <2>2. CASE \E t \in Titles, g \in Geometries : Change(w, t, g)
    BY <2>2 DEF Change, InfoTypes, clientVars
  <2>3. CASE Die(w)
    BY <2>3 DEF Die, InfoTypes, clientVars, windowVars
  <2> QED BY <2>1, <2>2, <2>3
<1>2. HandlesRemember' /\ DoneIsOwed'
  BY <1>1 DEF HandlesRemember, DoneIsOwed, clientVars, Instances
<1>3. ASSUME NEW u \in Windows
      PROVE  /\ state'[u] = "none" <=> state[u] = "none"
             /\ state[u] = "none" => /\ outputs'[u] = outputs[u]
                                     /\ workspaces'[u] = workspaces[u]
  <2>1. CASE \E os \in AtMostOne(Screens), ss \in AtMostOne(Spaces) :
               Announce(w, os, ss)
    BY <2>1 DEF Announce, Toplevels, InfoTypes
  <2>2. CASE \E t \in Titles, g \in Geometries : Change(w, t, g)
    BY <2>2 DEF Change, InfoTypes
  <2>3. CASE Die(w)
    BY <2>3 DEF Die, InfoTypes, windowVars
  <2> QED BY <2>1, <2>2, <2>3
<1>4. Unlisted'
  BY <1>1, <1>3 DEF Unlisted
<1> QED BY <1>1, <1>2, <1>4

\* What a step with a Send leaves to show: which windows are listed after it.
LEMMA SendKeeps ==
  ASSUME InfoConstants, InfoInv, NEW cs, NEW ws, NEW gone,
         NEW held \in BOOLEAN, Send(cs, ws, gone, held),
         state' \in [Windows -> {"none", "open", "dead"}],
         \A w \in Windows : state'[w] = "none" <=>
                              w \in gone \/ state[w] = "none",
         \A c \in cs, w \in ws : state[w] # "none",
         info' \in [Clients -> {"none", "bound", "stopped"}],
         dirty' \in BOOLEAN, lastDirty' \in BOOLEAN,
         UNCHANGED <<title, geometry, legacy, wlOutputs, spaceHandles>>
  PROVE  InfoTypes' /\ Unlisted' /\ HandlesRemember'
<1> USE DEF InfoInv
<1>1. InfoTypes'
  <2>1. SendTypes'
    BY SendKeepsTypes
  <2> QED BY <2>1 DEF SendTypes, InfoTypes
<1>2. HandlesRemember'
  BY SendKeepsHandles
<1>3. Unlisted'
  <2> SUFFICES ASSUME NEW w \in Windows
               PROVE  /\ foreign'[w] = None <=> state'[w] = "none"
                      /\ state'[w] = "none" =>
                           /\ outputs'[w] = {} /\ workspaces'[w] = {}
                           /\ \A c \in Clients : told'[c][w] = None
    BY DEF Unlisted
  <2>1. CASE w \in gone
    BY <2>1, SendForgets
  <2>2. CASE w \notin gone
    <3>1. /\ outputs'[w] = outputs[w] /\ workspaces'[w] = workspaces[w]
          /\ foreign'[w] = None <=> foreign[w] = None
          /\ state'[w] = "none" <=> state[w] = "none"
      BY <2>2, SendKeepsLists, SendKeepsForeign
    <3>2. ASSUME state[w] = "none", NEW c \in Clients
          PROVE  told'[c][w] = told[c][w]
      <4>1. ~IsTold(c, w, cs, ws)
        BY <3>2 DEF IsTold
      <4> QED BY <2>2, <4>1, SendSkips
    <3> QED BY <3>1, <3>2 DEF Unlisted
  <2> QED BY <2>1, <2>2
<1> QED BY <1>1, <1>2, <1>3

\* A window that goes away keeps the invariant.
LEMMA RemoveToplevelKeeps ==
  ASSUME InfoConstants, InfoInv, NEW w \in Windows, RemoveToplevel(w)
  PROVE  InfoInv'
<1>1. Send({}, {}, {w}, FALSE)
  BY Zenon DEF RemoveToplevel
<1>2. /\ state' = [state EXCEPT ![w] = "none"] /\ dirty' = TRUE
      /\ UNCHANGED <<title, geometry, legacy, info, wlOutputs, spaceHandles,
                     lastDirty, undone>>
  BY DEF RemoveToplevel, clientVars
<1>3. InfoTypes
  BY DEF InfoInv
<1>4. /\ state' \in [Windows -> {"none", "open", "dead"}]
      /\ \A u \in Windows : state'[u] = "none" <=>
                              u \in {w} \/ state[u] = "none"
  BY <1>2, <1>3 DEF InfoTypes
<1>5. /\ info' \in [Clients -> {"none", "bound", "stopped"}]
      /\ dirty' \in BOOLEAN /\ lastDirty' \in BOOLEAN
      /\ \A c \in {}, u \in {} : state[u] # "none"
  BY <1>2, <1>3 DEF InfoTypes
<1>6. InfoTypes' /\ Unlisted' /\ HandlesRemember'
  <2>1. PICK cs, ws, gone, held :
          /\ cs = {} /\ ws = {} /\ gone = {w} /\ held = FALSE
    OBVIOUS
  <2>2. /\ Send(cs, ws, gone, held) /\ held \in BOOLEAN
        /\ \A x \in Windows : state'[x] = "none" <=>
                                x \in gone \/ state[x] = "none"
        /\ \A y \in cs, x \in ws : state[x] # "none"
    BY <1>1, <1>4, <1>5, <2>1
  <2> QED BY <1>2, <1>4, <1>5, <2>2, SendKeeps
<1>7. DoneIsOwed'
  BY <1>2 DEF DoneIsOwed, InfoInv, Instances
<1> QED BY <1>6, <1>7 DEF InfoInv

\* refresh: the dead windows go, and a `done` is owed to whom was sent
\* anything, until a refresh that finds nothing.
LEMMA RefreshKeeps ==
  ASSUME InfoConstants, InfoInv, NEW held \in BOOLEAN, RefreshInfo(held)
  PROVE  InfoInv'
<1> DEFINE dead == {w \in Toplevels : state[w] = "dead"}
           open == Toplevels \ dead
           changed == Changes(Instances, open, held)
           anything == dirty \/ dead # {} \/ changed # {}
<1>1. Send(Instances, open, dead, held)
  BY Zenon DEF RefreshInfo
<1>2. /\ state' = [w \in Windows |-> IF w \in dead THEN "none" ELSE state[w]]
      /\ dirty' = FALSE /\ lastDirty' = anything
      /\ undone' = IF ~anything /\ lastDirty THEN undone \ Instances
                   ELSE undone \cup (changed \ legacy)
      /\ UNCHANGED <<title, geometry, legacy, info, wlOutputs, spaceHandles>>
  BY DEF RefreshInfo, clientVars
<1>3. InfoTypes
  BY DEF InfoInv
<1>4. /\ state' \in [Windows -> {"none", "open", "dead"}]
      /\ \A w \in Windows : state'[w] = "none" <=>
                              w \in dead \/ state[w] = "none"
  BY <1>2, <1>3 DEF InfoTypes, Toplevels
<1>5. /\ info' \in [Clients -> {"none", "bound", "stopped"}]
      /\ dirty' \in BOOLEAN /\ lastDirty' \in BOOLEAN
      /\ \A c \in Instances, w \in open : state[w] # "none"
  BY <1>2, <1>3 DEF InfoTypes, Toplevels
<1>6. changed \subseteq Instances /\ Instances' = Instances
  BY <1>2 DEF Changes, Instances
<1> HIDE DEF dead, open, changed
<1>7. InfoTypes' /\ Unlisted' /\ HandlesRemember'
  BY <1>1, <1>2, <1>4, <1>5, SendKeeps
<1>8. DoneIsOwed'
  <2>1. /\ \A c \in undone : info[c] # "none"
        /\ undone \cap Instances # {} => dirty \/ lastDirty
    BY DEF InfoInv, DoneIsOwed
  <2>2. \A c \in undone' : info'[c] # "none"
    BY <1>2, <1>6, <2>1 DEF Instances
  <2>3. undone' \cap Instances' # {} => lastDirty'
    BY <1>2, <1>6, <2>1
  <2> QED BY <2>2, <2>3 DEF DoneIsOwed
<1> QED BY <1>7, <1>8 DEF InfoInv

\* A client that binds the global keeps the invariant.
LEMMA BindInfoKeeps ==
  ASSUME InfoConstants, InfoInv, NEW c \in Clients, BindInfo(c)
  PROVE  InfoInv'
<1>1. Send({c}, Toplevels, {}, FALSE)
  BY Zenon DEF BindInfo
<1>2. /\ info[c] = "none" /\ info' = [info EXCEPT ![c] = "bound"]
      /\ UNCHANGED <<state, title, geometry, legacy, wlOutputs, spaceHandles,
                     dirty, lastDirty, undone>>
  BY DEF BindInfo
<1>3. InfoTypes
  BY DEF InfoInv
<1>4. /\ state' \in [Windows -> {"none", "open", "dead"}]
      /\ \A w \in Windows : state'[w] = "none" <=>
                              w \in {} \/ state[w] = "none"
  BY <1>2, <1>3 DEF InfoTypes
<1>5. /\ info' \in [Clients -> {"none", "bound", "stopped"}]
      /\ dirty' \in BOOLEAN /\ lastDirty' \in BOOLEAN
      /\ \A d \in {c}, w \in Toplevels : state[w] # "none"
  BY <1>2, <1>3 DEF InfoTypes, Toplevels
<1>6. InfoTypes' /\ Unlisted' /\ HandlesRemember'
  <2>1. PICK cs, ws, gone, held :
          /\ cs = {c} /\ ws = Toplevels /\ gone = {} /\ held = FALSE
    OBVIOUS
  <2>2. /\ Send(cs, ws, gone, held) /\ held \in BOOLEAN
        /\ \A x \in Windows : state'[x] = "none" <=>
                                x \in gone \/ state[x] = "none"
        /\ \A y \in cs, x \in ws : state[x] # "none"
    BY <1>1, <1>4, <1>5, <2>1
  <2> QED BY <1>2, <1>4, <1>5, <2>2, SendKeeps
<1>7. DoneIsOwed'
  BY <1>2, <1>3 DEF DoneIsOwed, InfoInv, InfoTypes, Instances
<1> QED BY <1>6, <1>7 DEF InfoInv

\* stop; get_cosmic_toplevel; a handle is destroyed.
LEMMA HandleKeeps ==
  ASSUME InfoConstants, InfoInv, NEW c \in Clients,
         \/ StopInfo(c)
         \/ \E w \in Windows : GetCosmicToplevel(c, w) \/ DestroyHandle(c, w)
  PROVE  InfoInv'
<1> USE DEF InfoInv
<1>1. CASE StopInfo(c)
  <2>1. InfoTypes'
    BY <1>1 DEF StopInfo, InfoTypes, windowVars
  <2>2. Unlisted' /\ HandlesRemember'
    BY <1>1 DEF StopInfo, Unlisted, HandlesRemember, windowVars
  <2>3. DoneIsOwed'
    BY <1>1 DEF StopInfo, DoneIsOwed, Instances, InfoTypes
  <2> QED BY <2>1, <2>2, <2>3
<1>2. ASSUME NEW w \in Windows, GetCosmicToplevel(c, w)
      PROVE  InfoInv'
  <2>1. /\ told[c][w] = None /\ state[w] # "none"
        /\ told' = [told EXCEPT ![c][w] = Blank]
        /\ UNCHANGED <<state, windowVars, foreign, clientVars, seen, missed,
                       dirty, lastDirty, undone>>
    BY <1>2 DEF GetCosmicToplevel, Toplevels
  <2>2. InfoTypes'
    BY <2>1, BlankHandle DEF InfoTypes, windowVars, clientVars
  <2>3. \A d \in Clients, u \in Windows :
          told'[d][u] = IF d = c /\ u = w THEN Blank ELSE told[d][u]
    BY <2>1 DEF InfoTypes
  <2>4. Unlisted'
    BY <2>1, <2>3 DEF Unlisted, windowVars
  <2>5. HandlesRemember'
    <3>1. seen[c][w] = {} /\ missed[c][w] = {}
      BY <2>1 DEF HandlesRemember
    <3>2. Blank # None /\ Remembers(Blank, wlOutputs[c], spaceHandles[c], {}, {})
      BY BlankHandle DEF Remembers, Blank, InfoConstants
    <3>3. UNCHANGED <<wlOutputs, spaceHandles, seen, missed>>
      BY <2>1 DEF clientVars
    <3> SUFFICES ASSUME NEW d \in Clients, NEW u \in Windows
                 PROVE  IF told'[d][u] = None
                          THEN seen[d][u] = {} /\ missed[d][u] = {}
                        ELSE Remembers(told'[d][u], wlOutputs[d],
                                       spaceHandles[d], seen[d][u],
                                       missed[d][u])
      BY <3>3 DEF HandlesRemember
    <3>4. CASE d = c /\ u = w
      BY <2>3, <3>1, <3>2, <3>4
    <3>5. CASE ~(d = c /\ u = w)
      BY <2>3, <3>5 DEF HandlesRemember
    <3> QED BY <3>4, <3>5
  <2>6. DoneIsOwed'
    BY <2>1 DEF DoneIsOwed, clientVars, Instances
  <2> QED BY <2>2, <2>4, <2>5, <2>6
<1>3. ASSUME NEW w \in Windows, DestroyHandle(c, w)
      PROVE  InfoInv'
  <2>1. /\ told' = [told EXCEPT ![c][w] = None]
        /\ seen' = [seen EXCEPT ![c][w] = {}]
        /\ missed' = [missed EXCEPT ![c][w] = {}]
        /\ UNCHANGED <<state, windowVars, foreign, clientVars, dirty,
                       lastDirty, undone>>
    BY <1>3 DEF DestroyHandle
  <2>2. InfoTypes'
    <3>1. told' \in [Clients -> [Windows -> Handle \cup {None}]]
      BY <2>1 DEF InfoTypes
    <3>2. seen' \in [Clients -> [Windows -> SUBSET Spaces]]
      BY <2>1 DEF InfoTypes
    <3>3. missed' \in [Clients -> [Windows -> SUBSET (Screens \cup Spaces)]]
      BY <2>1 DEF InfoTypes
    <3> QED BY <2>1, <3>1, <3>2, <3>3 DEF InfoTypes, windowVars, clientVars
  <2>3. \A d \in Clients, u \in Windows :
          /\ told'[d][u] = IF d = c /\ u = w THEN None ELSE told[d][u]
          /\ seen'[d][u] = IF d = c /\ u = w THEN {} ELSE seen[d][u]
          /\ missed'[d][u] = IF d = c /\ u = w THEN {} ELSE missed[d][u]
    BY <2>1 DEF InfoTypes
  <2>4. Unlisted'
    BY <2>1, <2>3 DEF Unlisted, windowVars
  <2>5. HandlesRemember'
    BY <2>1, <2>3 DEF HandlesRemember, clientVars
  <2>6. DoneIsOwed'
    BY <2>1 DEF DoneIsOwed, clientVars, Instances
  <2> QED BY <2>2, <2>4, <2>5, <2>6
<1> QED BY <1>1, <1>2, <1>3

\* A client gets an object of an output, and misses it on the windows whose
\* outputs it was told of already.
LEMMA BindOutputKeeps ==
  ASSUME InfoConstants, InfoInv, NEW c \in Clients, NEW o \in Screens,
         BindWlOutput(c, o)
  PROVE  InfoInv'
<1> USE DEF InfoInv
<1>1. /\ wlOutputs' = [wlOutputs EXCEPT ![c] = @ \cup {o}]
      /\ missed' = [missed EXCEPT ![c] = [w \in Windows |->
           IF told[c][w] # None /\ o \in told[c][w].outputs
           THEN @[w] \cup {o} ELSE @[w]]]
      /\ UNCHANGED <<state, title, geometry, outputs, workspaces, foreign,
                     legacy, info, spaceHandles, told, seen, dirty, lastDirty,
                     undone>>
  BY DEF BindWlOutput, windowVars
<1>2. /\ wlOutputs'[c] = wlOutputs[c] \cup {o}
      /\ \A d \in Clients : d # c => wlOutputs'[d] = wlOutputs[d]
      /\ \A d \in Clients, w \in Windows :
           missed'[d][w] = IF d = c /\ told[c][w] # None
                                    /\ o \in told[c][w].outputs
                           THEN missed[c][w] \cup {o} ELSE missed[d][w]
  BY <1>1 DEF InfoTypes
<1>3. InfoTypes'
  <2>1. wlOutputs' \in [Clients -> SUBSET Screens]
    BY <1>1 DEF InfoTypes
  <2>2. missed' \in [Clients -> [Windows -> SUBSET (Screens \cup Spaces)]]
    BY <1>1 DEF InfoTypes
  <2> QED BY <1>1, <2>1, <2>2 DEF InfoTypes
<1>4. Unlisted' /\ DoneIsOwed'
  BY <1>1 DEF Unlisted, DoneIsOwed, Instances
<1>5. ASSUME NEW d \in Clients, NEW w \in Windows
      PROVE  IF told[d][w] = None THEN seen[d][w] = {} /\ missed'[d][w] = {}
             ELSE Remembers(told[d][w], wlOutputs'[d], spaceHandles[d],
                            seen[d][w], missed'[d][w])
  <2>1. IF told[d][w] = None THEN seen[d][w] = {} /\ missed[d][w] = {}
        ELSE Remembers(told[d][w], wlOutputs[d], spaceHandles[d], seen[d][w],
                       missed[d][w])
    BY DEF HandlesRemember
  <2>2. CASE d # c \/ told[d][w] = None
    BY <1>2, <2>1, <2>2 DEF Remembers
  <2>3. CASE d = c /\ told[d][w] # None
    <3>1. /\ wlOutputs'[d] = wlOutputs[d] \cup {o}
          /\ missed[d][w] \subseteq missed'[d][w]
          /\ o \in told[d][w].outputs => o \in missed'[d][w]
      BY <1>2, <2>3
    <3> QED BY <2>1, <2>3, <3>1 DEF Remembers
  <2> QED BY <2>2, <2>3
<1>6. HandlesRemember'
  BY <1>1, <1>5 DEF HandlesRemember
<1> QED BY <1>3, <1>4, <1>6

\* It releases one: the handles that entered it are stale.
LEMMA ReleaseOutputKeeps ==
  ASSUME InfoConstants, InfoInv, NEW c \in Clients, NEW o \in Screens,
         ReleaseWlOutput(c, o)
  PROVE  InfoInv'
<1> USE DEF InfoInv
<1>1. /\ wlOutputs' = [wlOutputs EXCEPT ![c] = @ \ {o}]
      /\ told' = [told EXCEPT ![c] = [w \in Windows |->
           IF @[w] # None /\ o \in @[w].bound THEN [@[w] EXCEPT !.stale = TRUE]
           ELSE @[w]]]
      /\ missed' = [missed EXCEPT ![c] = [w \in Windows |-> @[w] \ {o}]]
      /\ UNCHANGED <<state, title, geometry, outputs, workspaces, foreign,
                     legacy, info, spaceHandles, seen, dirty, lastDirty,
                     undone>>
  BY DEF ReleaseWlOutput, windowVars
<1> DEFINE old(d, w) == told[d][w]
           hit(d, w) == d = c /\ old(d, w) # None /\ o \in old(d, w).bound
<1>2. /\ wlOutputs'[c] = wlOutputs[c] \ {o}
      /\ \A d \in Clients : d # c => wlOutputs'[d] = wlOutputs[d]
      /\ \A d \in Clients, w \in Windows :
           missed'[d][w] = IF d = c THEN missed[d][w] \ {o} ELSE missed[d][w]
  BY <1>1 DEF InfoTypes
<1>3. \A d \in Clients, w \in Windows :
        told'[d][w] = IF hit(d, w) THEN [old(d, w) EXCEPT !.stale = TRUE]
                      ELSE old(d, w)
  BY <1>1 DEF InfoTypes
<1>4. ASSUME NEW d \in Clients, NEW w \in Windows
      PROVE  /\ told'[d][w] \in Handle \cup {None}
             /\ told'[d][w] = None <=> told[d][w] = None
             /\ told[d][w] # None =>
                  /\ told'[d][w].bound = told[d][w].bound
                  /\ told'[d][w].outputs = told[d][w].outputs
                  /\ told'[d][w].workspaces = told[d][w].workspaces
                  /\ told'[d][w].stale =
                       (told[d][w].stale \/ (d = c /\ o \in told[d][w].bound))
  <2>1. old(d, w) \in Handle \cup {None}
    BY DEF InfoTypes
  <2>2. CASE hit(d, w)
    <3>1. old(d, w) \in Handle
      BY <2>1, <2>2
    <3>2. told'[d][w] = [old(d, w) EXCEPT !.stale = TRUE]
      BY <1>3, <2>2
    <3>3. told'[d][w] \in Handle
      BY <3>1, <3>2 DEF Handle
    <3>4. told'[d][w] # None
      BY <3>3 DEF InfoConstants
    <3> QED BY <2>2, <3>1, <3>2, <3>3, <3>4 DEF Handle
  <2>3. CASE ~hit(d, w)
    <3>1. told'[d][w] = told[d][w]
      BY <1>3, <2>3
    <3>2. told[d][w] # None => told[d][w].stale \in BOOLEAN
      BY <2>1 DEF Handle
    <3> QED BY <2>1, <2>3, <3>1, <3>2
  <2> QED BY <2>2, <2>3
<1>5. InfoTypes'
  <2>1. wlOutputs' \in [Clients -> SUBSET Screens]
    BY <1>1 DEF InfoTypes
  <2>2. missed' \in [Clients -> [Windows -> SUBSET (Screens \cup Spaces)]]
    BY <1>1 DEF InfoTypes
  <2>3. told' \in [Clients -> [Windows -> Handle \cup {None}]]
    <3>1. told' = [d \in Clients |-> [w \in Windows |-> told'[d][w]]]
      BY <1>1 DEF InfoTypes
    <3> QED BY <1>4, <3>1
  <2> QED BY <1>1, <2>1, <2>2, <2>3 DEF InfoTypes
<1>6. Unlisted' /\ DoneIsOwed'
  BY <1>1, <1>4 DEF Unlisted, DoneIsOwed, Instances
<1>7. ASSUME NEW d \in Clients, NEW w \in Windows
      PROVE  IF told'[d][w] = None THEN seen[d][w] = {} /\ missed'[d][w] = {}
             ELSE Remembers(told'[d][w], wlOutputs'[d], spaceHandles[d],
                            seen[d][w], missed'[d][w])
  <2>1. IF told[d][w] = None THEN seen[d][w] = {} /\ missed[d][w] = {}
        ELSE Remembers(told[d][w], wlOutputs[d], spaceHandles[d], seen[d][w],
                       missed[d][w])
    BY DEF HandlesRemember
  <2>2. CASE told[d][w] = None
    BY <1>2, <1>4, <2>1, <2>2
  <2>3. CASE told[d][w] # None
    <3>1. spaceHandles[d] \cap Screens = {}
      BY DEF InfoTypes, InfoConstants
    <3>2. CASE d = c
      <4>1. /\ wlOutputs'[d] = wlOutputs[d] \ {o}
            /\ missed'[d][w] = missed[d][w] \ {o}
        BY <1>2, <3>2
      <4>2. PICK h, n : h = told[d][w] /\ n = told'[d][w]
        OBVIOUS
      <4>3. /\ n # None /\ n.bound = h.bound /\ n.outputs = h.outputs
            /\ n.workspaces = h.workspaces
            /\ n.stale = (h.stale \/ o \in h.bound)
        BY <1>4, <2>3, <3>2, <4>2
      <4>4. Remembers(h, wlOutputs[d], spaceHandles[d], seen[d][w],
                      missed[d][w])
        BY <2>1, <2>3, <4>2
      <4>5. Remembers(n, wlOutputs[d] \ {o}, spaceHandles[d], seen[d][w],
                      missed[d][w] \ {o})
        BY <3>1, <4>3, <4>4 DEF Remembers
      <4> QED BY <4>1, <4>2, <4>3, <4>5
    <3>3. CASE d # c
      BY <1>2, <1>4, <2>1, <2>3, <3>3 DEF Remembers
    <3> QED BY <3>2, <3>3
  <2> QED BY <2>2, <2>3
<1>8. HandlesRemember'
  BY <1>1, <1>7 DEF HandlesRemember
<1> QED BY <1>5, <1>6, <1>8

\* A client that is given a workspace's handle keeps the invariant.
LEMMA GetSpaceHandleKeeps ==
  ASSUME InfoConstants, InfoInv, NEW c \in Clients, NEW s \in Spaces,
         GetSpaceHandle(c, s)
  PROVE  InfoInv'
<1> USE DEF InfoInv
<1>1. /\ spaceHandles' = [spaceHandles EXCEPT ![c] = @ \cup {s}]
      /\ missed' = [missed EXCEPT ![c] = [w \in Windows |->
           IF told[c][w] # None /\ s \in told[c][w].workspaces
           THEN @[w] \cup {s} ELSE @[w]]]
      /\ UNCHANGED <<state, title, geometry, outputs, workspaces, foreign,
                     legacy, info, wlOutputs, told, seen, dirty, lastDirty,
                     undone>>
  BY DEF GetSpaceHandle, windowVars
<1>2. /\ spaceHandles'[c] = spaceHandles[c] \cup {s}
      /\ \A d \in Clients : d # c => spaceHandles'[d] = spaceHandles[d]
      /\ \A d \in Clients, w \in Windows :
           missed'[d][w] = IF d = c /\ told[c][w] # None
                                    /\ s \in told[c][w].workspaces
                           THEN missed[c][w] \cup {s} ELSE missed[d][w]
  BY <1>1 DEF InfoTypes
<1>3. InfoTypes'
  <2>1. spaceHandles' \in [Clients -> SUBSET Spaces]
    BY <1>1 DEF InfoTypes
  <2>2. missed' \in [Clients -> [Windows -> SUBSET (Screens \cup Spaces)]]
    BY <1>1 DEF InfoTypes
  <2> QED BY <1>1, <2>1, <2>2 DEF InfoTypes
<1>4. Unlisted' /\ DoneIsOwed'
  BY <1>1 DEF Unlisted, DoneIsOwed, Instances
<1>5. ASSUME NEW d \in Clients, NEW w \in Windows
      PROVE  IF told[d][w] = None THEN seen[d][w] = {} /\ missed'[d][w] = {}
             ELSE Remembers(told[d][w], wlOutputs[d], spaceHandles'[d],
                            seen[d][w], missed'[d][w])
  <2>1. IF told[d][w] = None THEN seen[d][w] = {} /\ missed[d][w] = {}
        ELSE Remembers(told[d][w], wlOutputs[d], spaceHandles[d], seen[d][w],
                       missed[d][w])
    BY DEF HandlesRemember
  <2>2. CASE d # c \/ told[d][w] = None
    BY <1>2, <2>1, <2>2 DEF Remembers
  <2>3. CASE d = c /\ told[d][w] # None
    <3>1. /\ spaceHandles'[d] = spaceHandles[d] \cup {s}
          /\ missed[d][w] \subseteq missed'[d][w]
          /\ s \in told[d][w].workspaces => s \in missed'[d][w]
      BY <1>2, <2>3
    <3> QED BY <2>1, <2>3, <3>1 DEF Remembers
  <2> QED BY <2>2, <2>3
<1>6. HandlesRemember'
  BY <1>1, <1>5 DEF HandlesRemember
<1> QED BY <1>3, <1>4, <1>6

\* A client that loses a workspace's handle keeps the invariant.
LEMMA LoseSpaceHandleKeeps ==
  ASSUME InfoConstants, InfoInv, NEW c \in Clients, NEW s \in Spaces,
         LoseSpaceHandle(c, s)
  PROVE  InfoInv'
<1> USE DEF InfoInv
<1>1. /\ spaceHandles' = [spaceHandles EXCEPT ![c] = @ \ {s}]
      /\ seen' = [seen EXCEPT ![c] = [w \in Windows |-> @[w] \ {s}]]
      /\ missed' = [missed EXCEPT ![c] = [w \in Windows |-> @[w] \ {s}]]
      /\ UNCHANGED <<state, title, geometry, outputs, workspaces, foreign,
                     legacy, info, wlOutputs, told, dirty, lastDirty, undone>>
  BY DEF LoseSpaceHandle, windowVars
<1>2. /\ spaceHandles'[c] = spaceHandles[c] \ {s}
      /\ \A d \in Clients : d # c => spaceHandles'[d] = spaceHandles[d]
      /\ \A d \in Clients, w \in Windows :
           /\ seen'[d][w] = IF d = c THEN seen[d][w] \ {s} ELSE seen[d][w]
           /\ missed'[d][w] = IF d = c THEN missed[d][w] \ {s}
                              ELSE missed[d][w]
  BY <1>1 DEF InfoTypes
<1>3. InfoTypes'
  <2>1. spaceHandles' \in [Clients -> SUBSET Spaces]
    BY <1>1 DEF InfoTypes
  <2>2. seen' \in [Clients -> [Windows -> SUBSET Spaces]]
    BY <1>1 DEF InfoTypes
  <2>3. missed' \in [Clients -> [Windows -> SUBSET (Screens \cup Spaces)]]
    BY <1>1 DEF InfoTypes
  <2> QED BY <1>1, <2>1, <2>2, <2>3 DEF InfoTypes
<1>4. Unlisted' /\ DoneIsOwed'
  BY <1>1 DEF Unlisted, DoneIsOwed, Instances
<1>5. ASSUME NEW d \in Clients, NEW w \in Windows
      PROVE  IF told[d][w] = None THEN seen'[d][w] = {} /\ missed'[d][w] = {}
             ELSE Remembers(told[d][w], wlOutputs[d], spaceHandles'[d],
                            seen'[d][w], missed'[d][w])
  <2>1. IF told[d][w] = None THEN seen[d][w] = {} /\ missed[d][w] = {}
        ELSE Remembers(told[d][w], wlOutputs[d], spaceHandles[d], seen[d][w],
                       missed[d][w])
    BY DEF HandlesRemember
  <2>2. wlOutputs[d] \cap Spaces = {}
    BY DEF InfoTypes, InfoConstants
  <2>3. CASE d # c
    BY <1>2, <2>1, <2>3 DEF Remembers
  <2>4. CASE d = c /\ told[d][w] = None
    BY <1>2, <2>1, <2>4
  <2>5. CASE d = c /\ told[d][w] # None
    <3>1. /\ spaceHandles'[d] = spaceHandles[d] \ {s}
          /\ seen'[d][w] = seen[d][w] \ {s}
          /\ missed'[d][w] = missed[d][w] \ {s}
      BY <1>2, <2>5
    <3>2. Remembers(told[d][w], wlOutputs[d], spaceHandles[d], seen[d][w],
                    missed[d][w])
      BY <2>1, <2>5
    <3>3. s \notin wlOutputs[d]
      BY <2>2
    <3>4. Remembers(told[d][w], wlOutputs[d], spaceHandles[d] \ {s},
                    seen[d][w] \ {s}, missed[d][w] \ {s})
      BY <3>2, <3>3 DEF Remembers
    <3> QED BY <2>5, <3>1, <3>4
  <2> QED BY <2>3, <2>4, <2>5
<1>6. HandlesRemember'
  BY <1>1, <1>5 DEF HandlesRemember
<1> QED BY <1>3, <1>4, <1>6

\* Every step keeps the invariant.
LEMMA InfoInvNextStep ==
  ASSUME InfoConstants, InfoInv, [InfoNext]_infoVars
  PROVE  InfoInv'
<1>1. CASE UNCHANGED infoVars
  BY <1>1 DEF infoVars, InfoInv, InfoTypes, Unlisted, HandlesRemember,
              DoneIsOwed, Instances
<1>2. CASE \E held \in BOOLEAN : RefreshInfo(held)
  BY <1>2, RefreshKeeps
<1>3. CASE \E w \in Windows : Die(w) \/ RemoveToplevel(w)
  BY <1>3, ShellKeeps, RemoveToplevelKeeps
<1>4. CASE \E w \in Windows, o \in Screens, s \in Spaces : NewToplevel(w, o, s)
  BY <1>4, NewToplevelKeeps
<1>5. CASE \E w \in Windows, os \in AtMostOne(Screens),
              ss \in AtMostOne(Spaces) : Announce(w, os, ss)
  BY <1>5, ShellKeeps
<1>6. CASE \E w \in Windows, t \in Titles, g \in Geometries : Change(w, t, g)
  BY <1>6, ShellKeeps
<1>7. CASE \E c \in Clients : BindInfo(c) \/ StopInfo(c)
  BY <1>7, BindInfoKeeps, HandleKeeps
<1>8. CASE \E c \in Clients, w \in Windows :
             GetCosmicToplevel(c, w) \/ DestroyHandle(c, w)
  BY <1>8, HandleKeeps
<1>9. CASE \E c \in Clients, o \in Screens :
             BindWlOutput(c, o) \/ ReleaseWlOutput(c, o)
  BY <1>9, BindOutputKeeps, ReleaseOutputKeeps
<1>10. CASE \E c \in Clients, s \in Spaces :
              GetSpaceHandle(c, s) \/ LoseSpaceHandle(c, s)
  BY <1>10, GetSpaceHandleKeeps, LoseSpaceHandleKeeps
<1> QED BY <1>1, <1>2, <1>3, <1>4, <1>5, <1>6, <1>7, <1>8, <1>9, <1>10
        DEF InfoNext

-----------------------------------------------------------------------------
(* What clients are told.                                                   *)

\* After a refresh what a bound client's handle says of a window is right.
LEMMA RefreshTells ==
  ASSUME InfoConstants, InfoInv, NEW held \in BOOLEAN, RefreshInfo(held),
         NEW c \in Instances, NEW w \in Windows, told'[c][w] # None
  PROVE  Right(c, w, held)
<1> USE DEF InfoInv
<1> DEFINE dead == {u \in Toplevels : state[u] = "dead"}
           open == Toplevels \ dead
<1>1. Send(Instances, open, dead, held) /\ c \in Clients
  BY Zenon DEF RefreshInfo, Instances
<1> HIDE DEF dead, open
<1>2. w \notin dead
  BY <1>1, SendForgets
<1>3. IsTold(c, w, Instances, open)
  <2>1. CASE ~IsTold(c, w, Instances, open)
    <3>1. told[c][w] # None
      BY <1>1, <1>2, <2>1, SendSkips
    <3>2. w \in open
      BY <1>1, <1>2, <3>1 DEF open, Toplevels, Unlisted
    <3>3. HandleOf(c, w) # None
      BY <3>1 DEF HandleOf
    <3> QED BY <3>2, <3>3 DEF IsTold
  <2> QED BY <2>1
<1>4. PICK h : h = HandleOf(c, w)
  OBVIOUS
<1>5. PICK n : n = told'[c][w]
  OBVIOUS
<1>6. /\ n = Sent(h, c, w, held) /\ n \in Handle
      /\ Remembers(n, wlOutputs[c], spaceHandles[c], seen'[c][w],
                   missed'[c][w])
      /\ n.bound \subseteq wlOutputs[c] \cap outputs[w]
      /\ n.outputs = outputs[w] /\ n.workspaces = workspaces[w]
  BY <1>1, <1>2, <1>3, <1>4, <1>5, SendTells
<1>7. n.title = title[w] /\ (held \/ n.geometry = geometry[w])
  BY <1>6 DEF Sent, NewGeometry
<1>8. /\ (wlOutputs[c] \cap outputs[w]) \ n.bound \subseteq missed'[c][w]
      /\ seen'[c][w] \subseteq spaceHandles[c] \cap workspaces[w]
      /\ (spaceHandles[c] \cap workspaces[w]) \ seen'[c][w]
           \subseteq missed'[c][w]
  BY <1>6 DEF Remembers
<1> QED BY <1>5, <1>6, <1>7, <1>8 DEF Right

\* The windows in the foreign list are those that are open, and a title there
\* that is followed is right.
LEMMA RefreshLists ==
  ASSUME InfoConstants, InfoInv, NEW held \in BOOLEAN, RefreshInfo(held),
         NEW w \in Windows
  PROVE  /\ foreign'[w] # None <=> state[w] = "open"
         /\ Followed(w) => foreign'[w] = title[w]
<1> USE DEF InfoInv
<1> DEFINE dead == {u \in Toplevels : state[u] = "dead"}
           open == Toplevels \ dead
<1>1. Send(Instances, open, dead, held)
  BY Zenon DEF RefreshInfo
<1>2. /\ w \in dead <=> state[w] = "dead"
      /\ w \in open <=> state[w] = "open"
      /\ state[w] \in {"none", "open", "dead"} /\ title[w] \in Titles
  BY DEF Toplevels, InfoTypes
<1> HIDE DEF dead, open
<1>3. foreign'[w] # None <=> state[w] = "open"
  <2>1. CASE w \in dead
    BY <1>1, <1>2, <2>1, SendForgets
  <2>2. CASE w \notin dead
    BY <1>1, <1>2, <2>2, SendKeepsForeign DEF Unlisted
  <2> QED BY <2>1, <2>2
<1>4. ASSUME Followed(w)
      PROVE  foreign'[w] = title[w]
  <2>1. PICK c \in Instances : /\ HandleOf(c, w) # None
                           /\ HandleOf(c, w).title \in {None, foreign[w]}
    BY <1>4 DEF Followed
  <2>2. w \notin dead /\ w \in open /\ foreign[w] # None
    BY <1>2, <1>4 DEF Followed, Unlisted
  <2>3. IsTold(c, w, Instances, open)
    BY <2>1, <2>2 DEF IsTold
  <2>4. foreign'[w] = IF /\ foreign[w] # None
                         /\ \E d \in Instances :
                              /\ IsTold(d, w, Instances, open)
                              /\ HandleOf(d, w).title # title[w]
                      THEN title[w] ELSE foreign[w]
    BY <1>1, <2>2, Zenon DEF Send
  <2>5. CASE HandleOf(c, w).title = title[w]
    <3>1. foreign[w] = title[w]
      BY <1>2, <2>1, <2>5 DEF InfoConstants
    <3> QED BY <2>4, <3>1
  <2>6. CASE HandleOf(c, w).title # title[w]
    BY <2>2, <2>3, <2>4, <2>6
  <2> QED BY <2>5, <2>6
<1> QED BY <1>3, <1>4

(* The invariant of every behaviour: what handles remember is right between  *)
(* refreshes too, whatever objects a client got and threw away               *)
(* (send_toplevel_to_client and the requests around it).                     *)
THEOREM InfoInvariant == InfoSpec => []InfoInv
<1>1. InfoInit => InfoInv
  BY InfoInvInit, InfoAssumption
<1>2. InfoInv /\ [InfoNext]_infoVars => InfoInv'
  BY InfoInvNextStep, InfoAssumption
<1> QED BY <1>1, <1>2, PTL DEF InfoSpec

\* For any windows, clients, outputs and workspaces, every refresh leaves
\* the clients and the foreign list with what is so, and nobody waits for a
\* `done` when the last one had nothing to tell (ToplevelInfoState::refresh).
THEOREM ClientsAlwaysSeeTheWindows == InfoSpec => ClientsSeeTheWindows
<1>1. InfoInv /\ [InfoNext]_infoVars => [EveryRefreshTells]_infoVars
  BY RefreshTells, RefreshLists, InfoAssumption DEF EveryRefreshTells
<1>2. InfoInv => NobodyWaitsForDone
  BY DEF InfoInv, DoneIsOwed, NobodyWaitsForDone
<1> QED BY <1>1, <1>2, InfoInvariant, PTL DEF InfoSpec, ClientsSeeTheWindows
=============================================================================
