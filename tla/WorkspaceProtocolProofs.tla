------------------------ MODULE WorkspaceProtocolProofs ------------------------
(***************************************************************************)
(* A theorem about WorkspaceProtocol: for any clients, outputs, groups and *)
(* workspaces, and whatever the shell does in one update, a client has     *)
(* been told afterwards what is, and with a `done`.                        *)
(*                                                                         *)
(* Removing a workspace tells clients at once, and only marks nothing as   *)
(* changed: the `done` follows because some group has another number of    *)
(* workspaces then, or some workspace is new.  The invariant keeps, for an *)
(* update under way, where the workspaces were when it began; that a       *)
(* number must differ is a bijection put together from one for each group. *)
(***************************************************************************)
EXTENDS WorkspaceProtocol, FiniteSetTheorems, FunctionTheorems, TLAPS

ProtocolTypes ==
  /\ outputsOf \in [Groups -> (SUBSET Screens) \cup {None}]
  /\ home \in [Spaces -> Groups \cup {None}]
  /\ label \in [Spaces -> Labels \cup {None}]
  /\ tiling \in [Spaces -> Tilings \cup {None}]
  /\ updating \in Nat
  /\ manager \in [Clients -> {"none", "bound", "stopped"}]
  /\ bound \in [Clients -> SUBSET Screens]
  /\ toldGroup \in [Clients -> [Groups -> ToldGroups \cup {None}]]
  /\ toldSpace \in [Clients -> [Spaces -> ToldSpaces \cup {None}]]
  /\ requests \in [Clients -> Seq(Requests)] /\ todo \in Seq(Requests)
  /\ heard \in [Clients -> SUBSET {"enter", "leave", "removed", "group"}]
  /\ late \in [Clients -> SUBSET (Screens \cup Groups \cup Spaces)]

\* A workspace is in a group that exists.
HomesExist == \A w \in Spaces : home[w] # None => outputsOf[home[w]] # None

\* A handle is of a workspace that exists and was told of no other group; so
\* whoever removes a group takes its workspaces from it.
HandlesFollow ==
  /\ \A c \in Clients, w \in Spaces :
       toldSpace[c][w] # None =>
         home[w] # None /\ toldSpace[c][w].group \in {None, home[w]}
  /\ ~orphaned

\* A client that has not bound was told nothing.
Strangers ==
  \A c \in Clients :
    manager[c] = "none" => /\ \A w \in Spaces : toldSpace[c][w] = None
                           /\ heard[c] \subseteq {"group"}

\* Between updates: handles of groups also know how many workspaces there are.
Counted(c) ==
  \A g \in Groups : toldGroup[c][g] # None =>
                       toldGroup[c][g].count = Cardinality(SpacesIn(g))
Settled ==
  updating = 0 => \A c \in Bound : Tells(c) /\ AllDone(c) /\ Counted(c)

\* During one: h says where the workspaces were when it began.
Began(c, h) ==
  /\ \A g \in Groups : toldGroup[c][g] # None =>
                         toldGroup[c][g].count
                           = Cardinality({w \in Spaces : h[w] = g})
  /\ \A w \in Spaces : toldSpace[c][w] # None => h[w] # None
  /\ \A w \in Spaces : h[w] # None => outputsOf[h[w]] # None
  /\ "removed" \in heard[c] =>
       \E w \in Spaces : h[w] # None /\ toldSpace[c][w] = None
UnderWay ==
  updating > 0 =>
    \A c \in Bound :
      "group" \in heard[c] \/ \E h \in [Spaces -> Groups \cup {None}] : Began(c, h)

ProtocolInv ==
  /\ ProtocolTypes /\ HomesExist /\ HandlesFollow /\ Strangers
  /\ Settled /\ UnderWay

-----------------------------------------------------------------------------
(* Counting.                                                                *)

\* If every group has as many workspaces by k as by h, and every workspace
\* that has a group by k has one by h, then no other has one by h.
LEMMA NoneIsLeftOver ==
  ASSUME IsFiniteSet(Spaces), None \notin Groups,
         NEW h \in [Spaces -> Groups \cup {None}],
         NEW k \in [Spaces -> Groups \cup {None}],
         \A g \in Groups : Cardinality({w \in Spaces : h[w] = g})
                             = Cardinality({w \in Spaces : k[w] = g}),
         \A w \in Spaces : k[w] # None => h[w] # None
  PROVE  \A w \in Spaces : h[w] # None => k[w] # None
<1> DEFINE H(g) == {w \in Spaces : h[w] = g}
           K(g) == {w \in Spaces : k[w] = g}
           A == {w \in Spaces : k[w] # None}
           B == {w \in Spaces : h[w] # None}
<1>1. \A S : S \subseteq Spaces => IsFiniteSet(S)
  BY FS_Subset
<1>2. ASSUME NEW g \in Groups
      PROVE  \E f : f \in Surjection(K(g), H(g))
  <2>1. PICK S, T : S = K(g) /\ T = H(g)
    OBVIOUS
  <2>2. IsFiniteSet(S) /\ IsFiniteSet(T) /\ Cardinality(S) = Cardinality(T)
    BY <1>1, <2>1
  <2>3. ExistsBijection(S, T)
    BY <2>2, FS_SameCardinalityBij
  <2> QED BY <2>1, <2>3 DEF ExistsBijection, Bijection
<1> DEFINE b == [g \in Groups |-> CHOOSE f : f \in Surjection(K(g), H(g))]
           f == [w \in A |-> b[k[w]][w]]
<1>3. ASSUME NEW g \in Groups
      PROVE  /\ \A w \in K(g) : b[g][w] \in H(g)
             /\ \A x \in H(g) : \E w \in K(g) : b[g][w] = x
  <2>1. b[g] = CHOOSE e : e \in Surjection(K(g), H(g))
    OBVIOUS
  <2>2. b[g] \in Surjection(K(g), H(g))
    BY <1>2, <2>1, Zenon
  <2> QED BY <2>2 DEF Surjection
<1>4. f \in Surjection(A, B)
  <2> HIDE DEF b
  <2>1. ASSUME NEW w \in A
        PROVE  f[w] \in B
    <3>1. k[w] \in Groups /\ w \in K(k[w])
      OBVIOUS
    <3>2. b[k[w]][w] \in H(k[w])
      BY <1>3, <3>1
    <3> QED BY <3>1, <3>2
  <2>2. ASSUME NEW x \in B
        PROVE  \E w \in A : f[w] = x
    <3>1. h[x] \in Groups /\ x \in H(h[x])
      OBVIOUS
    <3>2. PICK w \in K(h[x]) : b[h[x]][w] = x
      BY <1>3, <3>1
    <3>3. k[w] = h[x] /\ w \in A
      BY <3>1, <3>2
    <3> QED BY <3>2, <3>3
  <2>3. f \in [A -> B]
    BY <2>1
  <2> QED BY <2>2, <2>3 DEF Surjection
<1>5. /\ IsFiniteSet(A) /\ IsFiniteSet(B) /\ A \in SUBSET B
  BY <1>1
<1> HIDE DEF f, A, B
<1>6. Cardinality(B) <= Cardinality(A)
  BY <1>4, <1>5, FS_Surjection
<1>7. /\ Cardinality(A) <= Cardinality(B)
      /\ Cardinality(B) = Cardinality(A) => B = A
  BY <1>5, FS_Subset
<1>8. Cardinality(A) \in Nat /\ Cardinality(B) \in Nat
  BY <1>5, FS_CardinalityType
<1>9. A = B
  BY <1>6, <1>7, <1>8
<1> QED BY <1>9 DEF A, B

-----------------------------------------------------------------------------
(* What a client is told.                                                   *)

\* Handles that say what is: gs those of groups, ws those of workspaces.
Informed(c, gs, ws) ==
  /\ gs \in [Groups -> ToldGroups \cup {None}]
  /\ ws \in [Spaces -> ToldSpaces \cup {None}]
  /\ \A g \in Groups :
       /\ gs[g] # None <=> outputsOf[g] # None
       /\ gs[g] # None => /\ gs[g].outputs = outputsOf[g] \cap bound[c]
                          /\ gs[g].count = Cardinality(SpacesIn(g))
  /\ \A w \in Spaces :
       /\ ws[w] # None <=> home[w] # None
       /\ ws[w] # None => /\ ws[w].group = home[w]
                          /\ ws[w].label = label[w]
                          /\ ws[w].tiling \in {None, tiling[w]}

\* send_group_to_client and send_workspace_to_client inform.
LEMMA TellInforms ==
  ASSUME ProtocolConstants, ProtocolTypes, NEW c \in Clients
  PROVE  Informed(c, TellGroups(c), TellSpaces(c))
<1>1. ASSUME NEW g \in Groups, outputsOf[g] # None
      PROVE  /\ Announced(c, g) \in ToldGroups
             /\ Announced(c, g).outputs = outputsOf[g] \cap bound[c]
             /\ Announced(c, g).count = Cardinality(SpacesIn(g))
  <2>1. outputsOf[g] \cap bound[c] \in SUBSET Screens
    BY DEF ProtocolTypes
  <2>2. Cardinality(SpacesIn(g)) \in Nat
    <3>1. PICK S : S = SpacesIn(g)
      OBVIOUS
    <3>2. S \in SUBSET Spaces /\ IsFiniteSet(Spaces)
      BY <3>1 DEF SpacesIn, ProtocolConstants
    <3>3. IsFiniteSet(S)
      BY <3>2, FS_Subset
    <3> QED BY <3>1, <3>3, FS_CardinalityType
  <2> QED BY <2>1, <2>2 DEF Announced, ToldGroups
<1>2. ASSUME NEW w \in Spaces, home[w] # None
      PROVE  /\ AnnouncedSpace(c, w) \in ToldSpaces
             /\ AnnouncedSpace(c, w).group = home[w]
             /\ AnnouncedSpace(c, w).label = label[w]
             /\ AnnouncedSpace(c, w).tiling \in {None, tiling[w]}
  <2>1. /\ home[w] \in Groups \cup {None} /\ label[w] \in Labels \cup {None}
        /\ tiling[w] \in Tilings \cup {None}
    BY DEF ProtocolTypes
  <2> QED BY <2>1 DEF AnnouncedSpace, ToldSpaces
<1>3. \A g \in Groups : TellGroups(c)[g] = IF outputsOf[g] # None
                                           THEN Announced(c, g) ELSE None
  BY DEF TellGroups, LiveGroups
<1>4. \A w \in Spaces : TellSpaces(c)[w] = IF home[w] # None
                                           THEN AnnouncedSpace(c, w) ELSE None
  BY DEF TellSpaces, LiveSpaces
<1>5. None \notin ToldGroups /\ None \notin ToldSpaces
  BY DEF ProtocolConstants
<1>6. \A g \in Groups :
        /\ TellGroups(c)[g] \in ToldGroups \cup {None}
        /\ TellGroups(c)[g] # None <=> outputsOf[g] # None
        /\ TellGroups(c)[g] # None =>
             /\ TellGroups(c)[g].outputs = outputsOf[g] \cap bound[c]
             /\ TellGroups(c)[g].count = Cardinality(SpacesIn(g))
  BY <1>1, <1>3, <1>5
<1>7. \A w \in Spaces :
        /\ TellSpaces(c)[w] \in ToldSpaces \cup {None}
        /\ TellSpaces(c)[w] # None <=> home[w] # None
        /\ TellSpaces(c)[w] # None =>
             /\ TellSpaces(c)[w].group = home[w]
             /\ TellSpaces(c)[w].label = label[w]
             /\ TellSpaces(c)[w].tiling \in {None, tiling[w]}
  BY <1>2, <1>4, <1>5
<1>8. TellGroups(c) \in [Groups -> ToldGroups \cup {None}]
  <2>1. TellGroups(c) = [g \in Groups |-> TellGroups(c)[g]]
    BY DEF TellGroups
  <2> QED BY <1>6, <2>1
<1>9. TellSpaces(c) \in [Spaces -> ToldSpaces \cup {None}]
  <2>1. TellSpaces(c) = [w \in Spaces |-> TellSpaces(c)[w]]
    BY DEF TellSpaces
  <2> QED BY <1>7, <2>1
<1> QED BY <1>6, <1>7, <1>8, <1>9 DEF Informed

\* An informed client has been told what is, with numbers.
InformedAreTold ==
  \A c \in Clients :
    Informed(c, toldGroup[c], toldSpace[c]) => Tells(c) /\ Counted(c)

\* It follows from what Informed says of each group and workspace.
LEMMA InformedTells == InformedAreTold
<1> SUFFICES ASSUME NEW c \in Clients, Informed(c, toldGroup[c], toldSpace[c])
             PROVE  Tells(c) /\ Counted(c)
  BY DEF InformedAreTold
<1>1. Tells(c)
  BY DEF Informed, Tells
<1>2. Counted(c)
  BY DEF Informed, Counted
<1> QED BY <1>1, <1>2

-----------------------------------------------------------------------------
(* Updates begin and end.                                                   *)

\* Between updates, the workspaces are where an update finds them.
LEMMA BeginsHere ==
  ASSUME ProtocolTypes, HomesExist, HandlesFollow, Settled, updating = 0,
         NEW c \in Bound
  PROVE  "group" \in heard[c]
           \/ \E h \in [Spaces -> Groups \cup {None}] : Began(c, h)
<1> SUFFICES ASSUME "group" \notin heard[c]
             PROVE  Began(c, home) /\ home \in [Spaces -> Groups \cup {None}]
  OBVIOUS
<1>1. AllDone(c) /\ Counted(c) /\ c \in Clients
  BY DEF Settled, Bound
<1>2. "removed" \notin heard[c]
  BY <1>1 DEF AllDone
<1>3. \A g \in Groups : toldGroup[c][g] # None =>
          toldGroup[c][g].count = Cardinality({w \in Spaces : home[w] = g})
  BY <1>1 DEF Counted, SpacesIn
<1>4. \A w \in Spaces : toldSpace[c][w] # None => home[w] # None
  BY <1>1 DEF HandlesFollow
<1> QED BY <1>2, <1>3, <1>4 DEF Began, HomesExist, ProtocolTypes

\* If nothing a client was told of is different, then no workspace was taken
\* from it: its group would have another number of workspaces.
LEMMA NothingRemoved ==
  ASSUME ProtocolConstants, ProtocolTypes, HomesExist, NEW c \in Clients,
         NEW h \in [Spaces -> Groups \cup {None}], Began(c, h), ~Changed(c)
  PROVE  "removed" \notin heard[c]
<1>1. \A g \in Groups : outputsOf[g] # None => toldGroup[c][g] = Announced(c, g)
  BY DEF Changed, GroupChanged, LiveGroups
<1>2. \A w \in Spaces : home[w] # None => toldSpace[c][w] # None
  BY DEF Changed, SpaceChanged, LiveSpaces
<1>3. ASSUME NEW g \in Groups
      PROVE  Cardinality({w \in Spaces : h[w] = g})
               = Cardinality({w \in Spaces : home[w] = g})
  <2>1. CASE outputsOf[g] # None
    <3>1. Informed(c, TellGroups(c), TellSpaces(c))
      BY TellInforms
    <3>2. TellGroups(c)[g] = Announced(c, g)
      BY <2>1 DEF TellGroups, LiveGroups
    <3>3. /\ Announced(c, g) # None
          /\ Announced(c, g).count = Cardinality(SpacesIn(g))
      BY <2>1, <3>1, <3>2 DEF Informed
    <3> QED BY <1>1, <2>1, <3>3 DEF Began, SpacesIn
  <2>2. CASE outputsOf[g] = None
    <3>1. g # None
      BY DEF ProtocolConstants
    <3>2. \A w \in Spaces : h[w] # g
      BY <2>2, <3>1 DEF Began
    <3>3. \A w \in Spaces : home[w] # g
      BY <2>2, <3>1 DEF HomesExist
    <3>4. {w \in Spaces : h[w] = g} = {w \in Spaces : home[w] = g}
      BY <3>2, <3>3
    <3> QED BY <3>4
  <2> QED BY <2>1, <2>2
<1>4. \A w \in Spaces : home[w] # None => h[w] # None
  BY <1>2 DEF Began
<1>5. \A w \in Spaces : h[w] # None => home[w] # None
  BY <1>3, <1>4, NoneIsLeftOver DEF ProtocolTypes, ProtocolConstants
<1> QED BY <1>2, <1>5 DEF Began

\* Every bound client is informed when the guard is dropped, and a workspace
\* that was taken from it makes a difference, which brings its `done`.
LEMMA UpdateEndsKeeps ==
  ASSUME ProtocolConstants, ProtocolInv, UpdateEnds
  PROVE  ProtocolInv'
<1> USE DEF ProtocolInv
<1> DEFINE changed == \E c \in Bound : Changed(c)
<1>1. /\ updating > 0 /\ updating' = 0
      /\ UNCHANGED <<outputsOf, home, label, tiling, manager, bound, requests,
                     todo, orphaned>>
  BY DEF UpdateEnds
<1>2. /\ toldGroup' = [c \in Clients |-> IF c \in Bound THEN TellGroups(c)
                                         ELSE toldGroup[c]]
      /\ toldSpace' = [c \in Clients |-> IF c \in Bound THEN TellSpaces(c)
                                         ELSE toldSpace[c]]
      /\ heard' = [c \in Clients |->
           IF c \notin Bound THEN heard[c]
           ELSE IF changed THEN {}
           ELSE heard[c] \cup (IF Entered(c) THEN {"enter"} ELSE {})]
      /\ late' = [c \in Clients |-> IF c \in Bound THEN {} ELSE late[c]]
  BY DEF UpdateEnds, Done
<1>3. Bound' = Bound /\ Bound \subseteq Clients
  BY <1>1 DEF Bound
<1>4. ASSUME NEW c \in Bound
      PROVE  Informed(c, toldGroup'[c], toldSpace'[c])
  <2>1. Informed(c, TellGroups(c), TellSpaces(c))
    BY <1>3, TellInforms
  <2> QED BY <1>2, <1>3, <2>1
<1>5. ASSUME NEW c \in Bound
      PROVE  Tells(c)' /\ Counted(c)'
  <2>1. Informed(c, toldGroup[c], toldSpace[c])'
    <3>1. \A g \in Groups : SpacesIn(g)' = SpacesIn(g)
      BY <1>1 DEF SpacesIn
    <3>2. Informed(c, toldGroup'[c], toldSpace'[c])
      BY <1>4
    <3> QED BY <1>1, <3>1, <3>2, Zenon DEF Informed
  <2>2. InformedAreTold'
    BY InformedTells, PTL
  <2> QED BY <1>3, <2>1, <2>2 DEF InformedAreTold
<1>6. \A c \in Clients : c \notin Bound =>
        /\ toldGroup'[c] = toldGroup[c] /\ toldSpace'[c] = toldSpace[c]
        /\ heard'[c] = heard[c]
  BY <1>2
<1>7. ASSUME NEW c \in Bound
      PROVE  AllDone(c)'
  <2>1. CASE changed
    BY <1>2, <1>3, <2>1 DEF AllDone
  <2>2. CASE ~changed
    <3>1. heard'[c] = heard[c] \cup (IF Entered(c) THEN {"enter"} ELSE {})
      BY <1>2, <1>3, <2>2
    <3>2. CASE "group" \in heard[c]
      BY <3>1, <3>2 DEF AllDone
    <3>3. CASE "group" \notin heard[c]
      <4>1. PICK h \in [Spaces -> Groups \cup {None}] : Began(c, h)
        BY <1>1, <3>3 DEF UnderWay
      <4>2. "removed" \notin heard[c]
        BY <1>3, <2>2, <4>1, NothingRemoved
      <4>3. heard[c] \subseteq {"enter", "leave", "removed", "group"}
        BY <1>3 DEF ProtocolTypes
      <4>4. heard[c] \subseteq {"enter", "leave"}
        BY <3>3, <4>2, <4>3
      <4> QED BY <3>1, <4>4 DEF AllDone
    <3> QED BY <3>2, <3>3
  <2> QED BY <2>1, <2>2
<1>8. ProtocolTypes'
  <2>1. ASSUME NEW c \in Clients
        PROVE  /\ toldGroup'[c] \in [Groups -> ToldGroups \cup {None}]
               /\ toldSpace'[c] \in [Spaces -> ToldSpaces \cup {None}]
    <3>1. CASE c \in Bound
      BY <1>4, <3>1 DEF Informed
    <3>2. CASE c \notin Bound
      BY <1>6, <3>2 DEF ProtocolTypes
    <3> QED BY <3>1, <3>2
  <2>2. toldGroup' \in [Clients -> [Groups -> ToldGroups \cup {None}]]
    <3>1. toldGroup' = [c \in Clients |-> toldGroup'[c]]
      BY <1>2
    <3> QED BY <2>1, <3>1
  <2>3. toldSpace' \in [Clients -> [Spaces -> ToldSpaces \cup {None}]]
    <3>1. toldSpace' = [c \in Clients |-> toldSpace'[c]]
      BY <1>2
    <3> QED BY <2>1, <3>1
  <2>4. heard' \in [Clients -> SUBSET {"enter", "leave", "removed", "group"}]
    <3>1. \A c \in Clients :
            heard'[c] \subseteq {"enter", "leave", "removed", "group"}
      BY <1>2 DEF ProtocolTypes
    <3>2. heard' = [c \in Clients |-> heard'[c]]
      BY <1>2
    <3> QED BY <3>1, <3>2
  <2>5. late' \in [Clients -> SUBSET (Screens \cup Groups \cup Spaces)]
    BY <1>2 DEF ProtocolTypes
  <2> QED BY <1>1, <2>2, <2>3, <2>4, <2>5 DEF ProtocolTypes
<1>9. HandlesFollow'
  <2>1. ASSUME NEW c \in Clients, NEW w \in Spaces, toldSpace'[c][w] # None
        PROVE  home[w] # None /\ toldSpace'[c][w].group \in {None, home[w]}
    <3>1. CASE c \in Bound
      BY <1>4, <2>1, <3>1 DEF Informed
    <3>2. CASE c \notin Bound
      BY <1>6, <2>1, <3>2 DEF HandlesFollow
    <3> QED BY <3>1, <3>2
  <2> QED BY <1>1, <2>1 DEF HandlesFollow
<1>10. Strangers'
  BY <1>1, <1>6 DEF Strangers, Bound
<1>11. HomesExist' /\ Settled' /\ UnderWay'
  BY <1>1, <1>3, <1>5, <1>7 DEF HomesExist, Settled, UnderWay
<1> QED BY <1>8, <1>9, <1>10, <1>11

\* An update begins: by itself, or with a request.
LEMMA UpdateBegins ==
  ASSUME ProtocolConstants, ProtocolInv, Update \/ HandleRequest
  PROVE  ProtocolInv'
<1> USE DEF ProtocolInv
<1>1. /\ updating = 0
      /\ UNCHANGED <<outputsOf, home, manager, bound, toldGroup, toldSpace,
                     requests, late, heard, orphaned>>
      /\ \/ updating' = MaxChanges + 1
         \/ UNCHANGED <<label, tiling, updating>>
  BY DEF Update, HandleRequest, Idle
<1>2. ProtocolTypes'
  <2>1. updating' \in Nat
    BY <1>1 DEF ProtocolTypes, ProtocolConstants
  <2>2. todo' \in Seq(Requests)
    <3>1. CASE Update
      BY <3>1 DEF Update, ProtocolTypes
    <3>2. CASE HandleRequest
      <4>1. todo # <<>> /\ todo' = Tail(todo) /\ todo \in Seq(Requests)
        BY <3>2 DEF HandleRequest, ProtocolTypes
      <4> QED BY <4>1
    <3> QED BY <3>1, <3>2
  <2>3. label' \in [Spaces -> Labels \cup {None}]
        /\ tiling' \in [Spaces -> Tilings \cup {None}]
    <3>1. CASE Update
      BY <3>1 DEF Update, ProtocolTypes
    <3>2. CASE HandleRequest
      <4>1. PICK r : r = Head(todo)
        OBVIOUS
      <4>2. r \in Requests
        <5>1. todo # <<>> /\ todo \in Seq(Requests)
          BY <3>2 DEF HandleRequest, ProtocolTypes
        <5> QED BY <4>1, <5>1
      <4>3. (CHOOSE l \in Labels : l # Active) \in Labels
        BY DEF ProtocolConstants
      <4>4. label' = label \/
              \E here : label' = [w \in Spaces |->
                 IF w = r.space THEN Active
                 ELSE IF w \in here THEN CHOOSE l \in Labels : l # Active
                 ELSE label[w]]
        BY <3>2, <4>1 DEF HandleRequest
      <4>5. tiling' = tiling \/
              (r.tiling # None /\ tiling' = [tiling EXCEPT ![r.space] = r.tiling])
        BY <3>2, <4>1 DEF HandleRequest
      <4>6. r.tiling \in Tilings \cup {None}
        BY <4>2 DEF Requests
      <4>7. label' \in [Spaces -> Labels \cup {None}]
        <5> DEFINE other == CHOOSE l \in Labels : l # Active
        <5> HIDE DEF other
        <5>1. other \in Labels
          BY <4>3 DEF other
        <5>2. label' = label \/
                \E here : label' = [w \in Spaces |->
                   IF w = r.space THEN Active
                   ELSE IF w \in here THEN other ELSE label[w]]
          BY <4>4 DEF other
        <5> QED BY <5>1, <5>2 DEF ProtocolTypes, ProtocolConstants
      <4>8. tiling' \in [Spaces -> Tilings \cup {None}]
        BY <4>5, <4>6 DEF ProtocolTypes
      <4> QED BY <4>7, <4>8
    <3> QED BY <3>1, <3>2
  <2> QED BY <1>1, <2>1, <2>2, <2>3 DEF ProtocolTypes
<1>3. HomesExist' /\ HandlesFollow' /\ Strangers'
  BY <1>1 DEF HomesExist, HandlesFollow, Strangers
<1>4. Bound' = Bound
  BY <1>1 DEF Bound
<1>5. \A c \in Bound : "group" \in heard[c]
          \/ \E h \in [Spaces -> Groups \cup {None}] : Began(c, h)
  BY <1>1, BeginsHere
<1>6. UnderWay'
  BY <1>1, <1>4, <1>5 DEF UnderWay, Began
<1>7. Settled'
  <2>1. CASE updating' = MaxChanges + 1
    BY <2>1 DEF Settled, ProtocolConstants
  <2>2. CASE UNCHANGED <<label, tiling, updating>>
    BY <1>1, <1>4, <2>2
       DEF Settled, Tells, AllDone, Counted, SpacesIn
  <2> QED BY <1>1, <2>1, <2>2
<1> QED BY <1>2, <1>3, <1>6, <1>7

-----------------------------------------------------------------------------
(* What the shell does in an update.                                        *)

\* What clients are told of when the guard is dropped.
LEMMA QuietChangesKeep ==
  ASSUME ProtocolConstants, ProtocolInv,
         \/ \E g \in Groups : CreateWorkspaceGroup(g)
         \/ \E g \in Groups, os \in SUBSET Screens : SetGroupOutputs(g, os)
         \/ \E w \in Spaces, g \in Groups, l \in Labels, t \in Tilings :
              CreateWorkspace(w, g, l, t)
         \/ \E w \in Spaces, l \in Labels : SetLabel(w, l)
         \/ \E w \in Spaces, t \in Tilings : SetTilingState(w, t)
  PROVE  ProtocolInv'
<1> USE DEF ProtocolInv
<1> DEFINE
     Facts ==
       /\ outputsOf' \in [Groups -> (SUBSET Screens) \cup {None}]
       /\ home' \in [Spaces -> Groups \cup {None}]
       /\ label' \in [Spaces -> Labels \cup {None}]
       /\ tiling' \in [Spaces -> Tilings \cup {None}]
       /\ \A g \in Groups : outputsOf[g] # None => outputsOf'[g] # None
       /\ \A w \in Spaces : home[w] # None => home'[w] = home[w]
       /\ \A w \in Spaces : home'[w] # home[w] => outputsOf[home'[w]] # None
     Quiet ==
       /\ updating > 1 /\ updating' = updating - 1
       /\ UNCHANGED <<manager, bound, toldGroup, toldSpace, requests, todo,
                      late, heard, orphaned>>
<1>1. Facts /\ Quiet
  <2>1. CASE \E g \in Groups : CreateWorkspaceGroup(g)
    <3>1. PICK g \in Groups : CreateWorkspaceGroup(g)
      BY <2>1
    <3>2. /\ outputsOf' = [outputsOf EXCEPT ![g] = {}] /\ UNCHANGED <<home, label, tiling>>
      BY <3>1 DEF CreateWorkspaceGroup
    <3>3. \A x \in SUBSET Screens : x # None
      BY DEF ProtocolConstants
    <3>4. Facts
      BY <3>2, <3>3 DEF ProtocolTypes
    <3>5. Quiet
      BY <3>1 DEF CreateWorkspaceGroup, Shell
    <3> QED BY <3>4, <3>5
  <2>2. CASE \E g \in Groups, os \in SUBSET Screens : SetGroupOutputs(g, os)
    <3>1. PICK g \in Groups, os \in SUBSET Screens : SetGroupOutputs(g, os)
      BY <2>2
    <3>2. /\ outputsOf' = [outputsOf EXCEPT ![g] = os] /\ UNCHANGED <<home, label, tiling>>
      BY <3>1 DEF SetGroupOutputs
    <3>3. \A x \in SUBSET Screens : x # None
      BY DEF ProtocolConstants
    <3>4. Facts
      BY <3>2, <3>3 DEF ProtocolTypes
    <3>5. Quiet
      BY <3>1 DEF SetGroupOutputs, Shell
    <3> QED BY <3>4, <3>5
  <2>3. CASE \E w \in Spaces, g \in Groups, l \in Labels, t \in Tilings :
               CreateWorkspace(w, g, l, t)
    <3>1. PICK w \in Spaces, g \in Groups, l \in Labels, t \in Tilings :
            CreateWorkspace(w, g, l, t)
      BY <2>3
    <3>2. /\ home[w] = None /\ outputsOf[g] # None
          /\ home' = [home EXCEPT ![w] = g]
          /\ label' = [label EXCEPT ![w] = l]
          /\ tiling' = [tiling EXCEPT ![w] = t] /\ UNCHANGED outputsOf
      BY <3>1 DEF CreateWorkspace
    <3>3. Facts
      BY <3>2 DEF ProtocolTypes
    <3>4. Quiet
      BY <3>1 DEF CreateWorkspace, Shell
    <3> QED BY <3>3, <3>4
  <2>4. CASE \E w \in Spaces, l \in Labels : SetLabel(w, l)
    <3>1. Facts
      BY <2>4 DEF SetLabel, ProtocolTypes
    <3>2. Quiet
      BY <2>4 DEF SetLabel, Shell
    <3> QED BY <3>1, <3>2
  <2>5. CASE \E w \in Spaces, t \in Tilings : SetTilingState(w, t)
    <3>1. Facts
      BY <2>5 DEF SetTilingState, ProtocolTypes
    <3>2. Quiet
      BY <2>5 DEF SetTilingState, Shell
    <3> QED BY <3>1, <3>2
  <2> QED BY <2>1, <2>2, <2>3, <2>4, <2>5
<1>2. ProtocolTypes'
  <2>1. updating' \in Nat
    BY <1>1 DEF ProtocolTypes
  <2> QED BY <1>1, <2>1 DEF ProtocolTypes
<1>3. HomesExist'
  <2> SUFFICES ASSUME NEW w \in Spaces, home'[w] # None
               PROVE  outputsOf'[home'[w]] # None
    BY DEF HomesExist
  <2>1. outputsOf[home'[w]] # None
    BY <1>1 DEF HomesExist
  <2>2. home'[w] \in Groups
    BY <1>1
  <2> QED BY <1>1, <2>1, <2>2
<1>4. HandlesFollow'
  BY <1>1 DEF HandlesFollow
<1>5. Strangers'
  BY <1>1 DEF Strangers
<1>6. Settled'
  BY <1>1 DEF Settled, ProtocolTypes
<1>7. UnderWay'
  <2> SUFFICES ASSUME NEW c \in Bound, "group" \notin heard[c]
               PROVE  \E h \in [Spaces -> Groups \cup {None}] : Began(c, h)'
    BY <1>1 DEF UnderWay, Bound
  <2>1. PICK h \in [Spaces -> Groups \cup {None}] : Began(c, h)
    BY <1>1 DEF UnderWay, ProtocolTypes
  <2>2. \A w \in Spaces : h[w] # None => outputsOf'[h[w]] # None
    BY <1>1, <2>1 DEF Began
  <2>3. Began(c, h)'
    BY <1>1, <2>1, <2>2 DEF Began
  <2> QED BY <2>3
<1> QED BY <1>2, <1>3, <1>4, <1>5, <1>6, <1>7

\* Workspaces are forgotten, by the shell and by every handle of them.
LEMMA ForgetForgets ==
  ASSUME ProtocolTypes, NEW ws, Forget(ws)
  PROVE  /\ home' \in [Spaces -> Groups \cup {None}]
         /\ label' \in [Spaces -> Labels \cup {None}]
         /\ tiling' \in [Spaces -> Tilings \cup {None}]
         /\ toldSpace' \in [Clients -> [Spaces -> ToldSpaces \cup {None}]]
         /\ \A w \in Spaces : home'[w] = IF w \in ws THEN None ELSE home[w]
         /\ \A c \in Clients, w \in Spaces :
              toldSpace'[c][w] = IF w \in ws THEN None ELSE toldSpace[c][w]
<1>1. home' \in [Spaces -> Groups \cup {None}]
  BY DEF Forget, ProtocolTypes
<1>2. label' \in [Spaces -> Labels \cup {None}]
  BY DEF Forget, ProtocolTypes
<1>3. tiling' \in [Spaces -> Tilings \cup {None}]
  BY DEF Forget, ProtocolTypes
<1>4. toldSpace' \in [Clients -> [Spaces -> ToldSpaces \cup {None}]]
  BY DEF Forget, ProtocolTypes
<1> QED BY <1>1, <1>2, <1>3, <1>4 DEF Forget

\* Removing a workspace keeps the invariant.
LEMMA RemoveWorkspaceKeeps ==
  ASSUME ProtocolConstants, ProtocolInv, NEW w \in Spaces, RemoveWorkspace(w)
  PROVE  ProtocolInv'
<1> USE DEF ProtocolInv
<1>1. /\ updating > 1 /\ updating' = updating - 1
      /\ heard' = [c \in Clients |->
           heard[c] \cup (IF Knows(c, {w}) THEN {"removed"} ELSE {})]
      /\ UNCHANGED <<outputsOf, manager, bound, toldGroup, requests, todo,
                     late, orphaned>>
  BY DEF RemoveWorkspace, Shell
<1>2. /\ home' \in [Spaces -> Groups \cup {None}]
      /\ label' \in [Spaces -> Labels \cup {None}]
      /\ tiling' \in [Spaces -> Tilings \cup {None}]
      /\ toldSpace' \in [Clients -> [Spaces -> ToldSpaces \cup {None}]]
      /\ \A x \in Spaces : home'[x] = IF x \in {w} THEN None ELSE home[x]
      /\ \A c \in Clients, x \in Spaces :
           toldSpace'[c][x] = IF x \in {w} THEN None ELSE toldSpace[c][x]
  <2>1. Forget({w})
    BY Zenon DEF RemoveWorkspace
  <2> QED BY <2>1, ForgetForgets
<1>3. ProtocolTypes'
  <2>1. updating' \in Nat
    BY <1>1 DEF ProtocolTypes
  <2>2. heard' \in [Clients -> SUBSET {"enter", "leave", "removed", "group"}]
    BY <1>1 DEF ProtocolTypes
  <2> QED BY <1>1, <1>2, <2>1, <2>2 DEF ProtocolTypes
<1>4. HomesExist' /\ HandlesFollow'
  BY <1>1, <1>2 DEF HomesExist, HandlesFollow
<1>5. Strangers'
  <2>1. \A c \in Clients : manager[c] = "none" => ~Knows(c, {w})
    BY DEF Strangers, Knows
  <2> QED BY <1>1, <1>2, <2>1 DEF Strangers
<1>6. Settled'
  BY <1>1 DEF Settled, ProtocolTypes
<1>7. UnderWay'
  <2> SUFFICES ASSUME NEW c \in Bound, "group" \notin heard[c]
               PROVE  \E h \in [Spaces -> Groups \cup {None}] : Began(c, h)'
    BY <1>1 DEF UnderWay, Bound
  <2>1. PICK h \in [Spaces -> Groups \cup {None}] : Began(c, h)
    BY <1>1 DEF UnderWay, ProtocolTypes
  <2>2. c \in Clients
    BY DEF Bound
  <2>3. \A x \in Spaces : toldSpace'[c][x] # None => h[x] # None
    BY <1>2, <2>1, <2>2 DEF Began
  <2>4. ASSUME "removed" \in heard'[c]
        PROVE  \E x \in Spaces : h[x] # None /\ toldSpace'[c][x] = None
    <3>1. CASE "removed" \in heard[c]
      BY <1>2, <2>1, <2>2, <3>1 DEF Began
    <3>2. CASE "removed" \notin heard[c]
      <4>1. toldSpace[c][w] # None
        BY <1>1, <2>2, <2>4, <3>2 DEF Knows
      <4> QED BY <1>2, <2>1, <2>2, <4>1 DEF Began
    <3> QED BY <3>1, <3>2
  <2>5. Began(c, h)'
    BY <1>1, <2>1, <2>3, <2>4 DEF Began
  <2> QED BY <2>5
<1> QED BY <1>3, <1>4, <1>5, <1>6, <1>7

\* The workspaces of a group are forgotten with it: no handle has it left.
LEMMA RemoveGroupKeeps ==
  ASSUME ProtocolConstants, ProtocolInv, NEW g \in Groups,
         RemoveGroup(g)
  PROVE  ProtocolInv'
<1> USE DEF ProtocolInv
<1>1. /\ updating > 1 /\ updating' = updating - 1
      /\ outputsOf' = [outputsOf EXCEPT ![g] = None]
      /\ toldGroup' = [c \in Clients |-> [toldGroup[c] EXCEPT ![g] = None]]
      /\ heard' = [c \in Clients |->
           heard[c] \cup (IF Knows(c, SpacesIn(g)) THEN {"removed"} ELSE {})
                    \cup {"group"}]
      /\ orphaned' = (\/ orphaned
                      \/ \E c \in Clients, w \in Spaces :
                           toldSpace'[c][w] # None
                             /\ toldSpace'[c][w].group = g)
      /\ UNCHANGED <<manager, bound, requests, todo, late>>
  BY DEF RemoveGroup, Shell
<1>2. /\ home' \in [Spaces -> Groups \cup {None}]
      /\ label' \in [Spaces -> Labels \cup {None}]
      /\ tiling' \in [Spaces -> Tilings \cup {None}]
      /\ toldSpace' \in [Clients -> [Spaces -> ToldSpaces \cup {None}]]
      /\ \A x \in Spaces : home'[x] = IF home[x] = g THEN None ELSE home[x]
      /\ \A c \in Clients, x \in Spaces :
           toldSpace'[c][x] = IF home[x] = g THEN None ELSE toldSpace[c][x]
  <2>1. Forget(SpacesIn(g))
    BY Zenon DEF RemoveGroup
  <2> QED BY <2>1, ForgetForgets DEF SpacesIn
<1>3. ProtocolTypes'
  <2>1. updating' \in Nat
    BY <1>1 DEF ProtocolTypes
  <2>2. heard' \in [Clients -> SUBSET {"enter", "leave", "removed", "group"}]
    BY <1>1 DEF ProtocolTypes
  <2>3. toldGroup' \in [Clients -> [Groups -> ToldGroups \cup {None}]]
    BY <1>1 DEF ProtocolTypes
  <2>4. outputsOf' \in [Groups -> (SUBSET Screens) \cup {None}]
    BY <1>1 DEF ProtocolTypes
  <2> QED BY <1>1, <1>2, <2>1, <2>2, <2>3, <2>4 DEF ProtocolTypes
<1>4. HomesExist'
  BY <1>1, <1>2 DEF HomesExist, ProtocolTypes
<1>5. HandlesFollow'
  <2>1. ASSUME NEW c \in Clients, NEW w \in Spaces, toldSpace'[c][w] # None
        PROVE  /\ home'[w] # None
               /\ toldSpace'[c][w].group \in {None, home'[w]}
               /\ toldSpace'[c][w].group # g
    <3>1. /\ home[w] # g /\ home'[w] = home[w]
          /\ toldSpace'[c][w] = toldSpace[c][w]
      BY <1>2, <2>1
    <3>2. g # None
      BY DEF ProtocolConstants
    <3> QED BY <2>1, <3>1, <3>2 DEF HandlesFollow
  <2>2. ~orphaned'
    BY <1>1, <2>1 DEF HandlesFollow
  <2> QED BY <2>1, <2>2 DEF HandlesFollow
<1>6. Strangers'
  <2>1. \A c \in Clients : manager[c] = "none" => ~Knows(c, SpacesIn(g))
    BY DEF Strangers, Knows, SpacesIn
  <2> QED BY <1>1, <1>2, <2>1 DEF Strangers
<1>7. Settled'
  BY <1>1 DEF Settled, ProtocolTypes
<1>8. UnderWay'
  BY <1>1 DEF UnderWay, Bound
<1> QED BY <1>3, <1>4, <1>5, <1>6, <1>7, <1>8

\* Moving a workspace to another group keeps the invariant.
LEMMA MoveWorkspaceKeeps ==
  ASSUME ProtocolConstants, ProtocolInv, NEW w \in Spaces, NEW g \in Groups,
         MoveWorkspaceToGroup(g, w)
  PROVE  ProtocolInv'
<1> USE DEF ProtocolInv
<1>1. /\ updating > 1 /\ updating' = updating - 1
      /\ outputsOf[g] # None /\ home[w] # None
      /\ home' = [home EXCEPT ![w] = g]
      /\ toldSpace' = [c \in Clients |-> Left(c, w)]
      /\ heard' = [c \in Clients |->
           heard[c] \cup (IF Knows(c, {w}) THEN {"leave"} ELSE {})]
      /\ UNCHANGED <<outputsOf, label, tiling, manager, bound, toldGroup,
                     requests, todo, late, orphaned>>
  BY DEF MoveWorkspaceToGroup, Shell
<1>2. ASSUME NEW c \in Clients, NEW x \in Spaces
      PROVE  /\ toldSpace'[c][x] \in ToldSpaces \cup {None}
             /\ toldSpace'[c][x] = None <=> toldSpace[c][x] = None
             /\ x # w => toldSpace'[c][x] = toldSpace[c][x]
             /\ x = w /\ toldSpace[c][x] # None =>
                  toldSpace'[c][x].group = None
  <2>1. toldSpace[c][x] \in ToldSpaces \cup {None}
    BY DEF ProtocolTypes
  <2>2. toldSpace'[c] = Left(c, w)
    BY <1>1
  <2>3. None \notin ToldSpaces
    BY DEF ProtocolConstants
  <2>4. CASE x # w \/ toldSpace[c][w] = None
    <3>1. toldSpace'[c][x] = toldSpace[c][x]
      BY <2>2, <2>4 DEF Left, ProtocolTypes
    <3> QED BY <2>1, <2>4, <3>1
  <2>5. CASE x = w /\ toldSpace[c][w] # None
    <3>1. toldSpace'[c][w] = [toldSpace[c][w] EXCEPT !.group = None]
      BY <2>2, <2>5 DEF Left, ProtocolTypes
    <3>2. toldSpace[c][w] \in ToldSpaces
      BY <2>1, <2>5
    <3>3. toldSpace'[c][w] \in ToldSpaces /\ toldSpace'[c][w].group = None
      BY <3>1, <3>2 DEF ToldSpaces
    <3> QED BY <2>3, <2>5, <3>3
  <2> QED BY <2>4, <2>5
<1>3. ProtocolTypes'
  <2>1. updating' \in Nat
    BY <1>1 DEF ProtocolTypes
  <2>2. heard' \in [Clients -> SUBSET {"enter", "leave", "removed", "group"}]
    BY <1>1 DEF ProtocolTypes
  <2>3. toldSpace' \in [Clients -> [Spaces -> ToldSpaces \cup {None}]]
    <3>1. \A c \in Clients : toldSpace'[c] = [x \in Spaces |-> toldSpace'[c][x]]
      <4> SUFFICES ASSUME NEW c \in Clients
                   PROVE  toldSpace'[c] = [x \in Spaces |-> toldSpace'[c][x]]
        OBVIOUS
      <4>1. toldSpace'[c] = Left(c, w)
        BY <1>1
      <4> QED BY <4>1 DEF Left, ProtocolTypes
    <3>2. \A c \in Clients : toldSpace'[c] \in [Spaces -> ToldSpaces \cup {None}]
      BY <1>2, <3>1
    <3>3. toldSpace' = [c \in Clients |-> toldSpace'[c]]
      BY <1>1
    <3> QED BY <3>2, <3>3
  <2>4. home' \in [Spaces -> Groups \cup {None}]
    BY <1>1 DEF ProtocolTypes
  <2> QED BY <1>1, <2>1, <2>2, <2>3, <2>4 DEF ProtocolTypes
<1>4. \A x \in Spaces : home'[x] = IF x = w THEN g ELSE home[x]
  BY <1>1 DEF ProtocolTypes
<1>5. HomesExist'
  BY <1>1, <1>4 DEF HomesExist
<1>6. HandlesFollow'
  <2>1. ASSUME NEW c \in Clients, NEW x \in Spaces, toldSpace'[c][x] # None
        PROVE  /\ home'[x] # None
               /\ toldSpace'[c][x].group \in {None, home'[x]}
    <3>1. CASE x = w
      BY <1>2, <1>4, <2>1, <3>1 DEF ProtocolConstants
    <3>2. CASE x # w
      BY <1>2, <1>4, <2>1, <3>2 DEF HandlesFollow
    <3> QED BY <3>1, <3>2
  <2> QED BY <1>1, <2>1 DEF HandlesFollow
<1>7. Strangers'
  <2>1. \A c \in Clients : manager[c] = "none" => ~Knows(c, {w})
    BY DEF Strangers, Knows
  <2> QED BY <1>1, <1>2, <2>1 DEF Strangers
<1>8. Settled'
  BY <1>1 DEF Settled, ProtocolTypes
<1>9. UnderWay'
  <2> SUFFICES ASSUME NEW c \in Bound, "group" \notin heard[c]
               PROVE  \E h \in [Spaces -> Groups \cup {None}] : Began(c, h)'
    BY <1>1 DEF UnderWay, Bound
  <2>1. PICK h \in [Spaces -> Groups \cup {None}] : Began(c, h)
    BY <1>1 DEF UnderWay, ProtocolTypes
  <2>2. c \in Clients
    BY DEF Bound
  <2>3. "removed" \in heard'[c] => "removed" \in heard[c]
    BY <1>1, <2>2
  <2>4. Began(c, h)'
    BY <1>1, <1>2, <2>1, <2>2, <2>3 DEF Began
  <2> QED BY <2>4
<1> QED BY <1>3, <1>5, <1>6, <1>7, <1>8, <1>9

-----------------------------------------------------------------------------
(* What a client does between updates.                                      *)

\* What one client does between updates changes nothing for the others.
LEMMA ClientStepKeeps ==
  ASSUME ProtocolInv, NEW c \in Clients, updating = 0, ProtocolTypes',
         UNCHANGED <<outputsOf, home, label, tiling, updating, orphaned>>,
         \A d \in Clients \ {c} :
           /\ manager'[d] = manager[d] /\ bound'[d] = bound[d]
           /\ toldGroup'[d] = toldGroup[d] /\ toldSpace'[d] = toldSpace[d]
           /\ late'[d] = late[d] /\ heard'[d] = heard[d],
         \A w \in Spaces : toldSpace'[c][w] # None =>
           home[w] # None /\ toldSpace'[c][w].group \in {None, home[w]},
         manager'[c] = "none" => /\ \A w \in Spaces : toldSpace'[c][w] = None
                                 /\ heard'[c] \subseteq {"group"},
         manager'[c] = "bound" => Tells(c)' /\ AllDone(c)' /\ Counted(c)'
  PROVE  ProtocolInv'
<1> USE DEF ProtocolInv
<1>1. HomesExist'
  BY DEF HomesExist
<1>2. HandlesFollow'
  <2>1. ASSUME NEW d \in Clients, NEW w \in Spaces, toldSpace'[d][w] # None
        PROVE  home'[w] # None /\ toldSpace'[d][w].group \in {None, home'[w]}
    <3>1. CASE d = c
      BY <2>1, <3>1
    <3>2. CASE d # c
      BY <2>1, <3>2 DEF HandlesFollow
    <3> QED BY <3>1, <3>2
  <2> QED BY <2>1 DEF HandlesFollow
<1>3. Strangers'
  <2> SUFFICES ASSUME NEW d \in Clients, manager'[d] = "none"
               PROVE  /\ \A w \in Spaces : toldSpace'[d][w] = None
                      /\ heard'[d] \subseteq {"group"}
    BY DEF Strangers
  <2>1. CASE d = c
    BY <2>1
  <2>2. CASE d # c
    BY <2>2 DEF Strangers
  <2> QED BY <2>1, <2>2
<1>4. Settled'
  <2> SUFFICES ASSUME NEW d \in Clients, manager'[d] = "bound"
               PROVE  Tells(d)' /\ AllDone(d)' /\ Counted(d)'
    BY DEF Settled, Bound
  <2>1. CASE d = c
    BY <2>1
  <2>2. CASE d # c
    <3>1. Tells(d) /\ AllDone(d) /\ Counted(d)
      BY <2>2 DEF Settled, Bound
    <3>2. /\ bound'[d] = bound[d] /\ late'[d] = late[d]
          /\ toldGroup'[d] = toldGroup[d] /\ toldSpace'[d] = toldSpace[d]
          /\ heard'[d] = heard[d]
      BY <2>2
    <3> QED BY <3>1, <3>2 DEF Tells, AllDone, Counted, SpacesIn
  <2> QED BY <2>1, <2>2
<1>5. UnderWay'
  BY DEF UnderWay
<1> QED BY <1>1, <1>2, <1>3, <1>4, <1>5

\* A client that binds is told everything.
LEMMA BindKeeps ==
  ASSUME ProtocolConstants, ProtocolInv, NEW c \in Clients, Bind(c)
  PROVE  ProtocolInv'
<1> USE DEF ProtocolInv
<1>1. /\ updating = 0 /\ manager[c] = "none"
      /\ manager' = [manager EXCEPT ![c] = "bound"]
      /\ toldGroup' = [toldGroup EXCEPT ![c] = TellGroups(c)]
      /\ toldSpace' = [toldSpace EXCEPT ![c] = TellSpaces(c)]
      /\ late' = [late EXCEPT ![c] = {}]
      /\ UNCHANGED <<outputsOf, home, label, tiling, updating, bound, requests,
                     todo, heard, orphaned>>
  BY DEF Bind, Idle
<1>2. Informed(c, TellGroups(c), TellSpaces(c))
  BY TellInforms
<1>3. toldGroup'[c] = TellGroups(c) /\ toldSpace'[c] = TellSpaces(c)
  BY <1>1 DEF ProtocolTypes
<1>4. ProtocolTypes'
  <2>1. toldGroup' \in [Clients -> [Groups -> ToldGroups \cup {None}]]
    BY <1>1, <1>2 DEF ProtocolTypes, Informed
  <2>2. toldSpace' \in [Clients -> [Spaces -> ToldSpaces \cup {None}]]
    BY <1>1, <1>2 DEF ProtocolTypes, Informed
  <2>3. late' \in [Clients -> SUBSET (Screens \cup Groups \cup Spaces)]
    BY <1>1 DEF ProtocolTypes
  <2>4. manager' \in [Clients -> {"none", "bound", "stopped"}]
    BY <1>1 DEF ProtocolTypes
  <2> QED BY <1>1, <2>1, <2>2, <2>3, <2>4 DEF ProtocolTypes
<1>5. \A d \in Clients \ {c} :
        /\ manager'[d] = manager[d] /\ bound'[d] = bound[d]
        /\ toldGroup'[d] = toldGroup[d] /\ toldSpace'[d] = toldSpace[d]
        /\ late'[d] = late[d] /\ heard'[d] = heard[d]
  BY <1>1 DEF ProtocolTypes
<1>6. \A w \in Spaces : toldSpace'[c][w] # None =>
        home[w] # None /\ toldSpace'[c][w].group \in {None, home[w]}
  BY <1>2, <1>3 DEF Informed
<1>7. Tells(c)' /\ Counted(c)'
  <2>1. Informed(c, toldGroup[c], toldSpace[c])'
    <3>1. \A g \in Groups : SpacesIn(g)' = SpacesIn(g)
      BY <1>1 DEF SpacesIn
    <3>2. Informed(c, toldGroup'[c], toldSpace'[c])
      BY <1>2, <1>3
    <3> QED BY <1>1, <3>1, <3>2, Zenon DEF Informed
  <2>2. InformedAreTold'
    BY InformedTells, PTL
  <2> QED BY <2>1, <2>2 DEF InformedAreTold
<1>8. AllDone(c)'
  BY <1>1 DEF AllDone, Strangers
<1>9. manager'[c] = "bound"
  BY <1>1 DEF ProtocolTypes
<1> QED BY <1>1, <1>4, <1>5, <1>6, <1>7, <1>8, <1>9, ClientStepKeeps

\* Stopping, requests and commits change nothing a client was told.
LEMMA QuietClientsKeep ==
  ASSUME ProtocolConstants, ProtocolInv, NEW c \in Clients,
         \/ Stop(c) \/ Commit(c)
         \/ \E r \in Requests : Request(c, r)
  PROVE  ProtocolInv'
<1> USE DEF ProtocolInv
<1>1. /\ updating = 0
      /\ \/ UNCHANGED manager
         \/ manager' = [manager EXCEPT ![c] = "stopped"] /\ manager[c] = "bound"
      /\ UNCHANGED <<outputsOf, home, label, tiling, updating, bound,
                     toldGroup, toldSpace, late, heard, orphaned>>
  BY DEF Stop, Commit, Request, Idle
<1>2. ProtocolTypes'
  <2>1. manager' \in [Clients -> {"none", "bound", "stopped"}]
    BY <1>1 DEF ProtocolTypes
  <2>2. requests' \in [Clients -> Seq(Requests)] /\ todo' \in Seq(Requests)
    <3>1. CASE Stop(c)
      BY <3>1 DEF Stop, ProtocolTypes
    <3>2. CASE Commit(c)
      BY <3>2 DEF Commit, ProtocolTypes
    <3>3. CASE \E r \in Requests : Request(c, r)
      <4>1. PICK r \in Requests : Request(c, r)
        BY <3>3
      <4>2. requests[c] \in Seq(Requests)
        BY DEF ProtocolTypes
      <4>3. Append(requests[c], r) \in Seq(Requests)
        BY <4>2
      <4>4. /\ requests' = [requests EXCEPT ![c] = Append(requests[c], r)]
            /\ UNCHANGED todo
        BY <4>1 DEF Request
      <4> QED BY <4>3, <4>4 DEF ProtocolTypes
    <3> QED BY <3>1, <3>2, <3>3
  <2> QED BY <1>1, <2>1, <2>2 DEF ProtocolTypes
<1>3. /\ \A d \in Clients \ {c} : manager'[d] = manager[d]
      /\ manager'[c] \in {"none", "bound"} => manager'[c] = manager[c]
  BY <1>1 DEF ProtocolTypes
<1>4. manager'[c] = "bound" => Tells(c)' /\ AllDone(c)' /\ Counted(c)'
  <2>1. manager'[c] = "bound" => Tells(c) /\ AllDone(c) /\ Counted(c)
    BY <1>1, <1>3 DEF Settled, Bound
  <2> QED BY <1>1, <2>1 DEF Tells, AllDone, Counted, SpacesIn
<1>5. \A w \in Spaces : toldSpace'[c][w] # None =>
        home[w] # None /\ toldSpace'[c][w].group \in {None, home[w]}
  BY <1>1 DEF HandlesFollow
<1>6. manager'[c] = "none" => /\ \A w \in Spaces : toldSpace'[c][w] = None
                              /\ heard'[c] \subseteq {"group"}
  BY <1>1, <1>3 DEF Strangers
<1> QED BY <1>1, <1>2, <1>3, <1>4, <1>5, <1>6, ClientStepKeeps

\* An output a client binds or releases, nobody tells it of before the next
\* update.
LEMMA OutputsKeep ==
  ASSUME ProtocolConstants, ProtocolInv, NEW c \in Clients, NEW o \in Screens,
         BindOutput(c, o) \/ ReleaseOutput(c, o)
  PROVE  ProtocolInv'
<1> USE DEF ProtocolInv
<1>1. /\ updating = 0
      /\ \/ bound' = [bound EXCEPT ![c] = bound[c] \cup {o}]
         \/ bound' = [bound EXCEPT ![c] = bound[c] \ {o}]
      /\ late' = [late EXCEPT ![c] = late[c] \cup {o}]
      /\ UNCHANGED <<outputsOf, home, label, tiling, updating, manager,
                     toldGroup, toldSpace, requests, todo, heard, orphaned>>
  BY DEF BindOutput, ReleaseOutput, MayAct, Idle
<1>2. ProtocolTypes'
  <2>1. bound' \in [Clients -> SUBSET Screens]
    <3>1. PICK os \in SUBSET Screens : bound' = [bound EXCEPT ![c] = os]
      <4>1. /\ bound[c] \cup {o} \in SUBSET Screens
            /\ bound[c] \ {o} \in SUBSET Screens
        BY DEF ProtocolTypes
      <4> QED BY <1>1, <4>1
    <3> QED BY <3>1 DEF ProtocolTypes
  <2>2. late' \in [Clients -> SUBSET (Screens \cup Groups \cup Spaces)]
    BY <1>1 DEF ProtocolTypes
  <2> QED BY <1>1, <2>1, <2>2 DEF ProtocolTypes
<1>3. /\ \A d \in Clients \ {c} : bound'[d] = bound[d] /\ late'[d] = late[d]
      /\ bound'[c] = bound[c] \cup {o} \/ bound'[c] = bound[c] \ {o}
      /\ late'[c] = late[c] \cup {o}
  BY <1>1 DEF ProtocolTypes
<1>4. manager'[c] = "bound" => Tells(c)' /\ AllDone(c)' /\ Counted(c)'
  <2> SUFFICES ASSUME manager'[c] = "bound"
               PROVE  Tells(c)' /\ AllDone(c)' /\ Counted(c)'
    OBVIOUS
  <2>1. Tells(c) /\ AllDone(c) /\ Counted(c)
    BY <1>1 DEF Settled, Bound
  <2>2. AllDone(c)' /\ Counted(c)'
    BY <1>1, <2>1 DEF AllDone, Counted, SpacesIn
  <2>3. ASSUME NEW g \in Groups, g \notin late'[c]
        PROVE  /\ toldGroup'[c][g] # None <=> outputsOf'[g] # None
               /\ toldGroup'[c][g] # None =>
                    toldGroup'[c][g].outputs \ late'[c]
                      = (outputsOf'[g] \cap bound'[c]) \ late'[c]
    <3>1. /\ toldGroup[c][g] # None <=> outputsOf[g] # None
          /\ toldGroup[c][g] # None =>
               toldGroup[c][g].outputs \ late[c]
                 = (outputsOf[g] \cap bound[c]) \ late[c]
      BY <1>3, <2>1, <2>3 DEF Tells
    <3>2. (outputsOf[g] \cap bound'[c]) \ late'[c]
            = ((outputsOf[g] \cap bound[c]) \ late[c]) \ {o}
      BY <1>3
    <3>3. toldGroup[c][g].outputs \ late'[c]
            = (toldGroup[c][g].outputs \ late[c]) \ {o}
      BY <1>3
    <3> QED BY <1>1, <3>1, <3>2, <3>3
  <2>4. ASSUME NEW w \in Spaces, w \notin late'[c]
        PROVE  /\ toldSpace'[c][w] # None <=> home'[w] # None
               /\ toldSpace'[c][w] # None =>
                    /\ toldSpace'[c][w].group = home'[w]
                    /\ toldSpace'[c][w].label = label'[w]
                    /\ toldSpace'[c][w].tiling \in {None, tiling'[w]}
    BY <1>1, <1>3, <2>1, <2>4 DEF Tells
  <2> QED BY <2>2, <2>3, <2>4 DEF Tells
<1>5. \A w \in Spaces : toldSpace'[c][w] # None =>
        home[w] # None /\ toldSpace'[c][w].group \in {None, home[w]}
  BY <1>1 DEF HandlesFollow
<1>6. manager'[c] = "none" => /\ \A w \in Spaces : toldSpace'[c][w] = None
                              /\ heard'[c] \subseteq {"group"}
  BY <1>1 DEF Strangers
<1> QED BY <1>1, <1>2, <1>3, <1>4, <1>5, <1>6, ClientStepKeeps

\* A workspace is in no group for a client that destroyed the group's handle.
LEMMA DestroyGroupHandleKeeps ==
  ASSUME ProtocolConstants, ProtocolInv, NEW c \in Clients, NEW g \in Groups,
         DestroyGroupHandle(c, g)
  PROVE  ProtocolInv'
<1> USE DEF ProtocolInv
<1> DEFINE here == {w \in Spaces : toldSpace[c][w] # None
                                     /\ toldSpace[c][w].group = g}
<1>1. /\ updating = 0
      /\ toldGroup' = [toldGroup EXCEPT ![c][g] = None]
      /\ toldSpace' = [toldSpace EXCEPT ![c] = [w \in Spaces |->
           IF toldSpace[c][w] # None /\ toldSpace[c][w].group = g
           THEN [toldSpace[c][w] EXCEPT !.group = None] ELSE toldSpace[c][w]]]
      /\ late' = [late EXCEPT ![c] = late[c] \cup {g} \cup here]
      /\ UNCHANGED <<outputsOf, home, label, tiling, updating, manager, bound,
                     requests, todo, heard, orphaned>>
  BY DEF DestroyGroupHandle, MayAct, Idle
<1>2. /\ \A d \in Clients \ {c} :
           /\ toldGroup'[d] = toldGroup[d] /\ toldSpace'[d] = toldSpace[d]
           /\ late'[d] = late[d]
      /\ \A x \in Groups : toldGroup'[c][x] = IF x = g THEN None
                                              ELSE toldGroup[c][x]
      /\ \A w \in here : toldSpace'[c][w]
                           = [toldSpace[c][w] EXCEPT !.group = None]
      /\ \A w \in Spaces \ here : toldSpace'[c][w] = toldSpace[c][w]
      /\ late'[c] = late[c] \cup {g} \cup here
  BY <1>1 DEF ProtocolTypes
<1>3. ASSUME NEW w \in here
      PROVE  toldSpace'[c][w] \in ToldSpaces /\ toldSpace'[c][w].group = None
  <2>1. toldSpace[c][w] \in ToldSpaces
    BY DEF ProtocolTypes
  <2> QED BY <1>2, <2>1 DEF ToldSpaces
<1>4. ProtocolTypes'
  <2>1. toldGroup' \in [Clients -> [Groups -> ToldGroups \cup {None}]]
    BY <1>1 DEF ProtocolTypes
  <2>2. toldSpace' \in [Clients -> [Spaces -> ToldSpaces \cup {None}]]
    <3>1. \A w \in Spaces : toldSpace'[c][w] \in ToldSpaces \cup {None}
      BY <1>2, <1>3 DEF ProtocolTypes
    <3>2. toldSpace' = [toldSpace EXCEPT ![c] = [w \in Spaces |-> toldSpace'[c][w]]]
      BY <1>1 DEF ProtocolTypes
    <3> QED BY <3>1, <3>2 DEF ProtocolTypes
  <2>3. late' \in [Clients -> SUBSET (Screens \cup Groups \cup Spaces)]
    BY <1>1 DEF ProtocolTypes
  <2> QED BY <1>1, <2>1, <2>2, <2>3 DEF ProtocolTypes
<1>5. \A w \in Spaces : toldSpace'[c][w] # None =>
        home[w] # None /\ toldSpace'[c][w].group \in {None, home[w]}
  BY <1>2, <1>3 DEF HandlesFollow
<1>6. manager'[c] = "none" => /\ \A w \in Spaces : toldSpace'[c][w] = None
                              /\ heard'[c] \subseteq {"group"}
  BY <1>1, <1>2 DEF Strangers
<1>7. manager'[c] = "bound" => Tells(c)' /\ AllDone(c)' /\ Counted(c)'
  <2> SUFFICES ASSUME manager'[c] = "bound"
               PROVE  Tells(c)' /\ AllDone(c)' /\ Counted(c)'
    OBVIOUS
  <2>1. Tells(c) /\ AllDone(c) /\ Counted(c)
    BY <1>1 DEF Settled, Bound
  <2>2. AllDone(c)'
    BY <1>1, <2>1 DEF AllDone
  <2>3. Counted(c)'
    BY <1>1, <1>2, <2>1 DEF Counted, SpacesIn
  <2>4. ASSUME NEW x \in Groups, x \notin late'[c]
        PROVE  /\ toldGroup'[c][x] # None <=> outputsOf'[x] # None
               /\ toldGroup'[c][x] # None =>
                    toldGroup'[c][x].outputs \ late'[c]
                      = (outputsOf'[x] \cap bound'[c]) \ late'[c]
    <3>1. toldGroup'[c][x] = toldGroup[c][x] /\ x \notin late[c]
      BY <1>2, <2>4
    <3>2. /\ toldGroup[c][x] # None <=> outputsOf[x] # None
          /\ toldGroup[c][x] # None =>
               toldGroup[c][x].outputs \ late[c]
                 = (outputsOf[x] \cap bound[c]) \ late[c]
      BY <2>1, <3>1 DEF Tells
    <3>3. late[c] \subseteq late'[c]
      BY <1>2
    <3> QED BY <1>1, <3>1, <3>2, <3>3
  <2>5. ASSUME NEW w \in Spaces, w \notin late'[c]
        PROVE  /\ toldSpace'[c][w] # None <=> home'[w] # None
               /\ toldSpace'[c][w] # None =>
                    /\ toldSpace'[c][w].group = home'[w]
                    /\ toldSpace'[c][w].label = label'[w]
                    /\ toldSpace'[c][w].tiling \in {None, tiling'[w]}
    <3>1. toldSpace'[c][w] = toldSpace[c][w] /\ w \notin late[c]
      BY <1>2, <2>5
    <3> QED BY <1>1, <2>1, <3>1 DEF Tells
  <2> QED BY <2>2, <2>3, <2>4, <2>5 DEF Tells
<1> QED BY <1>1, <1>2, <1>4, <1>5, <1>6, <1>7, ClientStepKeeps

\* Handles of workspaces, of the first protocol and of the second.
LEMMA SpaceHandlesKeep ==
  ASSUME ProtocolConstants, ProtocolInv, NEW c \in Clients, NEW w \in Spaces,
         \/ DestroySpaceHandle(c, w)
         \/ GetCosmicWorkspace(c, w) \/ DestroyCosmicHandle(c, w)
  PROVE  ProtocolInv'
<1> USE DEF ProtocolInv
<1>1. /\ updating = 0 /\ toldSpace[c][w] # None
      /\ UNCHANGED <<outputsOf, home, label, tiling, updating, manager, bound,
                     toldGroup, requests, todo, orphaned>>
  BY DEF DestroySpaceHandle, GetCosmicWorkspace, DestroyCosmicHandle, MayAct,
         Idle
<1>2. toldSpace[c][w] \in ToldSpaces
  BY <1>1 DEF ProtocolTypes
<1>3. \E t \in ToldSpaces \cup {None} :
        /\ toldSpace' = [toldSpace EXCEPT ![c][w] = t]
        /\ \/ t = None /\ late' = [late EXCEPT ![c] = late[c] \cup {w}]
           \/ /\ t \in ToldSpaces /\ late' = late
              /\ t.group = toldSpace[c][w].group
              /\ t.label = toldSpace[c][w].label
              /\ t.tiling \in {None, tiling[w]}
        /\ heard' = heard \/ heard' = [heard EXCEPT ![c] = {}]
  <2>1. CASE DestroySpaceHandle(c, w)
    BY <2>1 DEF DestroySpaceHandle
  <2>2. CASE GetCosmicWorkspace(c, w)
    <3> DEFINE t == [toldSpace[c][w] EXCEPT !.tiling = tiling[w]]
    <3>1. /\ t \in ToldSpaces /\ t.group = toldSpace[c][w].group
          /\ t.label = toldSpace[c][w].label /\ t.tiling = tiling[w]
      BY <1>2 DEF ToldSpaces, ProtocolTypes
    <3>2. toldSpace' = [toldSpace EXCEPT ![c][w] = t]
      BY <2>2 DEF GetCosmicWorkspace, ProtocolTypes
    <3>3. late' = late /\ heard' = [heard EXCEPT ![c] = {}]
      BY <2>2 DEF GetCosmicWorkspace
    <3> QED BY <3>1, <3>2, <3>3
  <2>3. CASE DestroyCosmicHandle(c, w)
    <3> DEFINE t == [toldSpace[c][w] EXCEPT !.tiling = None]
    <3>1. /\ t \in ToldSpaces /\ t.group = toldSpace[c][w].group
          /\ t.label = toldSpace[c][w].label /\ t.tiling = None
      BY <1>2 DEF ToldSpaces
    <3>2. toldSpace' = [toldSpace EXCEPT ![c][w] = t]
      BY <2>3 DEF DestroyCosmicHandle, ProtocolTypes
    <3>3. late' = late /\ heard' = heard
      BY <2>3 DEF DestroyCosmicHandle
    <3> QED BY <3>1, <3>2, <3>3
  <2> QED BY <2>1, <2>2, <2>3
<1>4. PICK t \in ToldSpaces \cup {None} :
        /\ toldSpace' = [toldSpace EXCEPT ![c][w] = t]
        /\ \/ t = None /\ late' = [late EXCEPT ![c] = late[c] \cup {w}]
           \/ /\ t \in ToldSpaces /\ late' = late
              /\ t.group = toldSpace[c][w].group
              /\ t.label = toldSpace[c][w].label
              /\ t.tiling \in {None, tiling[w]}
        /\ heard' = heard \/ heard' = [heard EXCEPT ![c] = {}]
  BY <1>3
<1>5. /\ \A d \in Clients \ {c} :
           /\ toldSpace'[d] = toldSpace[d] /\ late'[d] = late[d]
           /\ heard'[d] = heard[d]
      /\ toldSpace'[c][w] = t
      /\ \A x \in Spaces \ {w} : toldSpace'[c][x] = toldSpace[c][x]
  BY <1>4 DEF ProtocolTypes
<1>6. /\ heard'[c] \subseteq heard[c] /\ ("group" \in heard'[c] \/ heard'[c] = {} \/ heard'[c] = heard[c])
      /\ late[c] \subseteq late'[c] /\ (t = None => w \in late'[c])
      /\ \A x : x \in late'[c] => x \in late[c] \/ x = w
  BY <1>4 DEF ProtocolTypes, ProtocolConstants
<1>7. ProtocolTypes'
  <2>1. toldSpace' \in [Clients -> [Spaces -> ToldSpaces \cup {None}]]
    BY <1>4 DEF ProtocolTypes
  <2>2. late' \in [Clients -> SUBSET (Screens \cup Groups \cup Spaces)]
    <3>1. late' = late \/ late' = [late EXCEPT ![c] = late[c] \cup {w}]
      BY <1>4
    <3>2. late[c] \cup {w} \in SUBSET (Screens \cup Groups \cup Spaces)
      BY DEF ProtocolTypes
    <3>3. PICK s \in SUBSET (Screens \cup Groups \cup Spaces) :
            late' = late \/ late' = [late EXCEPT ![c] = s]
      BY <3>1, <3>2
    <3> QED BY <3>3 DEF ProtocolTypes
  <2>3. heard' \in [Clients -> SUBSET {"enter", "leave", "removed", "group"}]
    BY <1>4 DEF ProtocolTypes
  <2> QED BY <1>1, <2>1, <2>2, <2>3 DEF ProtocolTypes
<1>8. \A x \in Spaces : toldSpace'[c][x] # None =>
        home[x] # None /\ toldSpace'[c][x].group \in {None, home[x]}
  BY <1>1, <1>4, <1>5 DEF HandlesFollow
<1>9. manager'[c] = "none" => /\ \A x \in Spaces : toldSpace'[c][x] = None
                              /\ heard'[c] \subseteq {"group"}
  BY <1>1 DEF Strangers
<1>10. manager'[c] = "bound" => Tells(c)' /\ AllDone(c)' /\ Counted(c)'
  <2> SUFFICES ASSUME manager'[c] = "bound"
               PROVE  Tells(c)' /\ AllDone(c)' /\ Counted(c)'
    OBVIOUS
  <2>1. Tells(c) /\ AllDone(c) /\ Counted(c)
    BY <1>1 DEF Settled, Bound
  <2>2. AllDone(c)'
    BY <1>6, <2>1 DEF AllDone
  <2>3. Counted(c)'
    BY <1>1, <2>1 DEF Counted, SpacesIn
  <2>4. ASSUME NEW g \in Groups, g \notin late'[c]
        PROVE  /\ toldGroup'[c][g] # None <=> outputsOf'[g] # None
               /\ toldGroup'[c][g] # None =>
                    toldGroup'[c][g].outputs \ late'[c]
                      = (outputsOf'[g] \cap bound'[c]) \ late'[c]
    <3>1. /\ toldGroup[c][g] # None <=> outputsOf[g] # None
          /\ toldGroup[c][g] # None =>
               toldGroup[c][g].outputs \ late[c]
                 = (outputsOf[g] \cap bound[c]) \ late[c]
      BY <1>6, <2>1, <2>4 DEF Tells
    <3> QED BY <1>1, <1>6, <3>1
  <2>5. ASSUME NEW x \in Spaces, x \notin late'[c]
        PROVE  /\ toldSpace'[c][x] # None <=> home'[x] # None
               /\ toldSpace'[c][x] # None =>
                    /\ toldSpace'[c][x].group = home'[x]
                    /\ toldSpace'[c][x].label = label'[x]
                    /\ toldSpace'[c][x].tiling \in {None, tiling'[x]}
    <3>1. /\ toldSpace[c][x] # None <=> home[x] # None
          /\ toldSpace[c][x] # None =>
               /\ toldSpace[c][x].group = home[x]
               /\ toldSpace[c][x].label = label[x]
               /\ toldSpace[c][x].tiling \in {None, tiling[x]}
      BY <1>6, <2>1, <2>5 DEF Tells
    <3>2. CASE x # w
      BY <1>1, <1>5, <3>1, <3>2
    <3>3. CASE x = w
      <4>1. t # None
        BY <1>6, <2>5, <3>3
      <4> QED BY <1>1, <1>4, <1>5, <3>1, <3>3, <4>1
    <3> QED BY <3>2, <3>3
  <2> QED BY <2>2, <2>3, <2>4, <2>5 DEF Tells
<1> QED BY <1>1, <1>5, <1>7, <1>8, <1>9, <1>10, ClientStepKeeps

-----------------------------------------------------------------------------
(* The theorem.                                                             *)

LEMMA ProtocolInvInit == ProtocolConstants /\ ProtocolInit => ProtocolInv
<1> SUFFICES ASSUME ProtocolConstants, ProtocolInit
             PROVE  ProtocolInv
  OBVIOUS
<1>1. ProtocolTypes
  BY DEF ProtocolInit, ProtocolTypes, ProtocolConstants
<1>2. HomesExist /\ HandlesFollow /\ Strangers
  BY DEF ProtocolInit, HomesExist, HandlesFollow, Strangers
<1>3. Settled /\ UnderWay
  BY DEF ProtocolInit, Settled, UnderWay, Bound
<1> QED BY <1>1, <1>2, <1>3 DEF ProtocolInv

\* Every step keeps the invariant.
LEMMA ProtocolInvStep ==
  ASSUME ProtocolConstants, ProtocolInv, [ProtocolNext]_protocolVars
  PROVE  ProtocolInv'
<1>1. CASE Update \/ HandleRequest
  BY <1>1, UpdateBegins
<1>2. CASE UpdateEnds
  BY <1>2, UpdateEndsKeeps
<1>3. CASE \/ \E g \in Groups : CreateWorkspaceGroup(g)
           \/ \E g \in Groups, os \in SUBSET Screens : SetGroupOutputs(g, os)
           \/ \E w \in Spaces, g \in Groups, l \in Labels, t \in Tilings :
                CreateWorkspace(w, g, l, t)
           \/ \E w \in Spaces, l \in Labels : SetLabel(w, l)
           \/ \E w \in Spaces, t \in Tilings : SetTilingState(w, t)
  BY <1>3, QuietChangesKeep
<1>4. CASE \E g \in Groups : RemoveGroup(g)
  BY <1>4, RemoveGroupKeeps
<1>5. CASE \E w \in Spaces : RemoveWorkspace(w)
  BY <1>5, RemoveWorkspaceKeeps
<1>6. CASE \E w \in Spaces, g \in Groups : MoveWorkspaceToGroup(g, w)
  BY <1>6, MoveWorkspaceKeeps
<1>7. CASE \E c \in Clients : Bind(c)
  BY <1>7, BindKeeps
<1>8. CASE \E c \in Clients : \/ Stop(c) \/ Commit(c)
                              \/ \E r \in Requests : Request(c, r)
  BY <1>8, QuietClientsKeep
<1>9. CASE \E c \in Clients, o \in Screens :
             BindOutput(c, o) \/ ReleaseOutput(c, o)
  BY <1>9, OutputsKeep
<1>10. CASE \E c \in Clients, g \in Groups : DestroyGroupHandle(c, g)
  BY <1>10, DestroyGroupHandleKeeps
<1>11. CASE \E c \in Clients, w \in Spaces :
              \/ DestroySpaceHandle(c, w)
              \/ GetCosmicWorkspace(c, w) \/ DestroyCosmicHandle(c, w)
  BY <1>11, SpaceHandlesKeep
<1>12. CASE UNCHANGED protocolVars
  <2>1. UNCHANGED <<outputsOf, home, label, tiling, updating, manager, bound,
                    toldGroup, toldSpace, requests, todo, late, heard,
                    orphaned>>
    BY <1>12 DEF protocolVars
  <2>2. ProtocolTypes'
    BY <2>1 DEF ProtocolInv, ProtocolTypes
  <2>3. HomesExist' /\ HandlesFollow' /\ Strangers'
    BY <2>1 DEF ProtocolInv, HomesExist, HandlesFollow, Strangers
  <2>4. Settled'
    BY <2>1 DEF ProtocolInv, Settled, Bound, Tells, AllDone, Counted, SpacesIn
  <2>5. UnderWay'
    BY <2>1 DEF ProtocolInv, UnderWay, Bound, Began
  <2> QED BY <2>2, <2>3, <2>4, <2>5 DEF ProtocolInv
<1> QED BY <1>1, <1>2, <1>3, <1>4, <1>5, <1>6, <1>7, <1>8, <1>9, <1>10,
           <1>11, <1>12 DEF ProtocolNext

\* What every update leaves to be true, and what is true while one is under
\* way.
THEOREM ProtocolInvariant ==
  ProtocolSpec => []ProtocolInv
<1>1. ProtocolInit => ProtocolInv
  BY ProtocolInvInit, ProtocolAssumption
<1>2. ProtocolInv /\ [ProtocolNext]_protocolVars => ProtocolInv'
  BY ProtocolInvStep, ProtocolAssumption
<1> QED BY <1>1, <1>2, PTL DEF ProtocolSpec

\* After every update a client has been told of groups and workspaces what
\* is, and with a `done`; no group is removed before its workspaces left it
\* (WorkspaceState::done, send_group_to_client, move_workspace_to_group).
THEOREM ClientsAlwaysSeeTheWorkspaces ==
  ProtocolSpec => []ClientsSeeTheWorkspaces
<1>1. ProtocolInv => ClientsSeeTheWorkspaces
  BY DEF ProtocolInv, Settled, HandlesFollow, Idle, ClientsSeeTheWorkspaces
<1> QED BY <1>1, ProtocolInvariant, PTL
=============================================================================
