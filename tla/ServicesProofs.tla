---------------------------- MODULE ServicesProofs ----------------------------
(***************************************************************************)
(* Proofs about the parts that talk to other processes and the filter of   *)
(* input events, for any number of clients, applications, accelerators,    *)
(* keys, windows and signals.  AppBindings: who leaves quietly is          *)
(* forgotten, and a binding that was accepted answers its key, alone.      *)
(* KeyFilter: what is held is owned once.  NameOwners: what is known of    *)
(* the bus is what it says.  EventBus: no earlier loss misleads.           *)
(***************************************************************************)
EXTENDS AppBindings, KeyFilter, NameOwners, EventBus, SequenceTheorems,
        WellFoundedInduction, TLAPS

-----------------------------------------------------------------------------
(* Departures.                                                               *)

\* What is cleaned up stays so, since no call of a quiet client is left.
QuietInv ==
  \A c \in quiet :
    /\ c \in gone /\ c \notin connected /\ ~Busy(c)
    /\ watching = Services
    /\ c \notin leaving["App1"] => registry[c] = NoApp
    /\ c \notin leaving["InputManager1"] => bindings[c] = {}

DepartureTypes ==
  /\ connected \subseteq Callers /\ gone \subseteq Callers /\ quiet \subseteq Callers
  /\ connected \cap gone = {}
  /\ watching \subseteq Services
  /\ leaving \in [Services -> SUBSET Callers]
  /\ DOMAIN registering = Callers /\ DOMAIN registry = Callers
  /\ DOMAIN bindings = Callers

DepartureInv == DepartureTypes /\ QuietInv

\* Connecting, disconnecting and starting a cleanup keep the invariant.
LEMMA ConnectionsKeepIt ==
  ASSUME DepartureInv,
         \/ \E s \in Services : StartCleanup(s)
         \/ \E c \in Callers : Connect(c) \/ Disconnect(c)
  PROVE  DepartureInv'
<1>1. CASE \E s \in Services : StartCleanup(s)
  BY <1>1 DEF DepartureInv, DepartureTypes, QuietInv, StartCleanup, Busy, calls,
     stores, Services
<1>2. ASSUME NEW c \in Callers, Connect(c) PROVE DepartureInv'
  BY <1>2 DEF DepartureInv, DepartureTypes, QuietInv, Connect, Busy, calls, stores
<1>3. ASSUME NEW c \in Callers, Disconnect(c) PROVE DepartureInv'
  <2>1. /\ connected' = connected \ {c} /\ gone' = gone \cup {c} /\ c \in connected
        /\ leaving' = [s \in Services |->
                         IF s \in watching THEN leaving[s] \cup {c} ELSE leaving[s]]
        /\ quiet' = IF ~Busy(c) /\ watching = Services THEN quiet \cup {c} ELSE quiet
        /\ watching' = watching /\ registry' = registry /\ bindings' = bindings
        /\ registering' = registering /\ requests' = requests
    BY <1>3 DEF Disconnect, calls, stores
  <2>2. DepartureTypes'
    BY <2>1 DEF DepartureInv, DepartureTypes
  <2>3. ASSUME NEW d \in quiet' PROVE
          /\ d \in gone' /\ d \notin connected' /\ ~Busy(d)' /\ watching' = Services
          /\ d \notin leaving'["App1"] => registry'[d] = NoApp
          /\ d \notin leaving'["InputManager1"] => bindings'[d] = {}
    <3>1. CASE d = c /\ d \notin quiet
      BY <3>1, <2>1, <2>3 DEF Busy, Services
    <3>2. CASE d \in quiet
      BY <3>2, <2>1 DEF DepartureInv, QuietInv, Busy, Services
    <3> QED BY <3>1, <3>2, <2>1, <2>3
  <2> QED BY <2>2, <2>3 DEF DepartureInv, QuietInv
<1> QED BY <1>1, <1>2, <1>3

\* Cleaning one caller up in one service keeps the invariant.
LEMMA CleanUpKeepsIt ==
  ASSUME DepartureInv, NEW s \in Services, NEW c \in Callers, CleanUp(s, c)
  PROVE  DepartureInv'
<1>1. /\ leaving' = [leaving EXCEPT ![s] = @ \ {c}]
      /\ UNCHANGED <<connected, gone, watching, quiet, registering, requests>>
      /\ IF s = "App1" THEN CleanUpApp(c) /\ UNCHANGED bindings
                       ELSE CleanUpBindings(c) /\ UNCHANGED registry
  BY DEF CleanUp, calls
<1>2. CASE s = "App1"
  BY <1>1, <1>2 DEF DepartureInv, DepartureTypes, QuietInv, Busy, CleanUpApp, Services
<1>3. CASE s = "InputManager1"
  BY <1>1, <1>3 DEF DepartureInv, DepartureTypes, QuietInv, Busy, CleanUpBindings,
     Services
<1> QED BY <1>2, <1>3 DEF Services

\* Calls, and the steps that serve them, keep the invariant.
LEMMA CallsKeepIt ==
  ASSUME DepartureInv, NEW c \in Callers,
         \/ RegisterApp(c) \/ UnregisterApp(c) \/ Handle(c) \/ UnregisterAll(c)
         \/ \E a \in Accels : \/ UnregisterBinding(c, a)
                              \/ \E s \in Scopes, app \in Apps :
                                   CallRegister(c, Binding(a, s, app))
  PROVE  DepartureInv'
<1> USE DEF DepartureInv, DepartureTypes, QuietInv, Busy, bus, calls, stores
<1>1. CASE RegisterApp(c)
  BY <1>1 DEF RegisterApp
<1>2. CASE UnregisterApp(c)
  BY <1>2 DEF UnregisterApp
<1>3. CASE CallerPid(c)
  BY <1>3 DEF CallerPid
<1>4. CASE InsertApp(c)
  BY <1>4 DEF InsertApp
<1>5. CASE RegisterBinding(c)
  BY <1>5 DEF RegisterBinding
<1>6. CASE UnregisterAll(c)
  BY <1>6 DEF UnregisterAll
<1>7. ASSUME NEW a \in Accels, UnregisterBinding(c, a) PROVE DepartureInv'
  BY <1>7 DEF UnregisterBinding
<1>8. ASSUME NEW b, CallRegister(c, b) PROVE DepartureInv'
  BY <1>8 DEF CallRegister, Request
<1> QED BY <1>1, <1>2, <1>3, <1>4, <1>5, <1>6, <1>7, <1>8 DEF Handle

\* A client that leaves the bus with no call under way, once both cleanup tasks
\* listen, leaves neither a registration nor a binding behind, in whatever order
\* the two services handle its departure and the calls of others.
THEOREM QuietExitsAreForgotten == RegistrySpec => []QuietExitIsForgotten
<1>1. RegistryInit => DepartureInv
  BY DEF RegistryInit, DepartureInv, DepartureTypes, QuietInv
<1>2. DepartureInv /\ [RegistryNext]_appVars => DepartureInv'
  <2>1. ASSUME DepartureInv, RegistryNext PROVE DepartureInv'
    BY <2>1, ConnectionsKeepIt, CleanUpKeepsIt, CallsKeepIt DEF RegistryNext
  <2>2. ASSUME DepartureInv, UNCHANGED appVars PROVE DepartureInv'
    BY <2>2 DEF DepartureInv, DepartureTypes, QuietInv, Busy, appVars, bus, calls,
       stores
  <2> QED BY <2>1, <2>2
<1>3. DepartureInv => QuietExitIsForgotten
  BY DEF DepartureInv, QuietInv, QuietExitIsForgotten, CleanedUp, Forgotten, Services
<1> QED BY <1>1, <1>2, <1>3, PTL DEF RegistrySpec

-----------------------------------------------------------------------------
(* Bindings.                                                                 *)

Bindings == [accel : Accels, scope : Scopes, app : Apps]

\* No two clients have bindings for one accelerator of which one dominates the
\* other, and a client has bindings of its own application only, where they
\* depend on the focus.
AloneInv ==
  \A c \in Callers : \A b \in bindings[c] :
    /\ b.scope = "app_focused" => b.app = AppOf[c]
    /\ \A d \in Callers \ {c} : \A e \in bindings[d] :
         b.accel = e.accel => ~Dominates(b, e)

BindingTypes ==
  /\ bindings \in [Callers -> SUBSET Bindings]
  /\ DOMAIN registry = Callers
  /\ \A c \in Callers : registry[c] \in {NoApp, AppOf[c]}
  /\ \A r \in requests : r.binding \in Bindings

BindingInv == BindingTypes /\ AloneInv

\* Taking bindings away cannot make two of them clash.
LEMMA Fewer ==
  ASSUME BindingInv, BindingTypes', \A c \in Callers : bindings'[c] \subseteq bindings[c]
  PROVE  BindingInv'
BY DEF BindingInv, AloneInv, Dominates

\* The one step that adds a binding refuses one that clashes.
LEMMA RegisterBindingKeepsIt ==
  ASSUME BindingInv, NEW c \in Callers, RegisterBinding(c)
  PROVE  BindingInv'
<1>1. PICK r \in requests :
        /\ requests' = requests \ {r}
        /\ bindings' = IF MayRegister(c, r.binding) /\ ~Conflicts(r.binding)
                       THEN [bindings EXCEPT ![c] = @ \cup {r.binding}]
                       ELSE bindings
        /\ registry' = registry
  BY DEF RegisterBinding
<1>2. BindingTypes'
  BY <1>1 DEF BindingInv, BindingTypes
<1>3. CASE ~(MayRegister(c, r.binding) /\ ~Conflicts(r.binding))
  BY <1>1, <1>2, <1>3, Fewer
<1>4. CASE MayRegister(c, r.binding) /\ ~Conflicts(r.binding)
  <2> DEFINE b == r.binding
  <2>1. /\ bindings'[c] = bindings[c] \cup {b}
        /\ \A d \in Callers \ {c} : bindings'[d] = bindings[d]
    BY <1>1, <1>4 DEF BindingInv, BindingTypes
  <2>2. b \in Bindings /\ (b.scope = "app_focused" => b.app = AppOf[c])
    BY <1>4 DEF MayRegister, BindingInv, BindingTypes
  <2>3. \A d \in Callers : \A e \in bindings[d] :
          e.accel = b.accel => ~Dominates(e, b) /\ ~Dominates(b, e)
    BY <1>4 DEF Conflicts, Dominates
  <2>4. AloneInv'
    BY <2>1, <2>2, <2>3 DEF AloneInv, BindingInv, Dominates
  <2> QED BY <1>2, <2>4 DEF BindingInv
<1> QED BY <1>3, <1>4

\* Every other step of the registry only takes bindings away.
LEMMA RestKeepsIt ==
  ASSUME BindingInv, RegistryNext, \A c \in Callers : ~RegisterBinding(c)
  PROVE  BindingInv'
<1> USE DEF BindingInv, BindingTypes, bus, calls, stores
<1>1. ASSUME NEW s \in Services, StartCleanup(s) PROVE BindingInv'
  BY <1>1, Fewer DEF StartCleanup
<1>2. ASSUME NEW s \in Services, NEW c \in Callers, CleanUp(s, c) PROVE BindingInv'
  <2>1. BindingTypes'
    BY <1>2 DEF CleanUp, CleanUpApp, CleanUpBindings
  <2> QED BY <1>2, <2>1, Fewer DEF CleanUp, CleanUpApp, CleanUpBindings
<1>3. ASSUME NEW c \in Callers,
             Connect(c) \/ Disconnect(c) \/ RegisterApp(c) \/ CallerPid(c)
      PROVE  BindingInv'
  BY <1>3, Fewer DEF Connect, Disconnect, RegisterApp, CallerPid
<1>4. ASSUME NEW c \in Callers, UnregisterApp(c) \/ InsertApp(c)
      PROVE  BindingInv'
  BY <1>4, Fewer DEF UnregisterApp, InsertApp
<1>5. ASSUME NEW c \in Callers, UnregisterAll(c) PROVE BindingInv'
  BY <1>5, Fewer DEF UnregisterAll
<1>6. ASSUME NEW c \in Callers, NEW a \in Accels, UnregisterBinding(c, a)
      PROVE  BindingInv'
  BY <1>6, Fewer DEF UnregisterBinding
<1>7. ASSUME NEW c \in Callers, NEW a \in Accels, NEW s \in Scopes, NEW app \in Apps,
             CallRegister(c, Binding(a, s, app))
      PROVE  BindingInv'
  BY <1>7, Fewer DEF CallRegister, Request, Binding, Bindings
<1> QED BY <1>1, <1>2, <1>3, <1>4, <1>5, <1>6, <1>7 DEF RegistryNext, Handle

\* No two applications ever hold bindings that clash.
LEMMA BindingInvariant == RegistrySpec => []BindingInv
<1>1. RegistryInit => BindingInv
  BY DEF RegistryInit, BindingInv, BindingTypes, AloneInv
<1>2. BindingInv /\ [RegistryNext]_appVars => BindingInv'
  <2>1. ASSUME BindingInv, RegistryNext PROVE BindingInv'
    BY <2>1, RegisterBindingKeepsIt, RestKeepsIt
  <2>2. ASSUME BindingInv, UNCHANGED appVars PROVE BindingInv'
    BY <2>2 DEF BindingInv, BindingTypes, AloneInv, appVars, stores, calls
  <2> QED BY <2>1, <2>2
<1> QED BY <1>1, <1>2, PTL DEF RegistrySpec

\* What AloneInv means to the key filter, if different accelerators are
\* different keys (find_conflicts compares the strings).
LEMMA AloneAnswers ==
  ASSUME BindingInv, \A x, y \in Accels : ParsedKey[x] = ParsedKey[y] => x = y
  PROVE  BindingsAnswer
<1> SUFFICES ASSUME NEW c \in Callers, NEW b \in bindings[c]
             PROVE  /\ ParsedKey[b.accel] \notin UserKeys =>
                         Resolve(ParsedKey[b.accel], b.app) = {c}
                    /\ b.scope = "app_focused" => b.app = AppOf[c]
  BY DEF BindingsAnswer
<1>1. \A d \in Callers : \A e \in bindings[d] :
        /\ b \in Bindings /\ e \in Bindings
        /\ ParsedKey[e.accel] = ParsedKey[b.accel] /\ d # c => ~Dominates(b, e)
  BY DEF BindingInv, BindingTypes, AloneInv, Bindings
<1>2. ASSUME ParsedKey[b.accel] \notin UserKeys
      PROVE  Resolve(ParsedKey[b.accel], b.app) = {c}
  <2> DEFINE Wide == Matching(ParsedKey[b.accel], "app_global", b.app)
             Narrow == Matching(ParsedKey[b.accel], "app_focused", b.app)
  <2>1. Wide \subseteq {c}
    BY <1>1 DEF Matching, Dominates
  <2>2. Narrow \subseteq {c} \/ b.scope = "app_global"
    BY <1>1 DEF Matching, Dominates, Bindings, Scopes
  <2>3. b.scope = "app_global" => c \in Wide
    BY DEF Matching
  <2>4. b.scope = "app_focused" => c \in Narrow
    BY DEF Matching
  <2>5. b.scope \in {"app_global", "app_focused"}
    BY <1>1 DEF Bindings, Scopes
  <2> QED BY <1>2, <2>1, <2>2, <2>3, <2>4, <2>5 DEF Resolve
<1> QED BY <1>2 DEF BindingInv, AloneInv

\* A binding that was accepted answers its key, and alone, whatever clients
\* register, leave and are cleaned up meanwhile, if no two accelerators spell the
\* same key.
THEOREM BindingsAlwaysAnswer ==
  ASSUME \A x, y \in Accels : ParsedKey[x] = ParsedKey[y] => x = y
  PROVE  RegistrySpec => []BindingsAnswer
<1>1. BindingInv => BindingsAnswer
  BY AloneAnswers
<1> QED BY <1>1, BindingInvariant, PTL

-----------------------------------------------------------------------------
FilterTypes ==
  /\ held \in [Sources -> SUBSET Keys] /\ suppressed \in [Sources -> SUBSET Keys]
  /\ forwarded \subseteq Keys /\ strayed \subseteq Keys
  /\ repeating \subseteq [source : Sources, key : Keys]
  /\ buttonsHeld \in [Sources -> SUBSET Buttons]
  /\ suppressedButtons \in [Sources -> SUBSET Buttons] /\ passed \subseteq Buttons
  /\ resizeMode \in BOOLEAN /\ resizing \in BOOLEAN /\ late \in BOOLEAN
  /\ locked \in BOOLEAN

\* Smithay counts what several sources hold: here, one at a time does.
OneHolder ==
  \A s, t \in Sources : s # t => /\ held[s] \cap held[t] = {}
                                 /\ buttonsHeld[s] \cap buttonsHeld[t] = {}

KeysOwned ==
  /\ \A k \in Keys \ strayed :
       k \in forwarded <=> \E s \in Sources : k \in held[s] /\ k \notin suppressed[s]
  /\ \A s \in Sources : suppressed[s] \subseteq held[s]

ButtonsOwned ==
  /\ \A b \in Buttons :
       b \in passed <=> \E s \in Sources : b \in buttonsHeld[s] \ suppressedButtons[s]
  /\ \A s \in Sources : suppressedButtons[s] \subseteq buttonsHeld[s]

RepeatsOwned ==
  \A r \in repeating : r.key \in suppressed[r.source] \/ r.source \in departed

ResizeOwned == resizing => resizeMode \/ late

FilterInv == /\ FilterTypes /\ OneHolder
             /\ KeysOwned /\ ButtonsOwned /\ RepeatsOwned /\ ResizeOwned

-----------------------------------------------------------------------------
(* Resize mode.                                                              *)

LEMMA LeaveOwned ==
  ASSUME FilterTypes, ResizeOwned, NEW lasts \in BOOLEAN, Leave(lasts)
  PROVE  ResizeOwned' /\ resizeMode' \in BOOLEAN /\ resizing' \in BOOLEAN /\ late' \in BOOLEAN
BY DEF FilterTypes, ResizeOwned, Leave

\* The two actions of resizing keep the owner the filter relies on.
LEMMA ActionsOwned ==
  ASSUME FilterTypes, ResizeOwned, ResizeAction \/ FinishAction
  PROVE  ResizeOwned' /\ resizeMode' \in BOOLEAN /\ resizing' \in BOOLEAN /\ late' \in BOOLEAN
BY DEF FilterTypes, ResizeOwned, ResizeAction, FinishAction

\* Whether a mode lasts is a Boolean.
LEMMA LastsType == \A k, d : resizeMode \in BOOLEAN => Lasts(k, d) \in BOOLEAN
BY DEF Lasts

-----------------------------------------------------------------------------
(* Keys.                                                                     *)

LEMMA PressKeyOwned ==
  ASSUME FilterInv, NEW s \in Sources, NEW k \in Keys, PressKey(s, k)
  PROVE  FilterInv'
<1> DEFINE verdict == PressVerdict(k)
<1>1. /\ s \notin departed /\ \A t \in Sources : k \notin held[t]
      /\ held' = [held EXCEPT ![s] = @ \cup {k}]
      /\ UNCHANGED <<buttonVars, worldVars, departed>>
      /\ IF verdict = "forward" THEN PressIsForwarded(s, k)
         ELSE /\ Suppress(s, k)
              /\ CASE verdict = "resize" -> PressResizes(s, k)
                   [] verdict = "escape" -> PressEscapes(s, k)
                   [] OTHER -> PressIsTaken(s, k, verdict)
              /\ UNCHANGED <<forwarded, strayed>>
  BY DEF PressKey
<1>2. /\ held' \in [Sources -> SUBSET Keys] /\ OneHolder' /\ ButtonsOwned'
      /\ locked' \in BOOLEAN /\ buttonsHeld' \in [Sources -> SUBSET Buttons]
      /\ suppressedButtons' \in [Sources -> SUBSET Buttons] /\ passed' \subseteq Buttons
  BY <1>1 DEF FilterInv, FilterTypes, OneHolder, ButtonsOwned, buttonVars, worldVars
<1>3. Lasts(k, TRUE) \in BOOLEAN
  BY LastsType DEF FilterInv, FilterTypes
<1>4. CASE verdict = "forward"
  <2>1. /\ forwarded' = forwarded \cup {k} /\ strayed' = strayed \ {k}
        /\ suppressed' = suppressed /\ repeating' = repeating /\ Leave(Lasts(k, TRUE))
    BY <1>1, <1>4 DEF PressIsForwarded
  <2>2. ResizeOwned' /\ resizeMode' \in BOOLEAN /\ resizing' \in BOOLEAN /\ late' \in BOOLEAN
    BY <2>1, <1>3, LeaveOwned DEF FilterInv
  <2>3. KeysOwned' /\ RepeatsOwned'
    BY <2>1, <1>1 DEF FilterInv, FilterTypes, KeysOwned, RepeatsOwned
  <2>4. FilterTypes'
    BY <1>2, <2>1, <2>2 DEF FilterInv, FilterTypes
  <2> QED BY <1>2, <2>2, <2>3, <2>4 DEF FilterInv
<1>5. CASE verdict # "forward"
  <2>1. /\ suppressed' = [suppressed EXCEPT ![s] = @ \cup {k}]
        /\ forwarded' = forwarded /\ strayed' = strayed
        /\ PressResizes(s, k) \/ PressEscapes(s, k) \/ PressIsTaken(s, k, verdict)
    BY <1>1, <1>5 DEF Suppress
  <2>2. ResizeOwned' /\ resizeMode' \in BOOLEAN /\ resizing' \in BOOLEAN /\ late' \in BOOLEAN
    <3>1. CASE PressResizes(s, k)
      BY <3>1, ActionsOwned DEF PressResizes, FilterInv
    <3>2. CASE PressEscapes(s, k)
      BY <3>2, <1>3, LeaveOwned DEF PressEscapes, FilterInv
    <3>3. CASE PressIsTaken(s, k, verdict)
      BY <3>3, <1>3, LeaveOwned DEF PressIsTaken, FilterInv, FilterTypes, ResizeOwned
    <3> QED BY <2>1, <3>1, <3>2, <3>3
  <2>3. repeating' = repeating \/ repeating' = repeating \cup {Repeat(s, k)}
    BY <2>1 DEF PressResizes, PressEscapes, PressIsTaken
  <2>4. KeysOwned'
    BY <2>1, <1>1 DEF FilterInv, FilterTypes, KeysOwned
  <2>5. RepeatsOwned'
    BY <2>1, <2>3, <1>1 DEF FilterInv, FilterTypes, RepeatsOwned, Repeat
  <2>6. FilterTypes'
    BY <1>2, <2>1, <2>2, <2>3 DEF FilterInv, FilterTypes, Repeat
  <2> QED BY <1>2, <2>2, <2>4, <2>5, <2>6 DEF FilterInv
<1> QED BY <1>4, <1>5

\* Releasing a key keeps the invariant, whether or not it ends the mode.
LEMMA ReleaseKeyOwned ==
  ASSUME FilterInv, NEW s \in Sources, NEW k \in Keys, ReleaseKey(s, k)
  PROVE  FilterInv'
<1>1. /\ k \in held[s] /\ held' = [held EXCEPT ![s] = @ \ {k}]
      /\ UNCHANGED <<buttonVars, worldVars, departed>>
      /\ ReleaseResizes(s, k) \/ ReleaseIsSkipped(s, k) \/ ReleaseIsForwarded(s, k)
  BY DEF ReleaseKey
<1>2. /\ held' \in [Sources -> SUBSET Keys] /\ OneHolder' /\ ButtonsOwned'
      /\ locked' \in BOOLEAN /\ buttonsHeld' \in [Sources -> SUBSET Buttons]
      /\ suppressedButtons' \in [Sources -> SUBSET Buttons] /\ passed' \subseteq Buttons
      /\ \A t \in Sources : k \notin held'[t]
  BY <1>1 DEF FilterInv, FilterTypes, OneHolder, ButtonsOwned, buttonVars, worldVars
<1>3. Lasts(k, FALSE) \in BOOLEAN
  BY LastsType DEF FilterInv, FilterTypes
<1>4. ResizeOwned' /\ resizeMode' \in BOOLEAN /\ resizing' \in BOOLEAN /\ late' \in BOOLEAN
  BY <1>1, <1>3, LeaveOwned, ActionsOwned
     DEF FilterInv, ReleaseResizes, ReleaseIsSkipped, ReleaseIsForwarded
<1>5. CASE ReleaseResizes(s, k) \/ ReleaseIsSkipped(s, k)
  <2>1. /\ suppressed' = [suppressed EXCEPT ![s] = @ \ {k}]
        /\ repeating' = repeating \ {Repeat(s, k)} /\ forwarded' = forwarded
        /\ \/ strayed' = strayed \cup {k}
           \/ strayed' = strayed /\ (k \in suppressed[s] \/ k \notin forwarded)
    BY <1>5 DEF ReleaseResizes, ReleaseIsSkipped, Unsuppress
  <2>2. k \in suppressed[s] => k \in strayed \/ k \notin forwarded
    BY <1>1 DEF FilterInv, KeysOwned, OneHolder
  <2>3. KeysOwned'
    BY <1>1, <1>2, <2>1, <2>2 DEF FilterInv, FilterTypes, KeysOwned
  <2>4. RepeatsOwned'
    BY <1>1, <2>1 DEF FilterInv, FilterTypes, RepeatsOwned, Repeat
  <2>5. FilterTypes'
    BY <1>2, <1>4, <2>1 DEF FilterInv, FilterTypes
  <2> QED BY <1>2, <1>4, <2>3, <2>4, <2>5 DEF FilterInv
<1>6. CASE ReleaseIsForwarded(s, k)
  <2>1. /\ suppressed' = suppressed /\ repeating' = repeating /\ k \notin suppressed[s]
        /\ forwarded' = forwarded \ {k} /\ strayed' = strayed \ {k}
    BY <1>6 DEF ReleaseIsForwarded
  <2>2. KeysOwned' /\ RepeatsOwned'
    BY <1>1, <1>2, <2>1 DEF FilterInv, FilterTypes, KeysOwned, RepeatsOwned
  <2>3. FilterTypes'
    BY <1>2, <1>4, <2>1 DEF FilterInv, FilterTypes
  <2> QED BY <1>2, <1>4, <2>2, <2>3 DEF FilterInv
<1> QED BY <1>1, <1>5, <1>6

-----------------------------------------------------------------------------
(* Buttons, and the rest.                                                    *)

LEMMA ButtonsKeepIt ==
  ASSUME FilterInv, NEW s \in Sources, NEW b \in Buttons,
         PressButton(s, b) \/ ReleaseButton(s, b)
  PROVE  FilterInv'
<1>1. /\ UNCHANGED <<keyVars, resizeMode, resizing, late, worldVars, departed, strayed>>
  BY DEF PressButton, ReleaseButton, modeVars
<1>2. KeysOwned' /\ RepeatsOwned' /\ ResizeOwned'
  BY <1>1 DEF FilterInv, KeysOwned, RepeatsOwned, ResizeOwned, keyVars
<1>3. CASE PressButton(s, b)
  <2>1. /\ \A t \in Sources : b \notin buttonsHeld[t]
        /\ buttonsHeld' = [buttonsHeld EXCEPT ![s] = @ \cup {b}]
        /\ \/ /\ suppressedButtons' = [suppressedButtons EXCEPT ![s] = @ \cup {b}]
              /\ passed' = passed
           \/ /\ suppressedButtons' = [suppressedButtons EXCEPT ![s] = @ \ {b}]
              /\ passed' = IF b \in suppressedButtons[s] THEN passed ELSE passed \cup {b}
    BY <1>3 DEF PressButton
  <2>2. b \notin suppressedButtons[s]
    BY <2>1 DEF FilterInv, ButtonsOwned
  <2>3. FilterTypes' /\ OneHolder'
    BY <1>1, <2>1, <2>2 DEF FilterInv, FilterTypes, OneHolder, keyVars, worldVars
  <2>4. ButtonsOwned'
    BY <2>1, <2>2 DEF FilterInv, FilterTypes, ButtonsOwned
  <2> QED BY <1>2, <2>3, <2>4 DEF FilterInv
<1>4. CASE ReleaseButton(s, b)
  <2>1. /\ b \in buttonsHeld[s]
        /\ buttonsHeld' = [buttonsHeld EXCEPT ![s] = @ \ {b}]
        /\ suppressedButtons' = [suppressedButtons EXCEPT ![s] = @ \ {b}]
        /\ passed' = IF b \in suppressedButtons[s] THEN passed ELSE passed \ {b}
    BY <1>4 DEF ReleaseButton
  <2>2. b \in suppressedButtons[s] => b \notin passed
    BY <2>1 DEF FilterInv, ButtonsOwned, OneHolder
  <2>3. FilterTypes' /\ OneHolder'
    BY <1>1, <2>1 DEF FilterInv, FilterTypes, OneHolder, keyVars, worldVars
  <2>4. \A t \in Sources : b \notin buttonsHeld'[t]
    BY <2>1 DEF FilterInv, FilterTypes, OneHolder
  <2>5. ButtonsOwned'
    BY <2>1, <2>2, <2>4 DEF FilterInv, FilterTypes, ButtonsOwned
  <2> QED BY <1>2, <2>3, <2>5 DEF FilterInv
<1> QED BY <1>3, <1>4

\* A client of emulated input that goes away gives back what it held.
LEMMA EndOfConnectionKeepsIt ==
  ASSUME FilterInv, NEW s \in Sources, EiDisconnected(s)
  PROVE  FilterInv'
<1>1. /\ departed' = departed \cup {s} /\ held' = [held EXCEPT ![s] = {}]
      /\ forwarded' = forwarded \ held[s] /\ strayed' = strayed \ held[s]
      /\ buttonsHeld' = [buttonsHeld EXCEPT ![s] = {}]
      /\ passed' = passed \ buttonsHeld[s]
      /\ suppressed' = [suppressed EXCEPT ![s] = {}]
      /\ suppressedButtons' = [suppressedButtons EXCEPT ![s] = {}]
      /\ repeating' = repeating /\ UNCHANGED <<modeVars, worldVars>>
  BY DEF EiDisconnected, Forget
<1>2. FilterTypes' /\ OneHolder' /\ ResizeOwned'
  BY <1>1 DEF FilterInv, FilterTypes, OneHolder, ResizeOwned, modeVars, worldVars
<1>3. KeysOwned'
  BY <1>1 DEF FilterInv, FilterTypes, KeysOwned, OneHolder
<1>4. ButtonsOwned'
  BY <1>1 DEF FilterInv, FilterTypes, ButtonsOwned, OneHolder
<1>5. RepeatsOwned'
  BY <1>1 DEF FilterInv, FilterTypes, RepeatsOwned
<1> QED BY <1>2, <1>3, <1>4, <1>5 DEF FilterInv

\* The filter's remaining steps keep the invariant.
LEMMA OthersKeepIt ==
  ASSUME FilterInv,
         \/ \E s \in Sources : BeginGrab(s)
         \/ RepeatFires \/ WorldChanges \/ UNCHANGED filterVars
  PROVE  FilterInv'
<1> USE DEF FilterTypes, OneHolder, KeysOwned, ButtonsOwned, RepeatsOwned, keyVars,
            buttonVars, worldVars
<1>1. CASE \E s \in Sources : BeginGrab(s)
  BY <1>1 DEF BeginGrab, FilterInv, ResizeOwned
<1>2. CASE RepeatFires
  <2>1. ResizeOwned' /\ resizeMode' \in BOOLEAN /\ resizing' \in BOOLEAN /\ late' \in BOOLEAN
    BY <1>2, ActionsOwned DEF RepeatFires, FilterInv
  <2> QED BY <1>2, <2>1 DEF RepeatFires, FilterInv
<1>3. CASE WorldChanges
  BY <1>3 DEF WorldChanges, FilterInv, ResizeOwned, modeVars
<1>4. CASE UNCHANGED filterVars
  BY <1>4 DEF filterVars, FilterInv, ResizeOwned, modeVars
<1> QED BY <1>1, <1>2, <1>3, <1>4

\* From its press to its release a key or button belongs either to clients or to
\* the compositor, and a repeat to a key that is held, but for the two ways the
\* property names.
THEOREM HeldIsAlwaysOwnedOnce == FilterSpec => []HeldIsOwnedOnce
<1>1. FilterInit => FilterInv
  BY DEF FilterInit, FilterInv, FilterTypes, OneHolder, KeysOwned, ButtonsOwned, RepeatsOwned,
     ResizeOwned
<1>2. FilterInv /\ [FilterNext]_filterVars => FilterInv'
  BY PressKeyOwned, ReleaseKeyOwned, ButtonsKeepIt, EndOfConnectionKeepsIt, OthersKeepIt
     DEF FilterNext
<1>3. FilterInv => HeldIsOwnedOnce
  BY DEF FilterInv, KeysOwned, ButtonsOwned, RepeatsOwned, ResizeOwned, HeldIsOwnedOnce,
     HoldersOf
<1> QED BY <1>1, <1>2, <1>3, PTL DEF FilterSpec

-----------------------------------------------------------------------------
(* Natural numbers: induction, and the largest of some indices.              *)

\* Induction over the natural numbers, for a set.
LEMMA Induction ==
  ASSUME NEW S, 0 \in S, \A n \in Nat : n \in S => n + 1 \in S
  PROVE  Nat \subseteq S
<1> DEFINE T == Nat \ S
<1>1. SUFFICES ASSUME T # {} PROVE FALSE
  BY <1>1
<1>2. PICK x \in T : \A y \in T : <<y, x>> \notin OpToRel(<, Nat)
  BY <1>1, WFMin, NatLessThanWellFounded
<1>3. x # 0 /\ x - 1 \in Nat /\ x - 1 < x
  OBVIOUS
<1>4. <<x - 1, x>> \in OpToRel(<, Nat)
  BY <1>3 DEF OpToRel
<1>5. x - 1 \in S
  BY <1>2, <1>3, <1>4
<1>. QED
  BY <1>3, <1>5

\* The last of some indices of a sequence is one of them.
LEMMA LastIndex ==
  ASSUME NEW n \in Nat, NEW S, S \subseteq 1..n, S # {}
  PROVE  /\ Max(S) \in S
         /\ \A i \in S : i <= Max(S)
<1> DEFINE Good == {k \in Nat : \A R \in SUBSET (1..k) :
                      R # {} => \E m \in R : \A i \in R : m >= i}
<1>1. 0 \in Good
  <2>1. \A R \in SUBSET (1..0) : R = {}
    <3>1. 1..0 = {}
      OBVIOUS
    <3>. QED
      BY <3>1
  <2>. QED
    BY <2>1
<1>2. ASSUME NEW k \in Nat, k \in Good PROVE k + 1 \in Good
  <2> SUFFICES ASSUME NEW R \in SUBSET (1..(k + 1)), R # {}
               PROVE  \E m \in R : \A i \in R : m >= i
    OBVIOUS
  <2>1. CASE k + 1 \in R
    BY <2>1
  <2>2. CASE k + 1 \notin R
    <3>1. R \in SUBSET (1..k)
      BY <2>2
    <3>. QED
      BY <1>2, <3>1
  <2>. QED
    BY <2>1, <2>2
<1>3. n \in Good
  <2>. HIDE DEF Good
  <2>. QED
    BY <1>1, <1>2, Induction
<1>4. \E m \in S : \A i \in S : m >= i
  BY <1>3
<1>5. Max(S) \in S /\ \A i \in S : Max(S) >= i
  BY <1>4, Zenon DEF Max
<1>. QED
  BY <1>5

\* An index larger than all others is the last.
LEMMA IsLastIndex ==
  ASSUME NEW n \in Nat, NEW S, S \subseteq 1..n, NEW m \in S, \A i \in S : i <= m
  PROVE  Max(S) = m
<1>1. Max(S) \in S /\ \A i \in S : i <= Max(S)
  BY LastIndex
<1>2. Max(S) <= m /\ m <= Max(S)
  BY <1>1
<1>3. Max(S) \in 1..n /\ m \in 1..n
  BY <1>1
<1>. QED
  BY <1>2, <1>3

-----------------------------------------------------------------------------
(* What the stream tells.                                                    *)

Signals == [kind : {"unique"}, name : Clients, here : BOOLEAN]
           \cup [kind : {"owner"}, owner : Clients \cup {NoOwner}]

\* The last signals about a client and about the owner
SaysHere(s, c) == s[Max(ClientNews(s, c))].here
SaysOwner(s) == s[Max(OwnerNews(s))].owner

\* A signal that comes last is the last about its name, and about no other.
LEMMA SignalIsNews ==
  ASSUME NEW s \in Seq(Signals), NEW e \in Signals
  PROVE  LET t == Append(s, e) IN
         /\ e.kind = "owner" => OwnerNews(t) # {} /\ SaysOwner(t) = e.owner
         /\ e.kind = "unique" => OwnerNews(t) = OwnerNews(s)
         /\ e.kind = "unique" /\ OwnerNews(s) # {} => SaysOwner(t) = SaysOwner(s)
         /\ \A c : e.kind = "unique" /\ e.name = c
                   => ClientNews(t, c) # {} /\ SaysHere(t, c) = e.here
         /\ \A c : e.kind = "owner" \/ e.name # c
                   => /\ ClientNews(t, c) = ClientNews(s, c)
                      /\ ClientNews(s, c) # {} => SaysHere(t, c) = SaysHere(s, c)
<1> DEFINE t == Append(s, e)
           n == Len(s) + 1
<1>1. /\ t \in Seq(Signals) /\ DOMAIN t = 1..n /\ DOMAIN s = 1..Len(s)
      /\ Len(s) \in Nat /\ n \in Nat /\ t[n] = e
      /\ \A i \in 1..Len(s) : t[i] = s[i]
  OBVIOUS
<1>. HIDE DEF t
<1>2. ASSUME e.kind = "owner" PROVE OwnerNews(t) # {} /\ SaysOwner(t) = e.owner
  <2>1. n \in OwnerNews(t) /\ OwnerNews(t) \subseteq 1..n
    BY <1>1, <1>2 DEF OwnerNews
  <2>2. Max(OwnerNews(t)) = n
    BY <1>1, <2>1, IsLastIndex
  <2>. QED
    BY <1>1, <2>1, <2>2 DEF SaysOwner
<1>3. ASSUME e.kind = "unique"
      PROVE  /\ OwnerNews(t) = OwnerNews(s)
             /\ OwnerNews(s) # {} => SaysOwner(t) = SaysOwner(s)
  <2>1. OwnerNews(t) = OwnerNews(s) /\ OwnerNews(s) \subseteq 1..Len(s)
    BY <1>1, <1>3 DEF OwnerNews
  <2>2. OwnerNews(s) # {} => Max(OwnerNews(s)) \in 1..Len(s)
    BY <1>1, <2>1, LastIndex
  <2>. QED
    BY <1>1, <2>1, <2>2 DEF SaysOwner
<1>4. ASSUME NEW c, e.kind = "unique", e.name = c
      PROVE  ClientNews(t, c) # {} /\ SaysHere(t, c) = e.here
  <2>1. n \in ClientNews(t, c) /\ ClientNews(t, c) \subseteq 1..n
    BY <1>1, <1>4 DEF ClientNews
  <2>2. Max(ClientNews(t, c)) = n
    BY <1>1, <2>1, IsLastIndex
  <2>. QED
    BY <1>1, <2>1, <2>2 DEF SaysHere
<1>5. ASSUME NEW c, e.kind = "owner" \/ e.name # c
      PROVE  /\ ClientNews(t, c) = ClientNews(s, c)
             /\ ClientNews(s, c) # {} => SaysHere(t, c) = SaysHere(s, c)
  <2>1. ClientNews(t, c) = ClientNews(s, c) /\ ClientNews(s, c) \subseteq 1..Len(s)
    BY <1>1, <1>5 DEF ClientNews
  <2>2. ClientNews(s, c) # {} => Max(ClientNews(s, c)) \in 1..Len(s)
    BY <1>1, <2>1, LastIndex
  <2>. QED
    BY <1>1, <2>1, <2>2 DEF SaysHere
<1>. QED
  BY <1>2, <1>3, <1>4, <1>5 DEF t

-----------------------------------------------------------------------------
(* The inductive invariant.                                                  *)

NamesTypes ==
  /\ onBus \subseteq Clients /\ busOwner \in Clients \cup {NoOwner}
  /\ phase \in {"starting", "subscribed", "ready"}
  /\ stream \in Seq(Signals) /\ (phase = "starting" => stream = <<>>)
  /\ uniqueNames \subseteq Clients
  /\ DOMAIN call = Clients

\* Since the subscription, the last signal about each name is right ...
StreamIsRight(s, here, owner) ==
  /\ \A c \in Clients : ClientNews(s, c) # {} => (SaysHere(s, c) <=> c \in here)
  /\ OwnerNews(s) # {} => SaysOwner(s) = owner

\* ... and since the list of names, what is known of the others.
KnownIsRight(s, here, owner, names, entry) ==
  /\ \A c \in Clients : ClientNews(s, c) = {} => (c \in names <=> c \in here)
  /\ OwnerNews(s) = {} => \/ entry = EntryOf(owner)
                          \/ entry = Unknown /\ owner # NoOwner

\* An answer on its way is right, unless there are news of the owner.
AnswersAreRight ==
  \A c \in Clients :
    /\ call[c].at # "idle" => phase = "ready"
    /\ call[c].at = "answered" /\ nameOwner = Unknown /\ OwnerNews(stream) = {}
       => call[c].owner = busOwner

NamesInv ==
  /\ NamesTypes /\ AnswersAreRight
  /\ phase # "starting" => StreamIsRight(stream, onBus, busOwner)
  /\ phase = "ready" => KnownIsRight(stream, onBus, busOwner, uniqueNames, nameOwner)

\* What is read is what the bus says.
LEMMA ReadingIsRight ==
  ASSUME NamesInv, phase = "ready"
  PROVE  /\ NamesRead = onBus
         /\ OwnerRead = EntryOf(busOwner) \/ (OwnerRead = Unknown /\ busOwner # NoOwner)
<1>1. \A c \in Clients : c \in NamesRead <=> c \in onBus
  BY DEF NamesRead, NamesInv, StreamIsRight, KnownIsRight, SaysHere
<1>2. NamesRead = onBus
  BY <1>1 DEF NamesInv, NamesTypes, NamesRead
<1>3. OwnerRead = EntryOf(busOwner) \/ (OwnerRead = Unknown /\ busOwner # NoOwner)
  BY DEF OwnerRead, NamesInv, StreamIsRight, KnownIsRight, SaysOwner
<1>. QED
  BY <1>2, <1>3

-----------------------------------------------------------------------------
(* The bus.                                                                  *)

\* A client joins or leaves the bus, and the stream tells.
LEMMA ClientSignal ==
  ASSUME NEW s \in Seq(Signals), NEW e \in Signals, e.kind = "unique",
         NEW on, NEW now, \A x \in Clients : x # e.name => (x \in now <=> x \in on),
         e.here <=> e.name \in now,
         NEW owner, NEW names, NEW entry, NEW t, t = Append(s, e)
  PROVE  /\ t \in Seq(Signals) /\ OwnerNews(t) = OwnerNews(s)
         /\ StreamIsRight(s, on, owner) => StreamIsRight(t, now, owner)
         /\ KnownIsRight(s, on, owner, names, entry)
              => KnownIsRight(t, now, owner, names, entry)
<1>1. t \in Seq(Signals)
  OBVIOUS
<1>2. OwnerNews(t) = OwnerNews(s) /\ (OwnerNews(s) # {} => SaysOwner(t) = SaysOwner(s))
  BY SignalIsNews
<1>3. ClientNews(t, e.name) # {} /\ SaysHere(t, e.name) = e.here
  BY SignalIsNews
<1>4. \A x \in Clients : x # e.name
        => /\ ClientNews(t, x) = ClientNews(s, x)
           /\ ClientNews(s, x) # {} => SaysHere(t, x) = SaysHere(s, x)
  BY SignalIsNews
<1>5. StreamIsRight(s, on, owner) => StreamIsRight(t, now, owner)
  BY <1>2, <1>3, <1>4 DEF StreamIsRight
<1>6. KnownIsRight(s, on, owner, names, entry) => KnownIsRight(t, now, owner, names, entry)
  BY <1>2, <1>3, <1>4 DEF KnownIsRight
<1>. QED
  BY <1>1, <1>2, <1>5, <1>6

\* The name changes hands, and the stream tells.
LEMMA OwnerSignal ==
  ASSUME NEW s \in Seq(Signals), NEW now \in Clients \cup {NoOwner}, NEW on, NEW owner,
         NEW names, NEW entry, NEW t, t = Append(s, OwnerNow(now))
  PROVE  /\ t \in Seq(Signals) /\ OwnerNews(t) # {}
         /\ StreamIsRight(s, on, owner) => StreamIsRight(t, on, now)
         /\ KnownIsRight(s, on, owner, names, entry)
              => KnownIsRight(t, on, now, names, entry)
<1> DEFINE e == OwnerNow(now)
<1>1. e \in Signals /\ e.kind = "owner" /\ e.owner = now
  BY DEF Signals, OwnerNow
<1>. HIDE DEF e
<1>2. t = Append(s, e) /\ t \in Seq(Signals)
  BY <1>1 DEF e
<1>3. OwnerNews(t) # {} /\ SaysOwner(t) = now
  BY <1>1, <1>2, SignalIsNews
<1>4. \A x \in Clients :
        /\ ClientNews(t, x) = ClientNews(s, x)
        /\ ClientNews(s, x) # {} => SaysHere(t, x) = SaysHere(s, x)
  BY <1>1, <1>2, SignalIsNews
<1>5. StreamIsRight(s, on, owner) => StreamIsRight(t, on, now)
  BY <1>3, <1>4 DEF StreamIsRight
<1>6. KnownIsRight(s, on, owner, names, entry) => KnownIsRight(t, on, now, names, entry)
  BY <1>3, <1>4 DEF KnownIsRight
<1>. QED
  BY <1>2, <1>3, <1>5, <1>6

\* A client that joins the bus keeps the invariant.
LEMMA JoiningKeepsIt ==
  ASSUME NamesInv, NEW c \in Clients, JoinBus(c)
  PROVE  NamesInv'
<1>1. /\ stream \in Seq(Signals)
      /\ \A x \in Clients : x # c => (x \in onBus' <=> x \in onBus)
      /\ c \in onBus' /\ onBus' \subseteq Clients
      /\ UNCHANGED <<busOwner, phase, uniqueNames, nameOwner, call>>
  BY DEF NamesInv, NamesTypes, JoinBus
<1>2. CASE phase = "starting"
  BY <1>1, <1>2 DEF NamesInv, NamesTypes, AnswersAreRight, JoinBus, Signal
<1>3. CASE phase # "starting"
  <2>1. PICK e \in Signals : e = Appears(c)
    BY DEF Appears, Signals
  <2>2. e.kind = "unique" /\ e.name = c /\ e.here
    BY <2>1 DEF Appears
  <2>3. stream' = stream \o <<e>>
    BY <1>3, <2>1, Zenon DEF JoinBus, Signal
  <2>4. stream' = Append(stream, e)
    BY <1>1, <2>3
  <2>5. /\ stream' \in Seq(Signals) /\ OwnerNews(stream') = OwnerNews(stream)
        /\ StreamIsRight(stream, onBus, busOwner) => StreamIsRight(stream', onBus', busOwner)
        /\ KnownIsRight(stream, onBus, busOwner, uniqueNames, nameOwner)
             => KnownIsRight(stream', onBus', busOwner, uniqueNames, nameOwner)
    BY <1>1, <2>2, <2>4, ClientSignal
  <2>. QED
    BY <1>1, <1>3, <2>5 DEF NamesInv, NamesTypes, AnswersAreRight
<1>. QED
  BY <1>2, <1>3

\* A change of owner and its signal keep the invariant.
LEMMA OwnerChangeKeepsIt ==
  ASSUME NamesInv, Release \/ \E c \in Clients : Acquire(c)
  PROVE  NamesInv'
<1>1. PICK now \in Clients \cup {NoOwner} :
        /\ busOwner' = now /\ Signal(<<OwnerNow(now)>>)
        /\ UNCHANGED <<onBus, phase, uniqueNames, nameOwner, call>>
  BY DEF Release, Acquire
<1>2. CASE phase = "starting"
  BY <1>1, <1>2 DEF NamesInv, NamesTypes, AnswersAreRight, Signal
<1>3. CASE phase # "starting"
  <2>1. stream \in Seq(Signals) /\ stream' = Append(stream, OwnerNow(now))
    BY <1>1, <1>3 DEF NamesInv, NamesTypes, Signal
  <2>2. /\ stream' \in Seq(Signals) /\ OwnerNews(stream') # {}
        /\ StreamIsRight(stream, onBus, busOwner) => StreamIsRight(stream', onBus, now)
        /\ KnownIsRight(stream, onBus, busOwner, uniqueNames, nameOwner)
             => KnownIsRight(stream', onBus, now, uniqueNames, nameOwner)
    BY <1>1, <2>1, OwnerSignal
  <2>. QED
    BY <1>1, <1>3, <2>2 DEF NamesInv, NamesTypes, AnswersAreRight
<1>. QED
  BY <1>2, <1>3

\* A client that leaves, with the signals this sends, keeps the invariant.
LEMMA LeavingKeepsIt ==
  ASSUME NamesInv, NEW c \in Clients, LeaveBus(c)
  PROVE  NamesInv'
<1>1. /\ stream \in Seq(Signals)
      /\ \A x \in Clients : x # c => (x \in onBus' <=> x \in onBus)
      /\ c \notin onBus' /\ onBus' \subseteq Clients
      /\ UNCHANGED <<phase, uniqueNames, nameOwner, call>>
      /\ busOwner' = IF busOwner = c THEN NoOwner ELSE busOwner
      /\ busOwner' \in Clients \cup {NoOwner}
  BY DEF NamesInv, NamesTypes, LeaveBus
<1>2. CASE phase = "starting"
  BY <1>1, <1>2 DEF NamesInv, NamesTypes, AnswersAreRight, LeaveBus, Signal
<1>3. CASE phase # "starting"
  <2> DEFINE mid == IF busOwner = c THEN Append(stream, OwnerNow(NoOwner)) ELSE stream
  <2>e. PICK e \in Signals : e = Leaves(c)
    BY DEF Leaves, Signals
  <2>k. e.kind = "unique" /\ e.name = c /\ ~e.here
    BY <2>e DEF Leaves
  <2>1. /\ mid \in Seq(Signals)
        /\ OwnerNews(mid) = {} => OwnerNews(stream) = {} /\ busOwner' = busOwner
        /\ StreamIsRight(stream, onBus, busOwner) => StreamIsRight(mid, onBus, busOwner')
        /\ KnownIsRight(stream, onBus, busOwner, uniqueNames, nameOwner)
             => KnownIsRight(mid, onBus, busOwner', uniqueNames, nameOwner)
    <3>1. CASE busOwner = c
      <4>1. busOwner' = NoOwner /\ mid = Append(stream, OwnerNow(NoOwner))
        BY <1>1, <3>1
      <4>. HIDE DEF mid
      <4>. QED
        BY <1>1, <4>1, OwnerSignal
    <3>2. CASE busOwner # c
      BY <1>1, <3>2
    <3>. QED
      BY <3>1, <3>2
  <2>2. stream' = Append(mid, e)
    <3>1. stream' = stream \o (IF busOwner = c THEN <<OwnerNow(NoOwner), e>> ELSE <<e>>)
      BY <1>3, <2>e, Zenon DEF LeaveBus, Signal
    <3>2. OwnerNow(NoOwner) \in Signals
      BY DEF OwnerNow, Signals
    <3>. QED
      BY <1>1, <3>1, <3>2
  <2>. HIDE DEF mid
  <2>3. /\ stream' \in Seq(Signals) /\ OwnerNews(stream') = OwnerNews(mid)
        /\ StreamIsRight(mid, onBus, busOwner') => StreamIsRight(stream', onBus', busOwner')
        /\ KnownIsRight(mid, onBus, busOwner', uniqueNames, nameOwner)
             => KnownIsRight(stream', onBus', busOwner', uniqueNames, nameOwner)
    BY <1>1, <2>1, <2>2, <2>k, ClientSignal
  <2>. QED
    BY <1>1, <1>3, <2>1, <2>3 DEF NamesInv, NamesTypes, AnswersAreRight
<1>. QED
  BY <1>2, <1>3

-----------------------------------------------------------------------------
(* The compositor.                                                           *)

\* Nothing is news in an empty stream.
LEMMA NoNews == OwnerNews(<<>>) = {} /\ \A c : ClientNews(<<>>, c) = {}
BY DEF OwnerNews, ClientNews

\* Subscribing and then listing the names keeps the invariant.
LEMMA StartingKeepsIt ==
  ASSUME NamesInv, Subscribe \/ ListNames
  PROVE  NamesInv'
<1>1. CASE Subscribe
  <2>1. stream = <<>> /\ phase' = "subscribed" /\ phase = "starting"
        /\ UNCHANGED <<onBus, busOwner, stream, uniqueNames, nameOwner, call>>
    BY <1>1 DEF NamesInv, NamesTypes, Subscribe, busVars
  <2>2. StreamIsRight(stream, onBus, busOwner)
    BY <2>1, NoNews DEF StreamIsRight
  <2>. QED
    BY <2>1, <2>2 DEF NamesInv, NamesTypes, AnswersAreRight
<1>2. CASE ListNames
  <2>1. /\ phase = "subscribed" /\ phase' = "ready" /\ uniqueNames' = onBus
        /\ nameOwner' = IF busOwner = NoOwner THEN Absent ELSE Unknown
        /\ UNCHANGED <<onBus, busOwner, stream, call>>
    BY <1>2 DEF ListNames, busVars
  <2>2. KnownIsRight(stream, onBus, busOwner, uniqueNames', nameOwner')
    BY <2>1 DEF KnownIsRight, EntryOf
  <2>3. \A c \in Clients : call[c].at = "idle"
    BY <2>1 DEF NamesInv, AnswersAreRight
  <2>4. AnswersAreRight'
    BY <2>1, <2>3 DEF AnswersAreRight
  <2>. QED
    BY <2>1, <2>2, <2>4 DEF NamesInv, NamesTypes
<1>. QED
  BY <1>1, <1>2

\* Once the stream is read, what is known is right.
LEMMA UpdateKeepsIt ==
  ASSUME NamesInv, phase = "ready", UpdateIfNeeded, UNCHANGED <<onBus, busOwner, phase>>,
         DOMAIN call' = Clients,
         \A c \in Clients : call'[c] = call[c] \/ call'[c].at # "answered"
  PROVE  NamesInv'
<1>1. stream' = <<>> /\ uniqueNames' = NamesRead /\ nameOwner' = OwnerRead
  BY DEF UpdateIfNeeded
<1>2. StreamIsRight(stream', onBus, busOwner)
  BY <1>1, NoNews DEF StreamIsRight
<1>3. KnownIsRight(stream', onBus, busOwner, uniqueNames', nameOwner')
  BY <1>1, ReadingIsRight DEF KnownIsRight
<1>4. nameOwner' = Unknown => nameOwner = Unknown /\ OwnerNews(stream) = {}
  <2>1. ASSUME OwnerNews(stream) # {} PROVE OwnerRead # Unknown
    <3>1. OwnerRead = EntryOf(busOwner)
      BY <2>1 DEF OwnerRead, NamesInv, StreamIsRight, SaysOwner
    <3>. QED
      BY <3>1, ClientsAssumption DEF EntryOf, Unknown, Absent, NamesInv, NamesTypes
  <2>. QED
    BY <1>1, <2>1 DEF OwnerRead
<1>5. AnswersAreRight'
  BY <1>4 DEF AnswersAreRight, NamesInv
<1>6. NamesTypes'
  BY <1>1 DEF NamesTypes, NamesInv, NamesRead
<1>. QED
  BY <1>2, <1>3, <1>5, <1>6 DEF NamesInv

\* A call moves on, and nothing is learned.
LEMMA CallKeepsIt ==
  ASSUME NamesInv, UNCHANGED <<onBus, busOwner, phase, stream, uniqueNames, nameOwner>>,
         NEW c \in Clients, NEW step, Moves(c, step),
         step.at # "idle" => phase = "ready",
         step.at = "answered" => step.owner = busOwner
  PROVE  NamesInv'
BY DEF NamesInv, NamesTypes, AnswersAreRight, Moves

\* Serving a method call keeps the invariant.
LEMMA ServingKeepsIt ==
  ASSUME NamesInv, NEW c \in Clients, Serve(c)
  PROVE  NamesInv'
<1>1. call[c].at # "idle" => phase = "ready"
  BY DEF NamesInv, AnswersAreRight
<1>2. CASE PollNameOwners(c) \/ BusAnswers(c)
  <2>1. PICK step : /\ Moves(c, step) /\ phase = "ready"
                    /\ step.at = "answered" => step.owner = busOwner
    BY <1>1, <1>2 DEF PollNameOwners, BusAnswers, Called
  <2>2. UNCHANGED <<onBus, busOwner, phase, stream, uniqueNames, nameOwner>>
    BY <1>2 DEF PollNameOwners, BusAnswers, busVars
  <2>. QED
    BY <2>1, <2>2, CallKeepsIt
<1>3. CASE Answered(c)
  <2>1. /\ UNCHANGED <<onBus, busOwner, phase, stream, uniqueNames>>
        /\ call[c].at = "answered" /\ phase = "ready"
        /\ call' = [call EXCEPT ![c] = Called(call[c].what, "checking")]
        /\ nameOwner' = IF call[c].owner # NoOwner /\ nameOwner = Unknown
                        THEN call[c].owner ELSE nameOwner
    BY <1>1, <1>3 DEF Answered, busVars, Moves, Learn
  <2>2. KnownIsRight(stream, onBus, busOwner, uniqueNames, nameOwner')
    BY <2>1 DEF KnownIsRight, NamesInv, AnswersAreRight, EntryOf
  <2>3. nameOwner' = Unknown => nameOwner = Unknown
    BY <2>1
  <2>4. AnswersAreRight'
    <3> SUFFICES ASSUME NEW x \in Clients
                 PROVE  /\ call'[x].at # "idle" => phase = "ready"
                        /\ call'[x].at = "answered" /\ nameOwner' = Unknown
                           /\ OwnerNews(stream) = {} => call'[x].owner = busOwner
      BY <2>1 DEF AnswersAreRight
    <3>1. CASE x = c
      BY <2>1, <3>1 DEF Called, NamesInv, NamesTypes
    <3>2. CASE x # c
      BY <2>1, <2>3, <3>2 DEF AnswersAreRight, NamesInv, NamesTypes
    <3>. QED
      BY <3>1, <3>2
  <2>. QED
    BY <2>1, <2>2, <2>4 DEF NamesInv, NamesTypes
<1>4. CASE CheckSenderAllowed(c)
  <2>1. /\ UpdateIfNeeded /\ UNCHANGED <<onBus, busOwner, phase>>
        /\ phase = "ready" /\ \E step : Moves(c, step) /\ step.at # "answered"
    BY <1>1, <1>4 DEF CheckSenderAllowed, busVars, Called, Idle
  <2>2. /\ DOMAIN call' = Clients
        /\ \A x \in Clients : call'[x] = call[x] \/ call'[x].at # "answered"
    BY <2>1 DEF Moves, NamesInv, NamesTypes
  <2>. QED
    BY <2>1, <2>2, UpdateKeepsIt
<1>5. CASE Apply(c)
  BY <1>5, CallKeepsIt DEF Apply, busVars, Idle
<1>. QED
  BY <1>2, <1>3, <1>4, <1>5 DEF Serve

\* No step makes what is known wrong.
LEMMA NamesStepKeepsIt == NamesInv /\ [NamesNext]_nameVars => NamesInv'
<1> SUFFICES ASSUME NamesInv, [NamesNext]_nameVars PROVE NamesInv'
  OBVIOUS
<1>1. ASSUME NEW c \in Clients, JoinBus(c) PROVE NamesInv'
  BY <1>1, JoiningKeepsIt
<1>2. ASSUME NEW c \in Clients, Acquire(c) PROVE NamesInv'
  BY <1>2, OwnerChangeKeepsIt
<1>3. ASSUME NEW c \in Clients, LeaveBus(c) PROVE NamesInv'
  BY <1>3, LeavingKeepsIt
<1>4. ASSUME NEW c \in Clients, Serve(c) PROVE NamesInv'
  BY <1>4, ServingKeepsIt
<1>5. ASSUME NEW c \in Clients, NEW what \in Requests, MethodCall(c, what) PROVE NamesInv'
  <2>1. Called(what, "called").at = "called"
    BY DEF Called
  <2>. QED
    BY <1>5, <2>1, CallKeepsIt DEF MethodCall, busVars
<1>6. CASE Release
  BY <1>6, OwnerChangeKeepsIt
<1>7. CASE Subscribe \/ ListNames
  BY <1>7, StartingKeepsIt
<1>8. CASE UpdateTask \/ Refresh
  <2>1. UpdateIfNeeded /\ phase = "ready" /\ UNCHANGED <<onBus, busOwner, phase, call>>
    BY <1>8 DEF UpdateTask, Refresh, busVars
  <2>. QED
    BY <2>1, UpdateKeepsIt DEF NamesInv, NamesTypes
<1>9. CASE UNCHANGED nameVars
  BY <1>9 DEF nameVars, NamesInv, NamesTypes, AnswersAreRight
<1>. QED
  BY <1>1, <1>2, <1>3, <1>4, <1>5, <1>6, <1>7, <1>8, <1>9 DEF NamesNext

\* What the compositor knows of the bus, once it has read the stream, is what
\* the bus says (name_owners.rs: update_if_needed, poll_name_owners).
THEOREM AlwaysCaughtUp == NamesSpec => []CaughtUp
<1>1. NamesInit => NamesInv
  BY DEF NamesInit, NamesInv, NamesTypes, AnswersAreRight, Idle
<1>2. NamesInv => CaughtUp
  BY ReadingIsRight DEF CaughtUp, EntryOf
<1>. QED
  BY <1>1, <1>2, NamesStepKeepsIt, PTL DEF NamesSpec

-----------------------------------------------------------------------------
(* Events on their way to the bus.                                           *)

\* What the channel and the bus hold.
Events == [type : {"focus"}, to : Focus, from : Focus \cup {Nowhere}, id : Nat]
          \cup [type : {"other"}]

\* Focus events in the order they were emitted, the latest one about `place`.
InOrder(s, last, place) ==
  /\ \A i \in DOMAIN s : s[i].type = "focus"
       => s[i].id <= last /\ (s[i].id = last => s[i].to = place)
  /\ \A i, j \in DOMAIN s :
       i < j /\ s[i].type = "focus" /\ s[j].type = "focus" => s[i].id < s[j].id

EventTypes ==
  /\ emitted \in Nat /\ latest \in 0..emitted
  /\ received \in Seq(Events) /\ channel \in Seq(Events)
  /\ focus = lastFocused /\ focus \in Focus \cup {Nowhere}
  /\ latest = 0 => focus = Nowhere

EventInv == EventTypes /\ InOrder(Told, latest, focus)

\* Losing events keeps the others in order.
LEMMA LossKeepsOrder ==
  ASSUME NEW s \in Seq(Events), NEW t \in Seq(Events), NEW last, NEW place,
         NEW at \in [DOMAIN t -> DOMAIN s],
         \A i \in DOMAIN t : t[i] = s[at[i]],
         \A i, j \in DOMAIN t : i < j => at[i] < at[j],
         InOrder(s, last, place)
  PROVE  InOrder(t, last, place)
BY DEF InOrder

\* An event that is sent comes last, or not at all.
LEMMA SendKeepsOrder ==
  ASSUME NEW s \in Seq(Events), NEW e \in Events, NEW last \in Nat, NEW place,
         NEW newLast \in Nat, NEW newPlace, InOrder(s, last, place),
         \/ e.type = "other" /\ newLast = last /\ newPlace = place
         \/ e.type = "focus" /\ e.id = newLast /\ newLast > last /\ e.to = newPlace
  PROVE  InOrder(Append(s, e), newLast, newPlace) /\ InOrder(s, newLast, newPlace)
<1> DEFINE t == Append(s, e)
<1>1. /\ t \in Seq(Events) /\ DOMAIN t = 1..(Len(s) + 1) /\ DOMAIN s = 1..Len(s)
      /\ \A i \in 1..Len(s) : t[i] = s[i] /\ s[i] \in Events
      /\ t[Len(s) + 1] = e /\ Len(s) \in Nat
  OBVIOUS
<1>2. \A i \in 1..Len(s) : s[i].type = "focus" => s[i].id \in Nat
  BY <1>1 DEF Events
<1>. HIDE DEF t
<1>3. CASE e.type = "other" /\ newLast = last /\ newPlace = place
  <2>1. \A i \in DOMAIN t : t[i].type = "focus" => i \in 1..Len(s)
    BY <1>1, <1>3
  <2>2. InOrder(t, last, place)
    BY <1>1, <2>1 DEF InOrder
  <2>. QED
    BY <2>2, <1>3 DEF t
<1>4. CASE e.type = "focus" /\ e.id = newLast /\ newLast > last /\ e.to = newPlace
  <2>1. \A i \in 1..Len(s) : s[i].type = "focus" => s[i].id < newLast
    BY <1>1, <1>2, <1>4 DEF InOrder
  <2>2. InOrder(s, newLast, newPlace)
    BY <1>1, <1>2, <2>1 DEF InOrder
  <2>3. InOrder(t, newLast, newPlace)
    BY <1>1, <1>2, <1>4, <2>1, <2>2 DEF InOrder
  <2>. QED
    BY <2>2, <2>3 DEF t
<1>. QED
  BY <1>3, <1>4

\* Appending to what is queued appends to what a listener is told in the end.
LEMMA ToldGrows ==
  ASSUME NEW r \in Seq(Events), NEW c \in Seq(Events), NEW e \in Events
  PROVE  /\ Append(c, e) \in Seq(Events) /\ r \o c \in Seq(Events)
         /\ r \o Append(c, e) = Append(r \o c, e)
OBVIOUS

\* Sending, with or without a change of focus.
LEMMA SendsKeepIt ==
  ASSUME EventInv, NEW e \in Events, TrySend(e), received' = received,
         \/ e.type = "other" /\ focus' = focus /\ lastFocused' = lastFocused
         \/ /\ e.type = "focus" /\ e.id = emitted + 1
            /\ focus' = e.to /\ lastFocused' = e.to
  PROVE  EventInv'
<1>1. /\ emitted' = emitted + 1 /\ emitted \in Nat /\ latest \in 0..emitted
      /\ channel' \in {Append(channel, e), channel}
      /\ latest' = IF e.type = "focus" THEN e.id ELSE latest
  BY DEF TrySend, Queue, EventInv, EventTypes
<1>2. Told' \in {Append(Told, e), Told} /\ channel' \in Seq(Events) /\ Told \in Seq(Events)
  <2>1. received \in Seq(Events) /\ channel \in Seq(Events)
    BY DEF EventInv, EventTypes
  <2>2. /\ Append(channel, e) \in Seq(Events)
        /\ received \o Append(channel, e) = Append(received \o channel, e)
        /\ received \o channel \in Seq(Events)
    BY <2>1, ToldGrows
  <2>. QED
    BY <1>1, <2>1, <2>2 DEF Told
<1>3. InOrder(Append(Told, e), latest', focus') /\ InOrder(Told, latest', focus')
  <2>1. latest \in Nat /\ latest' \in Nat /\ InOrder(Told, latest, focus)
    BY <1>1 DEF EventInv, Events
  <2>2. CASE e.type = "other"
    BY <1>1, <1>2, <2>1, <2>2, SendKeepsOrder
  <2>3. CASE e.type = "focus"
    BY <1>1, <1>2, <2>1, <2>3, SendKeepsOrder
  <2>. QED
    BY <2>2, <2>3 DEF Events
<1>4. InOrder(Told', latest', focus')
  BY <1>2, <1>3
<1>5. EventTypes'
  BY <1>1, <1>2 DEF EventTypes, EventInv, Events
<1>. QED
  BY <1>4, <1>5 DEF EventInv, InOrder, Told

\* The sender thread and the bus lose events and never turn them around.
LEMMA SenderKeepsIt ==
  ASSUME EventInv, Write \/ BusStops
  PROVE  EventInv'
<1>1. received \in Seq(Events) /\ channel \in Seq(Events)
  BY DEF EventInv, EventTypes
<1>2. /\ UNCHANGED <<focus, lastFocused, latest, emitted>>
      /\ received' \in Seq(Events) /\ channel' \in Seq(Events)
  <2>1. CASE Write
    <3>1. Head(channel) \in Events /\ Tail(channel) \in Seq(Events)
      BY <1>1, <2>1 DEF Write
    <3>2. received' \in {received, Append(received, Head(channel))}
          /\ channel' = Tail(channel)
      BY <2>1 DEF Write
    <3>3. Append(received, Head(channel)) \in Seq(Events)
      BY <1>1, <3>1
    <3>4. UNCHANGED <<focus, lastFocused, latest, emitted>>
      BY <2>1 DEF Write
    <3>. QED
      BY <1>1, <3>1, <3>2, <3>3, <3>4
  <2>2. CASE BusStops
    <3>1. \A n \in 0..Len(received) : SubSeq(received, 1, n) \in Seq(Events)
      BY <1>1
    <3>. QED
      BY <1>1, <2>2, <3>1 DEF BusStops
  <2>. QED
    BY <2>1, <2>2
<1>3. ASSUME NEW at \in [DOMAIN Told' -> DOMAIN Told],
             \A i \in DOMAIN Told' : Told'[i] = Told[at[i]],
             \A i, j \in DOMAIN Told' : i < j => at[i] < at[j]
      PROVE  EventInv'
  <2>1. Told \in Seq(Events) /\ Told' \in Seq(Events)
    BY <1>1, <1>2 DEF Told
  <2>2. InOrder(Told', latest, focus)
    BY <1>3, <2>1, LossKeepsOrder DEF EventInv
  <2>. QED
    BY <1>2, <2>2 DEF EventInv, EventTypes, InOrder, Told
<1>4. CASE Write /\ sender = "receiving"
  <2>1. /\ received' = Append(received, Head(channel)) /\ channel' = Tail(channel)
        /\ channel # <<>>
    BY <1>4 DEF Write
  <2>2. /\ Told \in Seq(Events) /\ Told' \in Seq(Events)
        /\ Len(Told') = Len(Told)
    BY <1>1, <1>2, <2>1 DEF Told
  <2>3. \A i \in 1..Len(Told) : Told'[i] = Told[i]
    BY <1>1, <2>1 DEF Told
  <2>4. Told' = Told
    BY <2>2, <2>3
  <2>. QED
    BY <1>2, <2>4 DEF EventInv, EventTypes, InOrder
<1>5. CASE Write /\ sender # "receiving"
  <2>1. received' = received /\ channel' = Tail(channel) /\ channel # <<>>
    BY <1>5 DEF Write
  <2> DEFINE at == [i \in DOMAIN Told' |-> IF i <= Len(received) THEN i ELSE i + 1]
  <2>2. at \in [DOMAIN Told' -> DOMAIN Told]
    BY <1>1, <2>1 DEF Told
  <2>3. \A i \in DOMAIN Told' : Told'[i] = Told[at[i]]
    BY <1>1, <2>1 DEF Told
  <2>4. \A i, j \in DOMAIN Told' : i < j => at[i] < at[j]
    BY <1>1, <2>1 DEF Told
  <2>. HIDE DEF at
  <2>. QED
    BY <1>3, <2>2, <2>3, <2>4
<1>6. CASE BusStops
  <2>1. PICK n \in 0..Len(received) : received' = SubSeq(received, 1, n) /\ channel' = channel
    BY <1>6 DEF BusStops
  <2>2. Len(received) \in Nat /\ Len(channel) \in Nat /\ n \in Nat /\ n <= Len(received)
    BY <1>1, <2>1
  <2>3. /\ Len(received') = n
        /\ \A i \in 1..n : received'[i] = received[i]
    BY <1>1, <2>1, <2>2
  <2> DEFINE at == [i \in DOMAIN Told' |-> IF i <= n THEN i ELSE i + (Len(received) - n)]
  <2>4. DOMAIN Told' = 1..(n + Len(channel)) /\ DOMAIN Told = 1..(Len(received) + Len(channel))
    BY <1>1, <1>2, <2>1, <2>3 DEF Told
  <2>5. at \in [DOMAIN Told' -> DOMAIN Told]
    BY <2>2, <2>4
  <2>6. \A i \in DOMAIN Told' : Told'[i] = Told[at[i]]
    <3>1. \A i \in 1..n : Told'[i] = Told[i]
      BY <1>1, <1>2, <2>1, <2>2, <2>3 DEF Told
    <3>2. \A i \in 1..Len(channel) : /\ Told'[n + i] = channel[i]
                                     /\ Told[Len(received) + i] = channel[i]
      BY <1>1, <1>2, <2>1, <2>2, <2>3 DEF Told
    <3>3. ASSUME NEW i \in DOMAIN Told', i > n PROVE Told'[i] = Told[i + (Len(received) - n)]
      <4>1. i - n \in 1..Len(channel) /\ n + (i - n) = i
            /\ Len(received) + (i - n) = i + (Len(received) - n)
        BY <2>2, <2>4, <3>3
      <4>. QED
        BY <3>2, <4>1
    <3>. QED
      BY <2>2, <2>4, <3>1, <3>3
  <2>7. \A i, j \in DOMAIN Told' : i < j => at[i] < at[j]
    BY <2>2, <2>4
  <2>. HIDE DEF at
  <2>. QED
    BY <1>3, <2>5, <2>6, <2>7
<1>. QED
  BY <1>4, <1>5, <1>6

\* Where focus is, and that the events tell it in order, at every step.
LEMMA EventStepKeepsIt == EventInv /\ [EventNext]_eventVars => EventInv'
<1> SUFFICES ASSUME EventInv, [EventNext]_eventVars PROVE EventInv'
  OBVIOUS
<1>1. ASSUME NEW to \in Focus, SetFocus(to) PROVE EventInv'
  <2>1. CASE lastFocused = to
    BY <1>1, <2>1 DEF SetFocus, EventInv, EventTypes, InOrder, Told
  <2>2. CASE lastFocused # to
    <3>1. FocusEvent(to, lastFocused) \in Events
      BY DEF FocusEvent, Events, EventInv, EventTypes
    <3>. QED
      BY <1>1, <2>2, <3>1, SendsKeepIt DEF SetFocus, Remember, FocusEvent
  <2>. QED
    BY <2>1, <2>2
<1>2. OtherEvent \in Events /\ OtherEvent.type = "other"
  BY DEF OtherEvent, Events
<1>3. CASE EmitOther
  BY <1>2, <1>3, SendsKeepIt DEF EmitOther
<1>4. ASSUME Report PROVE EventInv'
  BY <1>2, <1>4, SendsKeepIt DEF Report
<1>5. ASSUME NEW w \in Windows,
             FullscreenRequest(w) \/ UnfullscreenRequest(w) \/ MapWindow(w) \/ Destroy(w)
      PROVE  EventInv'
  <2>1. Report \/ UNCHANGED <<focus, lastFocused, channel, received, latest, emitted>>
    BY <1>5 DEF FullscreenRequest, UnfullscreenRequest, MapWindow, Destroy
  <2>. QED
    BY <1>4, <2>1 DEF EventInv, EventTypes, InOrder, Told
<1>6. CASE ConnectSocket \/ BusStarts \/ UNCHANGED eventVars
  BY <1>6 DEF ConnectSocket, BusStarts, eventVars, EventInv, EventTypes, InOrder, Told
<1>7. CASE Write \/ BusStops
  BY <1>7, SenderKeepsIt
<1>. QED
  BY <1>1, <1>3, <1>5, <1>6, <1>7 DEF EventNext

\* Only the loss of the latest change of focus misleads who follows the bus
\* (event_bus.rs: try_send, sender_thread, emit_window_focused).
THEOREM OnlyTheLatestLossEverMisleads == EventSpec => []OnlyTheLatestLossMisleads
<1>1. EventInit => EventInv
  BY DEF EventInit, EventInv, EventTypes, InOrder, Told
<1>2. EventInv => OnlyTheLatestLossMisleads
  <2> SUFFICES ASSUME EventInv PROVE OnlyTheLatestLossMisleads
    OBVIOUS
  <2>1. Told \in Seq(Events)
    BY DEF EventInv, EventTypes, Told
  <2>2. \A i \in DOMAIN Told : FocusTold(i) => Told[i].id \in Nat
    BY <2>1 DEF FocusTold, Events
  <2>3. \A i \in DOMAIN Told : FocusTold(i) => Told[i].id <= latest
    BY DEF EventInv, InOrder, FocusTold
  <2>4. ASSUME NEW i \in DOMAIN Told, NEW j \in DOMAIN Told, FocusTold(i), FocusTold(j),
               Told[i].id = latest
        PROVE  j <= i
    <3>1. i \in Nat /\ j \in Nat
      BY <2>1
    <3>2. i < j => Told[i].id < Told[j].id
      BY <2>4 DEF EventInv, InOrder, FocusTold
    <3>. QED
      BY <2>2, <2>3, <2>4, <3>1, <3>2
  <2>. QED
    BY <2>4 DEF OnlyTheLatestLossMisleads, EventInv, EventTypes, InOrder, FocusTold
<1>. QED
  BY <1>1, <1>2, EventStepKeepsIt, PTL DEF EventSpec
=============================================================================
