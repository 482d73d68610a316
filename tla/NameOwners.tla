------------------------------ MODULE NameOwners ------------------------------
(* Which D-Bus clients own the name that lets them monitor the keyboard, as  *)
(* the compositor learns it (src/dbus/name_owners.rs), and the keyboard      *)
(* grabs that hang on the answer (src/dbus/a11y_keyboard_monitor.rs).        *)
(*                                                                           *)
(* The compositor hears of owners in two ways that race: a stream of         *)
(* NameOwnerChanged signals, which is only read now and then, and the        *)
(* answers to its own GetNameOwner questions, which are asked the first time *)
(* a name matters.  The method calls of a client run beside both, so a call  *)
(* may be answered long after its client has gone.                           *)
(*                                                                           *)
(* One well-known name is modelled: each is an entry of its own in the       *)
(* source's map, and ALLOWED_NAMES has one element.                          *)
EXTENDS Integers, Sequences, FiniteSetsExt

CONSTANTS
    Clients,        \* unique names that connect to the bus, once each
    NoOwner,        \* nobody owns the well-known name
    Enforce,        \* COSMIC_ENFORCE_DBUS_OWNERS
    MaxOwnerEvents  \* bound: signals that reach the compositor's stream

\* A client is none of the other entries of the map.
ASSUME ClientsAssumption == Clients \cap {NoOwner, "absent", "unknown"} = {}

VARIABLES
    onBus,          \* clients connected to the bus now
    wasOnBus,       \* clients that have connected (unique names are not reused)
    busOwner,       \* who owns the well-known name on the bus
    sent,           \* signals received so far (only for the bound)
    phase,          \* how far NameOwners::new_with is
    stream,         \* signals received and not yet read
    uniqueNames,    \* unique_names
    nameOwner,      \* entry of name_owners: absent, unknown, or a client
    call,           \* the pending method call of each client
    grabs           \* what each client of the keyboard monitor asked for

nameVars == <<onBus, wasOnBus, busOwner, sent, phase, stream, uniqueNames,
              nameOwner, call, grabs>>
busVars == <<onBus, wasOnBus, busOwner, sent>>

Absent  == "absent"     \* the map has no entry for the name
Unknown == "unknown"    \* Some(None): on the bus, its owner not asked yet

Requests == {"grab_keyboard", "ungrab_keyboard", "watch_keyboard"}
Idle == [at |-> "idle"]
Called(what, at) == [what |-> what, at |-> at]

NamesInit ==
    /\ onBus = {} /\ wasOnBus = {} /\ busOwner = NoOwner /\ sent = 0
    /\ phase = "starting" /\ stream = <<>>
    /\ uniqueNames = {} /\ nameOwner = Absent
    /\ call = [c \in Clients |-> Idle]
    /\ grabs = [c \in Clients |-> {}]

-----------------------------------------------------------------------------
(* The bus.  A signal reaches the stream once the compositor subscribed.     *)

Appears(c)   == [kind |-> "unique", name |-> c, here |-> TRUE]
Leaves(c)    == [kind |-> "unique", name |-> c, here |-> FALSE]
OwnerNow(o)  == [kind |-> "owner", owner |-> o]

Signal(events) ==
    IF phase = "starting" THEN UNCHANGED <<sent, stream>>
    ELSE /\ sent + Len(events) <= MaxOwnerEvents
         /\ sent' = sent + Len(events)
         /\ stream' = stream \o events

JoinBus(c) ==
    /\ c \notin wasOnBus
    /\ onBus' = onBus \cup {c} /\ wasOnBus' = wasOnBus \cup {c}
    /\ Signal(<<Appears(c)>>)
    /\ UNCHANGED <<busOwner, phase, uniqueNames, nameOwner, call, grabs>>

\* RequestName, replacing the owner if there is one.
Acquire(c) ==
    /\ c \in onBus /\ busOwner # c
    /\ busOwner' = c
    /\ Signal(<<OwnerNow(c)>>)
    /\ UNCHANGED <<onBus, wasOnBus, phase, uniqueNames, nameOwner, call, grabs>>

Release ==
    /\ busOwner # NoOwner
    /\ busOwner' = NoOwner
    /\ Signal(<<OwnerNow(NoOwner)>>)
    /\ UNCHANGED <<onBus, wasOnBus, phase, uniqueNames, nameOwner, call, grabs>>

\* A client exits or crashes: the bus gives up its names first.
LeaveBus(c) ==
    /\ c \in onBus
    /\ onBus' = onBus \ {c}
    /\ busOwner' = IF busOwner = c THEN NoOwner ELSE busOwner
    /\ Signal(IF busOwner = c THEN <<OwnerNow(NoOwner), Leaves(c)>>
                              ELSE <<Leaves(c)>>)
    /\ UNCHANGED <<wasOnBus, phase, uniqueNames, nameOwner, call, grabs>>

-----------------------------------------------------------------------------
(* NameOwners                                                                *)

\* new_with subscribes before it lists, so that nothing falls between.
Subscribe ==
    /\ phase = "starting"
    /\ phase' = "subscribed"
    /\ UNCHANGED <<busVars, stream, uniqueNames, nameOwner, call, grabs>>

ListNames ==
    /\ phase = "subscribed"
    /\ phase' = "ready"
    /\ uniqueNames' = onBus
    /\ nameOwner' = IF busOwner = NoOwner THEN Absent ELSE Unknown
    /\ UNCHANGED <<busVars, stream, call, grabs>>

\* Signals about the owner of the name, and about a client.
OwnerNews(s) == {i \in DOMAIN s : s[i].kind = "owner"}
ClientNews(s, c) == {i \in DOMAIN s : s[i].kind = "unique" /\ s[i].name = c}
EntryOf(owner) == IF owner = NoOwner THEN Absent ELSE owner

\* update_if_needed applies all that the stream holds, in order: the last
\* signal about a name decides.
NamesRead ==
    {c \in Clients : LET news == ClientNews(stream, c) IN
                     IF news = {} THEN c \in uniqueNames
                                  ELSE stream[Max(news)].here}
OwnerRead ==
    LET news == OwnerNews(stream) IN
    IF news = {} THEN nameOwner ELSE EntryOf(stream[Max(news)].owner)

UpdateIfNeeded ==
    /\ stream' = <<>>
    /\ uniqueNames' = NamesRead
    /\ nameOwner' = OwnerRead

\* check_owner_no_poll, on the names as they are once the stream is read.
CheckOwnerNoPoll(c) ==
    /\ c \in NamesRead
    /\ Enforce => OwnerRead = c

\* update_task, woken by the stream; it is only spawned when enforcing.
UpdateTask ==
    /\ phase = "ready" /\ Enforce /\ stream # <<>>
    /\ UpdateIfNeeded
    /\ UNCHANGED <<busVars, phase, call, grabs>>

-----------------------------------------------------------------------------
(* The keyboard monitor.  Every method first awaits check_sender_allowed.    *)

Moves(c, step) == call' = [call EXCEPT ![c] = step]

MethodCall(c, what) ==
    /\ phase = "ready" /\ c \in onBus /\ call[c] = Idle
    /\ Moves(c, Called(what, "called"))
    /\ UNCHANGED <<busVars, phase, stream, uniqueNames, nameOwner, grabs>>

\* poll_name_owners asks the bus only about names it has no owner for.
PollNameOwners(c) ==
    /\ call[c].at = "called"
    /\ Moves(c, Called(call[c].what,
                       IF nameOwner = Unknown THEN "asking" ELSE "checking"))
    /\ UNCHANGED <<busVars, phase, stream, uniqueNames, nameOwner, grabs>>

\* The bus answers; NoOwner stands for its error.
BusAnswers(c) ==
    /\ call[c].at = "asking"
    /\ Moves(c, [what |-> call[c].what, at |-> "answered", owner |-> busOwner])
    /\ UNCHANGED <<busVars, phase, stream, uniqueNames, nameOwner, grabs>>

\* Mutant: the answer is taken whatever was learned since the question.
Learn_Always(answer) ==
    nameOwner' = IF answer # NoOwner THEN answer ELSE nameOwner

\* The answer counts only if the stream has not told more recent news.
Learn(answer) ==
    nameOwner' = IF answer # NoOwner /\ nameOwner = Unknown
                 THEN answer ELSE nameOwner

Answered(c) ==
    /\ call[c].at = "answered"
    /\ Learn(call[c].owner)
    /\ Moves(c, Called(call[c].what, "checking"))
    /\ UNCHANGED <<busVars, phase, stream, uniqueNames, grabs>>

CheckSenderAllowed(c) ==
    /\ call[c].at = "checking"
    /\ UpdateIfNeeded
    /\ Moves(c, IF CheckOwnerNoPoll(c) THEN Called(call[c].what, "allowed")
                                       ELSE Idle)
    /\ UNCHANGED <<busVars, phase, grabs>>

Apply(c) ==
    /\ call[c].at = "allowed"
    /\ grabs' = [grabs EXCEPT ![c] =
         CASE call[c].what = "grab_keyboard"   -> @ \cup {"grabbed"}
           [] call[c].what = "ungrab_keyboard" -> @ \ {"grabbed"}
           [] call[c].what = "watch_keyboard"  -> @ \cup {"watched"}]
    /\ Moves(c, Idle)
    /\ UNCHANGED <<busVars, phase, stream, uniqueNames, nameOwner>>

\* Mutant: refresh goes by the names known before the stream is read.
Kept_Unread(c) ==
    /\ c \in uniqueNames
    /\ Enforce => nameOwner \in {c, Unknown, Absent}

Kept(c) == CheckOwnerNoPoll(c)

\* refresh, on every turn of the event loop, drops clients that may not grab.
Refresh ==
    /\ phase = "ready"
    /\ stream # <<>> \/ \E c \in Clients : grabs[c] # {} /\ ~Kept(c)
    /\ grabs' = [c \in Clients |-> IF Kept(c) THEN grabs[c] ELSE {}]
    /\ UpdateIfNeeded
    /\ UNCHANGED <<busVars, phase, call>>

HasKeyboardGrab == \E c \in Clients : "grabbed" \in grabs[c]

-----------------------------------------------------------------------------
Serve(c) == \/ PollNameOwners(c) \/ BusAnswers(c) \/ Answered(c)
            \/ CheckSenderAllowed(c) \/ Apply(c)

NamesNext ==
    \/ \E c \in Clients : \/ JoinBus(c) \/ Acquire(c) \/ LeaveBus(c)
                          \/ Serve(c)
                          \/ \E what \in Requests : MethodCall(c, what)
    \/ Release \/ Subscribe \/ ListNames \/ UpdateTask \/ Refresh

\* The event loop and its executor keep running, and the bus answers.
Fairness ==
    /\ WF_nameVars(Subscribe) /\ WF_nameVars(ListNames)
    /\ WF_nameVars(UpdateTask) /\ WF_nameVars(Refresh)
    /\ \A c \in Clients : WF_nameVars(Serve(c))

NamesSpec == NamesInit /\ [][NamesNext]_nameVars
NamesFairSpec == NamesSpec /\ Fairness

-----------------------------------------------------------------------------
(* What the compositor believes, once it has read the signals that already   *)
(* arrived, is what the bus says: whoever answered first, an answer of       *)
(* GetNameOwner neither overwrites a newer owner nor revives a name that was *)
(* given up; at most the owner was never asked for (name_owners.rs:224).     *)
CaughtUp ==
    phase = "ready" =>
        /\ NamesRead = onBus
        /\ OwnerRead = (IF busOwner = NoOwner THEN Absent ELSE busOwner)
             \/ (OwnerRead = Unknown /\ busOwner # NoOwner)

(* A client that loses the name for good, by leaving the bus or by handing   *)
(* it over, does not keep its keyboard grab, even if a call it made while it *)
(* was the owner is only answered afterwards: refresh takes it back          *)
(* (a11y_keyboard_monitor.rs:188).                                           *)
GrabsEnd ==
    \A c \in Clients :
        <>[](phase = "ready" /\ busOwner # c) => <>[](grabs[c] = {})
=============================================================================
