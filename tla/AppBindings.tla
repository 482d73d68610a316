------------------------------ MODULE AppBindings ------------------------------
(* Applications registered over D-Bus (src/dbus/app_interface.rs) and the    *)
(* key bindings they add (src/dbus/input_manager.rs), as the key filter      *)
(* looks them up (src/input/mod.rs, src/input/binding_resolver.rs).          *)
(*                                                                           *)
(* The two services have a connection, a thread pool task per method call    *)
(* and a cleanup task each, and share nothing but the registry: whether a    *)
(* call or the signal that its client has left is handled first is open, in  *)
(* each service and between them.                                            *)

CONSTANTS
    Callers,        \* unique bus names; a name is never used again
    Apps,           \* application ids
    AppOf,          \* the application behind each caller's process
    NoApp,          \* not registered, or nothing focused
    Accels,         \* accelerator strings, as clients spell them
    ParsedKey,      \* the modifiers and key an accelerator string parses to
    FocusedGrant,   \* apps whose profile has register_focused_bindings
    GlobalGrant,    \* apps whose profile has register_global_bindings
    UserKeys        \* keys bound in compositor.toml: they are never dynamic

VARIABLES
    connected,      \* callers on the bus
    gone,           \* callers that have left it
    watching,       \* which cleanup tasks have subscribed to NameOwnerChanged
    leaving,        \* per service: departures signalled and not yet handled
    registering,    \* callers inside register_app, by how far it is
    requests,       \* bindings asked for and not yet handled
    registry,       \* AppRegistry::by_owner: the app_id of each owner
    bindings,       \* DynamicBindings::by_owner: bindings of each owner
    quiet           \* history: callers that left with no call pending

bus == <<connected, gone, watching, leaving, quiet>>
calls == <<registering, requests>>
stores == <<registry, bindings>>
appVars == <<bus, calls, stores>>

Services == {"App1", "InputManager1"}
Scopes == {"app_focused", "app_global"}
Binding(accel, scope, app) == [accel |-> accel, scope |-> scope, app |-> app]
Request(c, b) == [owner |-> c, binding |-> b]

RegistryInit ==
    /\ connected = {} /\ gone = {} /\ quiet = {}
    /\ watching = {} /\ leaving = [s \in Services |-> {}]
    /\ registering = [c \in Callers |-> "no"] /\ requests = {}
    /\ registry = [c \in Callers |-> NoApp]
    /\ bindings = [c \in Callers |-> {}]

-----------------------------------------------------------------------------
(* Services and clients on the bus                                           *)

\* The cleanup task subscribes; serve spawned it and did not wait for it.
StartCleanup(s) ==
    /\ s \notin watching
    /\ watching' = watching \cup {s}
    /\ UNCHANGED <<calls, stores, connected, gone, leaving, quiet>>

Connect(c) ==
    /\ c \notin connected \cup gone
    /\ connected' = connected \cup {c}
    /\ UNCHANGED <<calls, stores, gone, watching, leaving, quiet>>

Busy(c) == registering[c] # "no" \/ \E r \in requests : r.owner = c

\* A client exits or crashes; each service that listens is signalled.
Disconnect(c) ==
    /\ c \in connected
    /\ connected' = connected \ {c} /\ gone' = gone \cup {c}
    /\ leaving' = [s \in Services |->
                     IF s \in watching THEN leaving[s] \cup {c} ELSE leaving[s]]
    /\ quiet' = IF ~Busy(c) /\ watching = Services THEN quiet \cup {c}
                ELSE quiet
    /\ UNCHANGED <<calls, stores, watching>>

CleanUpApp(c) == registry' = [registry EXCEPT ![c] = NoApp]

\* Mutant: the departure of a client that is not registered any more is ignored.
CleanUpBindings_Registered(c) ==
    bindings' = IF registry[c] = NoApp THEN bindings
                ELSE [bindings EXCEPT ![c] = {}]

CleanUpBindings(c) == bindings' = [bindings EXCEPT ![c] = {}]

\* start_cleanup_task of either service: its loop handles one signal.
CleanUp(s, c) ==
    /\ c \in leaving[s]
    /\ leaving' = [leaving EXCEPT ![s] = @ \ {c}]
    /\ IF s = "App1" THEN CleanUpApp(c) /\ UNCHANGED bindings
                     ELSE CleanUpBindings(c) /\ UNCHANGED registry
    /\ UNCHANGED <<calls, connected, gone, watching, quiet>>

-----------------------------------------------------------------------------
(* org.arlen.App1                                                            *)

\* register_app awaits the caller's pid from the bus ...
RegisterApp(c) ==
    /\ c \in connected /\ registering[c] = "no"
    /\ registering' = [registering EXCEPT ![c] = "pid"]
    /\ UNCHANGED <<bus, stores, requests>>

\* ... which knows it, and the process behind it, only while it is there ...
CallerPid(c) ==
    /\ registering[c] = "pid"
    /\ registering' = [registering EXCEPT ![c] =
                          IF c \in connected THEN "profile" ELSE "no"]
    /\ UNCHANGED <<bus, stores, requests>>

\* ... then reads the permission profile from disk and inserts.
InsertApp(c) ==
    /\ registering[c] = "profile"
    /\ registering' = [registering EXCEPT ![c] = "no"]
    /\ registry' = [registry EXCEPT ![c] = AppOf[c]]
    /\ UNCHANGED <<bus, requests, bindings>>

UnregisterApp(c) ==
    /\ c \in connected /\ registry[c] # NoApp
    /\ registry' = [registry EXCEPT ![c] = NoApp]
    /\ UNCHANGED <<bus, calls, bindings>>

-----------------------------------------------------------------------------
(* org.arlen.InputManager1                                                   *)

\* A client calls register_binding; one call at a time is enough here.
CallRegister(c, b) ==
    /\ c \in connected /\ ~\E r \in requests : r.owner = c
    /\ requests' = requests \cup {Request(c, b)}
    /\ UNCHANGED <<bus, stores, registering>>

\* What scope and claimed app_id must agree with in the registry.
MayRegister(c, b) ==
    /\ registry[c] # NoApp
    /\ IF b.scope = "app_global" THEN registry[c] \in GlobalGrant
       ELSE registry[c] = b.app /\ registry[c] \in FocusedGrant

\* Mutant: only a global binding already there stands in the way of another.
Dominates_GlobalFirst(existing, new) ==
    existing.scope = "app_global" \/ existing.app = new.app

\* registration_dominates
Dominates(existing, new) ==
    \/ existing.scope = "app_global" \/ new.scope = "app_global"
    \/ existing.app = new.app

\* find_conflicts compares the strings, not what they parse to.
Conflicts(b) ==
    \E c \in Callers : \E existing \in bindings[c] :
        existing.accel = b.accel /\ Dominates(existing, b)

RegisterBinding(c) ==
    \E r \in requests :
        /\ r.owner = c
        /\ requests' = requests \ {r}
        /\ bindings' = IF MayRegister(c, r.binding) /\ ~Conflicts(r.binding)
                       THEN [bindings EXCEPT ![c] = @ \cup {r.binding}]
                       ELSE bindings
        /\ UNCHANGED <<bus, registering, registry>>

UnregisterBinding(c, a) ==
    /\ c \in connected
    /\ \E b \in bindings[c] : b.accel = a
    /\ bindings' = [bindings EXCEPT ![c] = {b \in @ : b.accel # a}]
    /\ UNCHANGED <<bus, calls, registry>>

UnregisterAll(c) ==
    /\ c \in connected /\ bindings[c] # {}
    /\ bindings' = [bindings EXCEPT ![c] = {}]
    /\ UNCHANGED <<bus, calls, registry>>

-----------------------------------------------------------------------------
(* Dispatch of a pressed key                                                 *)

Matching(key, scope, focused) ==
    {c \in Callers : \E b \in bindings[c] :
        /\ b.scope = scope /\ ParsedKey[b.accel] = key
        /\ scope = "app_focused" => b.app = focused}

\* Who may be told of the key: static bindings win, then global ones; the map
\* has no order, so each match is a possible answer.
Resolve(key, focused) ==
    IF key \in UserKeys THEN {}
    ELSE IF Matching(key, "app_global", focused) # {}
         THEN Matching(key, "app_global", focused)
    ELSE Matching(key, "app_focused", focused)

-----------------------------------------------------------------------------
Handle(c) == CallerPid(c) \/ InsertApp(c) \/ RegisterBinding(c)

RegistryNext ==
    \/ \E s \in Services : StartCleanup(s) \/ \E c \in Callers : CleanUp(s, c)
    \/ \E c \in Callers :
         \/ Connect(c) \/ Disconnect(c) \/ RegisterApp(c) \/ UnregisterApp(c)
         \/ Handle(c) \/ UnregisterAll(c)
         \/ \E a \in Accels :
              \/ UnregisterBinding(c, a)
              \/ \E s \in Scopes : \E app \in Apps :
                   CallRegister(c, Binding(a, s, app))

RegistrySpec == RegistryInit /\ [][RegistryNext]_appVars

-----------------------------------------------------------------------------
Forgotten(c) == registry[c] = NoApp /\ bindings[c] = {}
CleanedUp(c) == \A s \in Services : s \in watching /\ c \notin leaving[s]

(* A client that leaves the bus with no call under way, once both cleanup    *)
(* tasks listen, leaves neither a registration nor a binding behind when     *)
(* both have handled its departure (app_interface.rs:15): in whatever order  *)
(* they do, its accelerators are free for others again.                      *)
QuietExitIsForgotten ==
    \A c \in quiet : CleanedUp(c) => Forgotten(c)

(* A binding that was accepted answers its key, and alone: no registration,  *)
(* departure or cleanup, in any order, leaves two clients to choose from in  *)
(* a map without order or one binding hidden by another, which is what the   *)
(* conflicts are for (input_manager.rs:311); and a key that is not global    *)
(* only goes to the application it was registered by.                        *)
BindingsAnswer ==
    \A c \in Callers : \A b \in bindings[c] :
        /\ ParsedKey[b.accel] \notin UserKeys =>
              Resolve(ParsedKey[b.accel], b.app) = {c}
        /\ b.scope = "app_focused" => b.app = AppOf[c]
=============================================================================
