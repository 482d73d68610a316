------------------------------ MODULE KmsDevice ------------------------------
(***************************************************************************)
(* GPUs, monitors and VT switches (src/backend/kms/mod.rs, device.rs,      *)
(* drm_helpers.rs), the configuration of outputs (src/config/mod.rs,       *)
(* src/state.rs) and its protocol's handler                                *)
(* (src/wayland/handlers/output_configuration.rs).                         *)
(*                                                                         *)
(* A connector with a monitor has an Output, an object that is made anew   *)
(* whenever the monitor is found again; a Surface drives it from a CRTC.   *)
(* Three lists of outputs are kept by hand: those of the devices, the      *)
(* heads of the configuration protocol, and those of the shell.  Each      *)
(* handler is a chain of steps that may fail; it is modelled by the set of *)
(* its outcomes.  Mirroring, modes and leased connectors are left out.     *)
(***************************************************************************)
EXTENDS Naturals, SequencesExt, FiniteSetsExt

CONSTANTS
    Devices,
    Connectors,   \* a sequence, in the order the kernel lists them
    Crtcs,        \* numbers from 1
    GpuOf,        \* the device of a connector
    GpuOfCrtc,
    NoGpu,
    Budgets       \* pairs of bounds: on hotplugs, VT switches and requests,
                  \* and on calls to the kernel that fail

VARIABLES
    plugged,   \* connectors with a monitor
    present,   \* devices on the seat
    hinted,    \* devices with an unread "changed" event of udev
    active,    \* LibSeatSession::is_active
    resuming,  \* the idle callback of resume_session is to run
    devices,   \* KmsState::drm_devices
    output,    \* InnerDevice::outputs: the output of each connector, or Nil
    surface,   \* InnerDevice::surfaces: the connector of each CRTC
    lit,       \* the CRTCs whose surface is active
    kernel,    \* the CRTC the kernel drives a connector from
    off,       \* outputs whose configuration says Disabled
    heads,     \* OutputConfigurationState::outputs
    exposed,   \* the outputs of the shell
    memory,    \* the remembered configurations, by the displays connected
    primary,   \* KmsState::primary_node
    changes, faults,  \* what may still change, and fail
    oddities,  \* what happened that the code does not make good
    crashed

vars == <<plugged, present, hinted, active, resuming, devices, output, surface,
          lit, kernel, off, heads, exposed, memory, primary, faults, changes,
          oddities, crashed>>

Names == Range(Connectors)
On(d) == {c \in Names : GpuOf[c] = d}
CrtcsOf(d) == {k \in Crtcs : GpuOfCrtc[k] = d}
NoCrtc == 0
Nil == <<>>     \* no output
Dark == "none"  \* no connector

World ==
    [plugged |-> plugged, present |-> present, active |-> active,
     devices |-> devices, output |-> output, surface |-> surface, lit |-> lit,
     kernel |-> kernel, off |-> off, heads |-> heads, exposed |-> exposed,
     memory |-> memory, primary |-> primary, faults |-> faults,
     oddities |-> oddities, crashed |-> crashed]

Become(r) ==
    /\ plugged' = r.plugged /\ present' = r.present /\ active' = r.active
    /\ devices' = r.devices /\ output' = r.output /\ surface' = r.surface
    /\ lit' = r.lit /\ kernel' = r.kernel /\ off' = r.off
    /\ heads' = r.heads /\ exposed' = r.exposed /\ memory' = r.memory
    /\ primary' = r.primary /\ faults' = r.faults
    /\ oddities' = r.oddities /\ crashed' = r.crashed

-----------------------------------------------------------------------------
(* Outcomes: a world, whether `?` returned, and the outputs to announce.     *)
Done(r, added) == [world |-> r, ok |-> TRUE, added |-> added]
Failed(r) == [world |-> r, ok |-> FALSE, added |-> {}]
Odd(r, what) == [r EXCEPT !.oddities = @ \cup {what}]

\* A call that may fail: on with the next step, or out with an error.
Then(outcomes, Step(_)) ==
    UNION {IF o.ok THEN Step(o) ELSE {o} : o \in outcomes}
Faulty(r) ==
    LET what == IF "fault" \in r.oddities THEN "faults" ELSE "fault"
    IN  IF r.faults > 0
        THEN {Failed(Odd([r EXCEPT !.faults = @ - 1], what))} ELSE {}
Try(r, added) == {Done(r, added)} \cup Faulty(r)

OutputsOf(r, d) == {r.output[c] : c \in On(d)} \ {Nil}
SurfaceOf(r, c) ==
    IF \E k \in Crtcs : r.surface[k] = c
    THEN CHOOSE k \in Crtcs : r.surface[k] = c ELSE NoCrtc
Known(r, d) == Contains(r.devices, d)

\* Dropping surfaces: their compositors go, and the kernel turns them off.
WithoutSurfaces(r, ks) ==
    [r EXCEPT !.surface = [k \in Crtcs |-> IF k \in ks THEN Dark ELSE @[k]],
              !.lit = @ \ ks,
              !.kernel = [c \in Names |-> IF @[c] \in ks THEN NoCrtc ELSE @[c]]]

AddHeads(r, os) ==
    [r EXCEPT !.heads =
        @ \o SelectSeq(SetToSeq(os), LAMBDA o : ~Contains(r.heads, o))]
RemoveHeads(r, os) == [r EXCEPT !.heads = SelectSeq(@, LAMBDA o : o \notin os)]

-----------------------------------------------------------------------------
(* The CRTCs the kernel uses are kept, the rest is matched in order.         *)
DisplayConfiguration(r, d) ==
    LET here == On(d) \cap r.plugged
        first(used) ==
            IF CrtcsOf(d) \subseteq used THEN NoCrtc
            ELSE Min(CrtcsOf(d) \ used)
        match(m, c) ==
            IF c \in here /\ m[c] = NoCrtc
            THEN [m EXCEPT ![c] = first({m[x] : x \in here})] ELSE m
    IN  FoldLeft(match, [c \in here |-> r.kernel[c]], Connectors)

\* A CRTC still driving a monitor that is gone is turned off.
CleanedUp(r, d) ==
    [r EXCEPT !.kernel = [c \in Names |->
        IF c \in On(d) \ r.plugged THEN NoCrtc ELSE @[c]]]

Added(r, d) ==
    LET m == DisplayConfiguration(r, d)
    IN  {c \in DOMAIN m :
            IF SurfaceOf(r, c) # NoCrtc THEN m[c] # SurfaceOf(r, c)
                                        ELSE r.output[c] = Nil}
Removed(r, d) ==
    LET m == DisplayConfiguration(r, d)
    IN  {c \in On(d) :
            /\ r.output[c] # Nil
            /\ c \in DOMAIN m =>
                 SurfaceOf(r, c) # NoCrtc /\ m[c] # SurfaceOf(r, c)}

\* The smallest number not in use is as good as any for a new object.
NewOutput(r, c) ==
    LET used == Range(r.heads) \cup r.exposed \cup Range(r.output)
    IN  <<c, Min({n \in 1 .. Len(r.heads) + Cardinality(r.exposed) + 1 :
                    <<c, n>> \notin used})>>

\* Without a CRTC, or if its thread can not be started, the output is disabled.
ConnectorAdded(r, c, crtc) ==
    LET new == r.output[c] = Nil
        o == IF new THEN NewOutput(r, c) ELSE r.output[c]
        found == [r EXCEPT !.output[c] = o, !.off = IF new THEN @ \ {o} ELSE @]
        driven == [WithoutSurfaces(found, {crtc}) EXCEPT !.surface[crtc] = c]
        disabled == [found EXCEPT !.off = @ \cup {o}]
    IN  IF crtc = NoCrtc
        THEN {Done(disabled, {o})} \cup Faulty(r)
        ELSE {Done(driven, {o})} \cup Faulty(r)
             \cup {Done(x.world, {o}) : x \in Faulty(disabled)}

\* A connector that can not be set up is skipped.
ConnectorsAdded(r, crtcOf) ==
    LET add(outcomes, c) ==
            IF c \notin DOMAIN crtcOf THEN outcomes
            ELSE UNION {{Done(x.world, o.added \cup x.added) :
                           x \in ConnectorAdded(o.world, c, crtcOf[c])} :
                        o \in outcomes}
    IN  FoldLeft(add, {Done(r, {})}, Connectors)

-----------------------------------------------------------------------------
DeviceAdded(r, d) ==
    LET enumerated == Then(Try(r, {}), LAMBDA o :
            ConnectorsAdded(CleanedUp(o.world, d),
                            DisplayConfiguration(o.world, d)))
    IN  IF ~r.active THEN {Done(r, {})}
        ELSE Then(enumerated, LAMBDA o :
                Try([AddHeads(o.world, o.added) EXCEPT
                        !.devices = Append(@, d)], o.added))

\* Mutant: the shell is not told which outputs are gone.
DeviceChanged_Untold(r, d) ==
    LET m == DisplayConfiguration(r, d)
        gone == Removed(r, d) \ Added(r, d)
        lost == {r.output[c] : c \in gone}
        kept == [WithoutSurfaces(CleanedUp(r, d),
                                 {SurfaceOf(r, c) : c \in Removed(r, d)})
                 EXCEPT !.output = [c \in Names |->
                                      IF c \in gone THEN Nil ELSE @[c]]]
        again == [c \in Added(r, d) |-> m[c]]
        told(o) == AddHeads(RemoveHeads(o.world, lost), o.added)
    IN  IF ~r.active THEN {Done(r, {})}
        ELSE IF ~Known(r, d) THEN Try(r, {})
        ELSE Faulty(r) \cup
             Then(ConnectorsAdded(kept, again),
                  LAMBDA o : Try(told(o), o.added))

\* Connectors that got another CRTC lose their surface and keep their output.
DeviceChanged(r, d) ==
    LET m == DisplayConfiguration(r, d)
        gone == Removed(r, d) \ Added(r, d)
        lost == {r.output[c] : c \in gone}
        kept == [WithoutSurfaces(CleanedUp(r, d),
                                 {SurfaceOf(r, c) : c \in Removed(r, d)})
                 EXCEPT !.output = [c \in Names |->
                                      IF c \in gone THEN Nil ELSE @[c]]]
        again == [c \in Added(r, d) |-> m[c]]
        told(o) == [AddHeads(RemoveHeads(o.world, lost), o.added) EXCEPT
                        !.exposed = @ \ lost]
    IN  IF ~r.active THEN {Done(r, {})}
        ELSE IF ~Known(r, d) THEN Try(r, {})
        ELSE Faulty(r) \cup
             Then(ConnectorsAdded(kept, again),
                  LAMBDA o : Try(told(o), o.added))

\* The device is taken out first; when it can not be opened again, its outputs
\* are left in the heads and in the shell.
ReopenDevice(r, d) ==
    LET shut == [WithoutSurfaces(r, CrtcsOf(d)) EXCEPT
                    !.devices = Remove(@, d),
                    !.output = [c \in Names |-> IF c \in On(d) THEN Nil
                                                ELSE @[c]]]
        m == DisplayConfiguration(r, d)
        old == {c \in DOMAIN m : r.output[c] # Nil}
        lost == OutputsOf(r, d) \ {r.output[c] : c \in old}
        kept == [CleanedUp(shut, d) EXCEPT
                    !.output = [c \in Names |-> IF c \in old THEN r.output[c]
                                                ELSE @[c]],
                    !.surface = [k \in Crtcs |->
                        IF \E c \in old : m[c] = k
                        THEN CHOOSE c \in old : m[c] = k ELSE @[k]],
                    !.off = @ \cup {r.output[c] :
                                      c \in {x \in old : m[x] = NoCrtc}}]
        new == [c \in DOMAIN m \ old |-> m[c]]
        back(o) == [AddHeads(RemoveHeads(o.world, lost), o.added) EXCEPT
                        !.exposed = @ \ lost, !.devices = Append(@, d)]
    IN  Faulty(shut) \cup
        Then(ConnectorsAdded(kept, new), LAMBDA o : Try(back(o), o.added))

\* Mutant: the device that was removed stays the primary one.
DeviceRemoved_StaysPrimary(r, d) ==
    LET told == {r.output[c] : c \in {x \in On(d) : SurfaceOf(r, x) # NoCrtc}}
        left == [RemoveHeads(WithoutSurfaces(r, CrtcsOf(d)), told) EXCEPT
                    !.devices = Remove(@, d),
                    !.output = [c \in Names |-> IF c \in On(d) THEN Nil
                                                ELSE @[c]],
                    !.exposed = IF r.active THEN @ \ told ELSE @,
                    !.primary = @]
        odd == IF OutputsOf(r, d) \subseteq told /\ (r.active \/ told = {})
               THEN left ELSE Odd(left, "stale")
    IN  IF Known(r, d) THEN Try(odd, {}) ELSE {Failed(r)}

\* Only outputs with a surface are told, and the shell only on our own VT.
DeviceRemoved(r, d) ==
    LET told == {r.output[c] : c \in {x \in On(d) : SurfaceOf(r, x) # NoCrtc}}
        left == [RemoveHeads(WithoutSurfaces(r, CrtcsOf(d)), told) EXCEPT
                    !.devices = Remove(@, d),
                    !.output = [c \in Names |-> IF c \in On(d) THEN Nil
                                                ELSE @[c]],
                    !.exposed = IF r.active THEN @ \ told ELSE @,
                    !.primary = IF @ = d THEN NoGpu ELSE @]
        odd == IF OutputsOf(r, d) \subseteq told /\ (r.active \/ told = {})
               THEN left ELSE Odd(left, "stale")
    IN  IF Known(r, d) THEN Try(odd, {}) ELSE {Failed(r)}

-----------------------------------------------------------------------------
(* Every output to be enabled is paired with the first free CRTC, and the    *)
(* same CRTC stays free for the next: of several, one keeps the surface.     *)
Paired(r, d, test) ==
    LET wanted == {c \in On(d) : /\ r.output[c] # Nil
                                 /\ r.output[c] \notin r.off
                                 /\ SurfaceOf(r, c) = NoCrtc}
        free == {k \in CrtcsOf(d) : r.surface[k] = Dark}
        unwanted == {k \in CrtcsOf(d) : /\ r.surface[k] # Dark
                                        /\ r.output[r.surface[k]] \in r.off}
        cleared == WithoutSurfaces(r, unwanted)
        seen == IF Cardinality(wanted) > 1 THEN Odd(cleared, "collision")
                                           ELSE cleared
    IN  IF wanted # {} /\ free = {} THEN {Failed(r)}
        ELSE IF test THEN {Done(r, {})}
        ELSE IF wanted = {} THEN {Done(cleared, {})}
        ELSE Faulty(r) \cup
             UNION {ConnectorAdded(seen, c, Min(free)) : c \in wanted}

\* Every surface gets its mode; one whose monitor is gone has none, and the
\* error leaves those before it resumed.
Lit(r) ==
    LET driven == {k \in Crtcs : r.surface[k] # Dark}
        on(ks) == [r EXCEPT
            !.lit = @ \cup ks,
            !.kernel = [c \in Names |->
                CASE SurfaceOf(r, c) \in ks -> SurfaceOf(r, c)
                  [] @[c] \in ks -> NoCrtc
                  [] OTHER -> @[c]]]
        gone == {k \in driven : r.surface[k] \notin r.plugged}
        some == SUBSET (driven \ gone)
    IN  IF gone # {} THEN {Failed(on(ks)) : ks \in some}
        ELSE {Done(on(driven), {})} \cup UNION {Faulty(on(ks)) : ks \in some}

KmsApply(r, test) ==
    LET pair(outcomes, d) ==
            Then(outcomes, LAMBDA o : Paired(o.world, d, test))
        paired == FoldLeft(pair, {Done(r, {})}, r.devices)
    IN  IF ~r.active THEN {Done(r, {})}
        ELSE IF test THEN Then(paired, LAMBDA o : Try(o.world, {}))
        ELSE Then(Then(paired, LAMBDA o : Try(o.world, {})),
                  LAMBDA o : Lit(o.world))

\* The shell's outputs follow, after a test as well.
Exposed(r) ==
    LET all == UNION {OutputsOf(r, d) : d \in Range(r.devices)}
    IN  [r EXCEPT !.exposed = (@ \ all) \cup (all \ r.off)]

ApplyConfigForOutputs(r, test) ==
    Then(KmsApply(r, test), LAMBDA o : {Done(Exposed(o.world), {})})

-----------------------------------------------------------------------------
\* The displays connected, by name, and what was decided for them.
SortedHeads(r) ==
    FlattenSeq([i \in DOMAIN Connectors |->
        SelectSeq(r.heads, LAMBDA o : o[1] = Connectors[i])])
Displays(r) == [i \in DOMAIN r.heads |-> SortedHeads(r)[i][1]]
Written(r) ==
    LET now == [i \in DOMAIN r.heads |-> SortedHeads(r)[i] \in r.off]
    IN  [r EXCEPT !.memory = [k \in DOMAIN @ \cup {Displays(r)} |->
                                IF k = Displays(r) THEN now ELSE @[k]]]

\* By name: the first head of that name is the one that is found.
Recalled(r) ==
    LET key == Displays(r)
        found(c) == SelectSeq(r.heads, LAMBDA o : o[1] = c)[1]
        last(c) == Max({i \in DOMAIN key : key[i] = c})
        names == Range(key)
    IN  [r EXCEPT !.off =
            (@ \ {found(c) : c \in names})
            \cup {found(c) : c \in {x \in names : r.memory[key][last(x)]}}]

\* Mutant: a configuration with a disabled output is not taken up.
Remembers_AllEnabled(r) ==
    /\ Displays(r) \in DOMAIN r.memory
    /\ \A i \in DOMAIN r.heads : ~r.memory[Displays(r)][i]

Remembers(r) ==
    /\ Displays(r) \in DOMAIN r.memory
    /\ \E i \in DOMAIN r.heads : ~r.memory[Displays(r)][i]

\* The configuration remembered for these displays, or else the one they have;
\* if it can not be had, the one before.
ReadOutputs(r) ==
    LET all == Range(r.heads)
        write(outcomes) ==
            Then(outcomes, LAMBDA o : {Done(Written(o.world), {})})
        first == ApplyConfigForOutputs(Recalled(r), FALSE)
        reset(o) ==
            ApplyConfigForOutputs(
                Odd([o.world EXCEPT !.off = (@ \ all) \cup (r.off \cap all)],
                    "reset"), FALSE)
        some == IF all \subseteq r.off THEN [r EXCEPT !.off = @ \ all] ELSE r
    IN  IF Remembers(r)
        THEN write({o \in first : o.ok}
                   \cup UNION {reset(o) : o \in {x \in first : ~x.ok}})
        ELSE write(ApplyConfigForOutputs(some, FALSE))

\* What can not be lit together with what was just found goes without it.
Refreshed(o) ==
    LET once == ReadOutputs(o.world)
        without(x) == [x.world EXCEPT !.off = @ \cup o.added]
    IN  {x.world : x \in {y \in once : y.ok \/ o.added = {}}}
        \cup UNION {{y.world : y \in ReadOutputs(without(x))} :
                      x \in {y \in once : ~y.ok /\ o.added # {}}}

\* A GPU is chosen when there is none; its formats are looked up unchecked.
WithPrimary(r) ==
    LET chosen == IF r.primary # NoGpu THEN {r.primary}
                  ELSE IF r.devices = <<>> THEN {NoGpu} ELSE Range(r.devices)
    IN  {[r EXCEPT !.primary = p,
                   !.crashed = p # NoGpu /\ ~Known(r, p)] : p \in chosen}

-----------------------------------------------------------------------------
Handled(outcomes, select) ==
    \E o \in outcomes :
        IF ~o.ok THEN Become(o.world)
        ELSE \E r \in IF select THEN WithPrimary(o.world) ELSE {o.world} :
               IF r.crashed THEN Become(r)
               ELSE \E x \in Refreshed([o EXCEPT !.world = r]) : Become(x)

Change == changes > 0 /\ changes' = changes - 1

UdevAdded(d) ==
    /\ d \notin present
    /\ Handled(DeviceAdded([World EXCEPT !.present = @ \cup {d}], d), TRUE)
    /\ UNCHANGED <<hinted, resuming, changes>>

UdevChanged(d) ==
    /\ d \in hinted
    /\ hinted' = hinted \ {d}
    /\ Handled(DeviceChanged(World, d), FALSE)
    /\ UNCHANGED <<resuming, changes>>

UdevRemoved(d) ==
    /\ d \in present
    /\ Change
    /\ hinted' = hinted \ {d}
    /\ Handled(DeviceRemoved([World EXCEPT !.present = @ \ {d}], d), TRUE)
    /\ UNCHANGED resuming

\* A monitor comes or goes.
Hotplug(c) ==
    /\ GpuOf[c] \in present
    /\ Change
    /\ hinted' = hinted \cup {GpuOf[c]}
    /\ plugged' = IF c \in plugged THEN plugged \ {c} ELSE plugged \cup {c}
    /\ UNCHANGED <<present, active, resuming, devices, output, surface, lit,
                   kernel, off, heads, exposed, memory, primary, faults,
                   oddities, crashed>>

PauseSession ==
    /\ active
    /\ Change
    /\ active' = FALSE
    /\ lit' = {}
    /\ UNCHANGED <<plugged, present, hinted, resuming, devices, output,
                   surface, kernel, off, heads, exposed, memory, primary,
                   faults, oddities, crashed>>

\* Another session has driven the monitors meanwhile as it liked.
Drivings ==
    {m \in [Names -> Crtcs \cup {NoCrtc}] :
        \A c \in Names : m[c] # NoCrtc =>
            /\ c \in plugged /\ GpuOfCrtc[m[c]] = GpuOf[c]
            /\ \A x \in Names \ {c} : m[x] # m[c]}

ResumeSession ==
    /\ ~active
    /\ active' = TRUE /\ resuming' = TRUE
    /\ kernel' \in Drivings
    /\ UNCHANGED <<plugged, present, hinted, devices, output, surface, lit,
                   off, heads, exposed, memory, primary, faults, changes,
                   oddities, crashed>>

\* A known device is looked at again, reopened, or given up.
Revived(r, d) ==
    LET gaveUp(r2) == {Done(x.world, {}) : x \in DeviceRemoved(r2, d)}
        reopened(r2) ==
            UNION {IF x.ok THEN {x} ELSE gaveUp(x.world) :
                     x \in ReopenDevice(r2, d)}
    IN  IF Known(r, d)
        THEN UNION {IF o.ok THEN {o} ELSE reopened(o.world) :
                      o \in DeviceChanged(r, d)}
        ELSE {Done(o.world, o.added) : o \in DeviceAdded(r, d)}

\* The idle callback of resume_session.
ReviveAll ==
    LET revive(outcomes, d) ==
            UNION {{Done(x.world, o.added \cup x.added) :
                      x \in Revived(o.world, d)} : o \in outcomes}
    IN  /\ resuming
        /\ resuming' = FALSE
        /\ Handled(FoldLeft(revive, {Done(World, {})}, SetToSeq(present)),
                   FALSE)
        /\ UNCHANGED <<hinted, changes>>

\* A client asks for a configuration, or for a test of it.
OutputConfiguration(disabled, test) ==
    LET all == Range(heads)
        odd == (IF test THEN {"test"} ELSE {})
               \cup (IF active THEN {} ELSE {"unseen"})
        asked == [World EXCEPT !.off = (@ \ all) \cup disabled,
                               !.oddities = @ \cup odd]
        before(o) == [o.world EXCEPT !.off = (@ \ all) \cup (off \cap all)]
        refused(o) ==
            IF test THEN {before(o)}
            ELSE {x.world : x \in ApplyConfigForOutputs(before(o), FALSE)}
    IN  /\ Change
        /\ disabled # all
        /\ \E o \in ApplyConfigForOutputs(asked, test) :
             \E r \in IF o.ok THEN {Written(o.world)} ELSE refused(o) :
                Become(r)
        /\ UNCHANGED <<hinted, resuming>>

Init ==
    /\ plugged = Names
    /\ present = {} /\ hinted = {} /\ active = TRUE /\ resuming = FALSE
    /\ devices = <<>>
    /\ output = [c \in Names |-> Nil]
    /\ surface = [k \in Crtcs |-> Dark]
    /\ lit = {} /\ kernel = [c \in Names |-> NoCrtc]
    /\ off = {} /\ heads = <<>> /\ exposed = {}
    /\ memory = [k \in {} |-> <<>>]
    /\ primary = NoGpu
    /\ \E b \in Budgets : changes = b[1] /\ faults = b[2]
    /\ oddities = {} /\ crashed = FALSE

Next ==
    /\ ~crashed
    /\ \/ \E d \in Devices :
            UdevAdded(d) \/ UdevChanged(d) \/ UdevRemoved(d)
       \/ \E c \in Names : Hotplug(c)
       \/ PauseSession \/ ResumeSession \/ ReviveAll
       \/ \E disabled \in SUBSET Range(heads), test \in BOOLEAN :
            OutputConfiguration(disabled, test)

Spec == Init /\ [][Next]_vars
-----------------------------------------------------------------------------
DeviceTypeOK ==
    /\ plugged \subseteq Names /\ present \subseteq Devices
    /\ hinted \subseteq present
    /\ IsInjective(devices) /\ Range(devices) \subseteq Devices
    /\ \A c \in Names : output[c] # Nil =>
         output[c][1] = c /\ Known(World, GpuOf[c])
    /\ \A k \in Crtcs : surface[k] # Dark =>
         GpuOf[surface[k]] = GpuOfCrtc[k] /\ output[surface[k]] # Nil
    /\ \A k, l \in Crtcs : surface[k] = surface[l] /\ k # l => surface[k] = Dark
    /\ lit \subseteq {k \in Crtcs : surface[k] # Dark}
    /\ IsInjective(heads)

\* Nothing is under way that will change the outputs.
Settled == active /\ ~resuming /\ hinted = {}

(* After any hotplug, VT switch and configuration in which no call failed,   *)
(* the devices, the heads of the protocol and the shell agree: every monitor *)
(* has its output, is a head, and is shown on exactly when it is enabled, on *)
(* a CRTC of its own.                                                        *)
OutputsFollow ==
    Settled /\ oddities \subseteq {"reset"} =>
        LET enabled == {o \in Range(heads) : o \notin off} IN
        /\ Range(devices) = present
        /\ {c \in Names : output[c] # Nil} =
             {c \in plugged : GpuOf[c] \in present}
        /\ Range(heads) = Range(output) \ {Nil}
        /\ exposed = enabled
        /\ {output[surface[k]] : k \in lit} = enabled
        /\ lit = {k \in Crtcs : surface[k] # Dark}

(* The primary GPU is one that is there; its formats are looked up with      *)
(* unwrap at every hotplug (update_default_feedback).  Holds with one        *)
(* failed call; a device that fails twice, on its way back from another VT,  *)
(* stays the primary one after it was lost.                                  *)
PrimaryIsKnown ==
    "faults" \notin oddities =>
        ~crashed /\ (primary # NoGpu => Known(World, primary))

(* What the user chose for a set of displays is remembered until the user    *)
(* chooses anew: no hotplug or VT switch changes it, unless it could not be  *)
(* had (Config::read_outputs, write_outputs).                                *)
ChoiceIsKept ==
    [][\A k \in DOMAIN memory :
         \/ memory'[k] = memory[k]
         \/ changes' < changes /\ present' = present  \* configured
         \/ oddities' # {}]_vars

(* src/backend/kms/mod.rs:1003 "test failed, we don't have a crtc for conn": *)
(* a configuration for which there are too few CRTCs is refused, so that     *)
(* every enabled output has a surface once it was applied.                   *)
EnabledHaveSurfaces ==
    Settled /\ oddities \subseteq {"collision"} =>
        \A o \in Range(heads) \ off : SurfaceOf(World, o[1]) # NoCrtc
=============================================================================
