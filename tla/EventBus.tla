------------------------------- MODULE EventBus -------------------------------
(* Events the compositor reports to the desktop's event bus                  *)
(* (src/event_bus.rs): a bounded channel that drops what does not fit, a     *)
(* thread that writes to a socket and reconnects, and the callers that       *)
(* report focus and fullscreen (src/shell/focus/mod.rs, xdg_shell handlers). *)
EXTENDS Integers, Sequences

CONSTANTS
    Windows,        \* application windows, each of an application of its own
    Kinds,          \* where else focus can be: shell surface, lock screen ...
    Nowhere,        \* the last focus before any was reported
    Capacity,       \* CHANNEL_CAPACITY
    MaxEvents       \* bound: events emitted

VARIABLES
    focus,          \* where keyboard focus is
    window,         \* state of each window
    lastFocused,    \* last_focused_app_id, windows and other kinds alike
    channel,        \* messages queued for the sender thread
    sender,         \* the sender thread: connecting, receiving, or receiving
                    \* with a connection that died unnoticed
    busUp,          \* whether something listens on the socket
    received,       \* what the bus received
    latest,         \* history: number of the latest focus event, 0 for none
    emitted         \* events emitted so far (only for the bound)

eventVars == <<focus, window, lastFocused, channel, sender, busUp, received,
               latest, emitted>>

Focus == Windows \cup Kinds
FocusEvent(to, from) ==
    [type |-> "focus", to |-> to, from |-> from, id |-> emitted + 1]
OtherEvent == [type |-> "other"]

EventInit ==
    /\ focus = Nowhere /\ lastFocused = Nowhere
    /\ window = [w \in Windows |-> "unmapped"]
    /\ channel = <<>> /\ sender = "connecting" /\ busUp = TRUE
    /\ received = <<>> /\ latest = 0
    /\ emitted = 0

-----------------------------------------------------------------------------
(* Emitting                                                                  *)

\* try_send: a message that does not fit is dropped.
Queue(e) ==
    channel' = IF Len(channel) < Capacity THEN Append(channel, e) ELSE channel

TrySend(e) ==
    /\ emitted < MaxEvents /\ emitted' = emitted + 1
    /\ Queue(e)
    /\ latest' = IF e.type = "focus" THEN e.id ELSE latest

\* Mutant: only windows are remembered, as if focus never left them.
Remember_Windows(to) ==
    lastFocused' = IF to \in Windows THEN to ELSE lastFocused

\* emit_window_focused and emit_window_focus_left share one memory.
Remember(to) == lastFocused' = to

\* set_focus reports every change of focus, unless it is to where the last
\* reported one was.
SetFocus(to) ==
    /\ to \in Windows => window[to] \in {"mapped", "fullscreen"}
    /\ focus' = to
    /\ IF lastFocused = to
       THEN UNCHANGED <<lastFocused, channel, latest, emitted>>
       ELSE Remember(to) /\ TrySend(FocusEvent(to, lastFocused))
    /\ UNCHANGED <<window, sender, busUp, received>>

\* Opened, minimized, copied: events that carry no state of their own.
EmitOther ==
    /\ TrySend(OtherEvent)
    /\ UNCHANGED <<focus, window, lastFocused, sender, busUp, received>>

Report ==
    /\ TrySend(OtherEvent)
    /\ UNCHANGED <<focus, lastFocused, sender, busUp, received>>

\* A client asks for fullscreen: reported at once if its window is mapped,
\* kept for map_window if it is not.
FullscreenRequest(w) ==
    \/ /\ window[w] \in {"mapped", "fullscreen"}
       /\ window' = [window EXCEPT ![w] = "fullscreen"]
       /\ Report
    \/ /\ window[w] = "unmapped"
       /\ window' = [window EXCEPT ![w] = "pending fullscreen"]
       /\ UNCHANGED <<focus, lastFocused, channel, sender, busUp, received,
                      latest, emitted>>

UnfullscreenRequest(w) ==
    /\ window[w] = "fullscreen"
    /\ window' = [window EXCEPT ![w] = "mapped"]
    /\ Report

\* The first commit maps the window and reports it as opened.
MapWindow(w) ==
    /\ window[w] \in {"unmapped", "pending fullscreen"}
    /\ window' = [window EXCEPT ![w] = IF @ = "unmapped" THEN "mapped"
                                       ELSE "fullscreen"]
    /\ Report

\* toplevel_destroyed reports it as closed.
Destroy(w) ==
    /\ window[w] \in {"mapped", "fullscreen"}
    /\ window' = [window EXCEPT ![w] = "gone"]
    /\ Report

-----------------------------------------------------------------------------
(* sender_thread                                                             *)

ConnectSocket ==
    /\ sender = "connecting" /\ busUp
    /\ sender' = "receiving"
    /\ UNCHANGED <<focus, window, lastFocused, channel, busUp, received,
                   latest, emitted>>

\* A message is taken off the channel before it is known to be written.
Write ==
    /\ channel # <<>>
    /\ \/ /\ sender = "receiving"
          /\ received' = Append(received, Head(channel))
          /\ channel' = Tail(channel)
          /\ UNCHANGED sender
       \/ /\ sender = "dead"
          /\ sender' = "connecting"
          /\ channel' = Tail(channel)
          /\ UNCHANGED received
    /\ UNCHANGED <<focus, window, lastFocused, busUp, latest, emitted>>

\* The bus stops: what it had not read yet is lost, and the sender thread
\* notices at its next write.
BusStops ==
    /\ busUp /\ busUp' = FALSE
    /\ \E n \in 0 .. Len(received) :
         /\ sender # "receiving" => n = Len(received)
         /\ received' = SubSeq(received, 1, n)
    /\ sender' = IF sender = "receiving" THEN "dead" ELSE sender
    /\ UNCHANGED <<focus, window, lastFocused, channel, latest, emitted>>

BusStarts ==
    /\ ~busUp /\ busUp' = TRUE
    /\ UNCHANGED <<focus, window, lastFocused, channel, sender, received,
                   latest, emitted>>

EventNext ==
    \/ \E to \in Focus : SetFocus(to)
    \/ EmitOther
    \/ \E w \in Windows : \/ FullscreenRequest(w) \/ UnfullscreenRequest(w)
                          \/ MapWindow(w) \/ Destroy(w)
    \/ ConnectSocket \/ Write \/ BusStops \/ BusStarts

EventSpec == EventInit /\ [][EventNext]_eventVars

-----------------------------------------------------------------------------
Told == received \o channel

\* The bus is told of this change of focus, now or once the channel is read.
FocusTold(i) == Told[i].type = "focus"

(* Whoever follows the bus knows, once the channel is drained, where focus   *)
(* is, unless the latest change of focus itself was lost: no earlier loss    *)
(* misleads it, and a focus that comes back after an event that was lost is  *)
(* not mistaken for the one reported before (event_bus.rs:68).               *)
OnlyTheLatestLossMisleads ==
    /\ latest = 0 => focus = Nowhere
    /\ \A i \in DOMAIN Told :
         FocusTold(i) /\ Told[i].id = latest
         => /\ Told[i].to = focus
            /\ \A j \in DOMAIN Told : FocusTold(j) => j <= i
=============================================================================
