------------------------------- MODULE Stack --------------------------------
(* A stack of windows (src/shell/element/stack.rs): its tabs and the active  *)
(* one, the keyboard it passes on to the active window, and the tab list it  *)
(* keeps at the shell, which draws the tab bar                               *)
(* (src/wayland/protocols/shell_overlay.rs).                                 *)
(*                                                                           *)
(* Tabs are kept by index, and so are the tab the keyboard last went to and  *)
(* the tab to go back to when focus leaves the stack; they are counted from  *)
(* 1 here.  Changes are sent to the shell from idle callbacks.  Out of the   *)
(* model: geometry, the pointer, and what becomes of a window that left.     *)
EXTENDS Integers, FiniteSets, SequencesExt

CONSTANTS
    Windows,     \* windows that may be in the stack
    Focusing,    \* whether the stack ever gets the keyboard
    MaxChanges,  \* bound: changes of the modifiers
    MaxQueue     \* bound: idle callbacks that wait

VARIABLES
    wins,         \* windows, in the order of the tabs
    active,       \* index of the active one
    remembered,   \* previous_index: the serial and the index, or NoIndex
    mods,         \* the seat's last modifier change, 0 before the first
    grouped,      \* group_focused: the stack as a whole has focus
    focused,      \* the seat's keyboard focus is the stack
    previous,     \* previous_keyboard: index the keyboard was last at
    reenter,      \* the window at that index is another one
    entered,      \* windows of the stack that think they have the keyboard
    alive,        \* override_alive
    listening,    \* a shell is bound to the protocol, all the time or never
    queue,        \* idle callbacks that will tell the shell
    tabs,         \* the shell's list of tabs
    shown,        \* the tab the shell shows as active, 0: none
    strayed,      \* history: an index the keyboard needs went out of date
    unannounced,  \* history: tabs moved or went without a word to the shell
    unshown,      \* history: another tab became active without a word to it
    unwrapped     \* a previous_index that is not there was unwrapped

keyboard == <<focused, previous, reenter, entered, strayed>>
shell == <<queue, tabs, shown>>
stackVars == <<wins, active, remembered, mods, grouped, keyboard, alive,
               listening, shell, unannounced, unshown, unwrapped>>

NoIndex == [serial |-> 0, idx |-> 0]
Added(i, w, on) == [kind |-> "tab_added", idx |-> i, win |-> w, on |-> on]
Removed(i) == [kind |-> "tab_removed", idx |-> i]
Activated(i) == [kind |-> "tab_activated", idx |-> i]

\* new: a stack of the windows of a group, or of one window.
StackInit ==
    /\ \E n \in 1..Cardinality(Windows) : wins \in [1..n -> Windows]
    /\ IsInjective(wins)
    /\ active = 1 /\ remembered = NoIndex /\ mods = 0 /\ grouped = FALSE
    /\ focused = FALSE /\ previous = 1 /\ reenter = FALSE /\ entered = {}
    /\ listening \in BOOLEAN
    /\ alive = TRUE /\ tabs = <<>> /\ shown = 0
    /\ queue = IF listening THEN [i \in DOMAIN wins |-> Added(i, wins[i], i = 1)]
               ELSE <<>>
    /\ strayed = FALSE /\ unannounced = FALSE /\ unshown = FALSE
    /\ unwrapped = FALSE

\* Any read of the active window panics when its index is out of range.
Going == alive /\ ~unwrapped /\ active \in DOMAIN wins
\* Mutant: the idle callbacks run in the reverse order.
Sent_Reversed(event) ==
    IF ~listening THEN UNCHANGED shell
    ELSE /\ Len(queue) < MaxQueue /\ Len(tabs) <= Cardinality(Windows)
         /\ queue' = <<event>> \o queue /\ UNCHANGED <<tabs, shown>>

Sent(event) ==
    IF ~listening THEN UNCHANGED shell
    ELSE /\ Len(queue) < MaxQueue /\ Len(tabs) <= Cardinality(Windows)
         /\ queue' = Append(queue, event) /\ UNCHANGED <<tabs, shown>>
\* The active tab may be another one by now, and the shell is not told.
Untold == unshown' = (unshown \/ (listening /\ active' # active))
-----------------------------------------------------------------------------
(* The keyboard.                                                             *)

\* keyboard_leave_if_previous, for the tabs `W` and the active one `a`: the
\* windows that have the keyboard after it.
Followed(W, a) ==
    LET behind == {W[i] : i \in {previous} \cap DOMAIN W}
    IN  IF previous # a THEN (entered \ behind) \cup {W[a]}
        ELSE IF reenter THEN entered \cup {W[a]}
        ELSE entered
\* The active tab changed, and no key has come since.
Behind == previous # active
Follow(a) == previous' = a /\ reenter' = (reenter /\ previous # a)

Enter ==
    /\ Going /\ Focusing /\ ~focused
    /\ grouped' \in {grouped, TRUE}
    /\ focused' = TRUE /\ previous' = active
    /\ entered' = entered \cup {wins[active]}
    /\ UNCHANGED <<wins, active, remembered, mods, alive, reenter, strayed,
                   shell, unannounced, unshown, unwrapped>>

Leave ==
    /\ Going /\ focused
    /\ focused' = FALSE /\ grouped' = FALSE
    /\ Follow(active) /\ entered' = Followed(wins, active) \ {wins[active]}
    /\ UNCHANGED <<wins, active, remembered, mods, alive, strayed, shell,
                   unannounced, unshown, unwrapped>>

\* key: a key that is no shortcut.
Key ==
    /\ Going /\ focused
    /\ Follow(active) /\ entered' = Followed(wins, active)
    /\ UNCHANGED <<wins, active, remembered, mods, grouped, focused, strayed,
                   alive, shell, unannounced, unshown, unwrapped>>

\* The modifiers change, and the focus learns of it.
Modifiers ==
    /\ Going /\ mods < MaxChanges
    /\ mods' = mods + 1
    /\ IF focused THEN Follow(active) /\ entered' = Followed(wins, active)
       ELSE UNCHANGED <<previous, reenter, entered>>
    /\ UNCHANGED <<wins, active, remembered, grouped, focused, strayed, alive,
                   shell, unannounced, unshown, unwrapped>>
-----------------------------------------------------------------------------
(* Shortcuts.                                                                *)

\* The index to go back to belongs to one press of the modifiers.
Remembering ==
    IF mods = 0 THEN NoIndex
    ELSE IF remembered.serial = mods THEN remembered
    ELSE [serial |-> mods, idx |-> active]

\* Another index is active, by a shortcut or a click on its tab.
Switch(i) ==
    /\ active' = i
    /\ IF i = active THEN UNCHANGED <<previous, strayed>>
       ELSE /\ previous' = active
            /\ strayed' = (strayed \/ (focused /\ Behind))
    /\ UNCHANGED <<focused, reenter, entered>>

\* Mutant: the index is decremented without checked_sub.
HandleFocus_Unchecked(d) ==
    LET next == IF d = "Left" THEN active - 1 ELSE active + 1
        inside == \/ d = "Left" /\ next \in 0..Len(wins)
                  \/ d = "Right" /\ next \in DOMAIN wins
    IN  /\ Going /\ focused
        /\ remembered' = Remembering
        /\ \/ grouped /\ UNCHANGED <<active, keyboard, unwrapped>>
           \/ ~grouped /\ inside /\ Switch(next) /\ UNCHANGED unwrapped
           \/ /\ ~grouped /\ ~inside /\ Remembering # NoIndex
              /\ Switch(Remembering.idx) /\ UNCHANGED unwrapped
           \/ /\ ~grouped /\ ~inside /\ Remembering = NoIndex
              /\ unwrapped' = TRUE /\ UNCHANGED <<active, keyboard>>
        /\ Untold
        /\ UNCHANGED <<wins, mods, grouped, alive, shell, unannounced>>

\* handle_focus: to the next tab, or past the last one and out of the stack,
\* which goes back to the tab it was at.
HandleFocus(d) ==
    LET next == IF d = "Left" THEN active - 1 ELSE active + 1
        inside == d \in {"Left", "Right"} /\ next \in DOMAIN wins
    IN  /\ Going /\ focused
        /\ remembered' = Remembering
        /\ \/ grouped /\ UNCHANGED <<active, keyboard, unwrapped>>
           \/ ~grouped /\ inside /\ Switch(next) /\ UNCHANGED unwrapped
           \/ /\ ~grouped /\ ~inside /\ Remembering # NoIndex
              /\ Switch(Remembering.idx) /\ UNCHANGED unwrapped
           \/ /\ ~grouped /\ ~inside /\ Remembering = NoIndex
              /\ unwrapped' = TRUE /\ UNCHANGED <<active, keyboard>>
        /\ Untold
        /\ UNCHANGED <<wins, mods, grouped, alive, shell, unannounced>>

\* handle_focus out of the tabs to the whole stack, and in again.
HandleFocusOut ==
    /\ Going /\ focused
    /\ remembered' = Remembering /\ grouped' \in BOOLEAN
    /\ UNCHANGED <<wins, active, mods, keyboard, alive, shell, unannounced,
                   unshown, unwrapped>>

\* handle_move inside the stack.
MoveTab(d) ==
    LET next == IF d = "Left" THEN active - 1 ELSE active + 1
    IN  /\ Going /\ focused /\ ~grouped /\ next \in DOMAIN wins
        /\ wins' = [wins EXCEPT ![active] = wins[next], ![next] = wins[active]]
        /\ Switch(next) /\ unannounced' = TRUE
        /\ UNCHANGED <<remembered, mods, grouped, alive, shell, unshown,
                       unwrapped>>

\* handle_move out of the stack; focus goes with the window.
MoveOut ==
    LET rest == RemoveAt(wins, active)
        a == IF remembered.idx \in DOMAIN rest THEN remembered.idx
             ELSE IF active > Len(rest) THEN active - 1 ELSE active
    IN  /\ Going /\ focused /\ ~grouped /\ Len(wins) > 1
        /\ wins' = rest /\ active' = a
        /\ focused' = FALSE /\ Follow(a)
        /\ entered' = Followed(rest, a) \ {rest[a], wins[active]}
        /\ strayed' = (strayed \/ Behind)
        /\ unannounced' = TRUE
        /\ UNCHANGED <<remembered, mods, grouped, alive, shell, unshown,
                       unwrapped>>
-----------------------------------------------------------------------------
(* Windows come and go.                                                      *)

\* set_active: a tab is clicked, or its window asks for activation.
SetActive(i) ==
    /\ Going /\ i \in DOMAIN wins
    /\ Switch(i)
    /\ IF i = active THEN UNCHANGED <<shell, unshown>>
       ELSE Sent(Activated(i)) /\ unshown' = FALSE
    /\ UNCHANGED <<wins, remembered, mods, grouped, alive, unannounced,
                   unwrapped>>

\* add_window at an index or at the end; `moved` says whether it was moved in
\* with the keyboard.
AddWindow(w, moved) ==
    /\ Going /\ w \notin Range(wins)
    /\ remembered' = IF moved THEN Remembering ELSE NoIndex
    /\ \/ \E i \in 1..(Len(wins) + 1) :
             /\ wins' = InsertAt(wins, i, w) /\ active' = i
             /\ reenter' = (reenter \/ i = active)
             /\ previous' = IF i = active THEN active ELSE previous
             /\ strayed' = (strayed \/ (focused /\ (Behind \/ i <= active)))
             /\ Sent(Added(i, w, TRUE))
       \/ /\ wins' = Append(wins, w) /\ active' = Len(wins) + 1
          /\ Sent(Added(Len(wins) + 1, w, TRUE))
          /\ strayed' = (strayed \/ (focused /\ Behind))
          /\ UNCHANGED <<previous, reenter>>
    /\ unshown' = FALSE
    /\ UNCHANGED <<mods, grouped, focused, entered, alive, unannounced,
                   unwrapped>>

\* Mutant: a window that takes the place of another is not entered.
RemoveWindow_Silent(i) ==
    LET rest == RemoveAt(wins, i)
    IN  /\ Going /\ i \in DOMAIN wins /\ Len(wins) > 1
        /\ wins' = rest
        /\ active' = IF active > Len(rest) THEN Len(rest) ELSE active
        /\ reenter' = reenter
        /\ remembered' = IF remembered.idx > Len(rest) THEN NoIndex
                         ELSE remembered
        /\ entered' = entered \ {wins[i]}
        /\ strayed' = (strayed \/ (focused /\ (Behind \/ i < active')))
        /\ Sent(Removed(i)) /\ Untold
        /\ UNCHANGED <<mods, grouped, focused, previous, alive, unannounced,
                       unwrapped>>

\* remove_window and remove_idx.
RemoveWindow(i) ==
    LET rest == RemoveAt(wins, i)
    IN  /\ Going /\ i \in DOMAIN wins /\ Len(wins) > 1
        /\ wins' = rest
        /\ active' = IF active > Len(rest) THEN Len(rest) ELSE active
        /\ reenter' = (reenter \/ i = active)
        /\ remembered' = IF remembered.idx > Len(rest) THEN NoIndex
                         ELSE remembered
        /\ entered' = entered \ {wins[i]}
        /\ strayed' = (strayed \/ (focused /\ (Behind \/ i < active')))
        /\ Sent(Removed(i)) /\ Untold
        /\ UNCHANGED <<mods, grouped, focused, previous, alive, unannounced,
                       unwrapped>>

RemoveLast ==
    /\ Going /\ Len(wins) = 1
    /\ alive' = FALSE
    /\ UNCHANGED <<wins, active, remembered, mods, grouped, keyboard, shell,
                   unannounced, unshown, unwrapped>>

\* refresh, after the client of the windows `gone` was disconnected and before
\* the stack was told: the others stay, in their order.
Refresh(gone) ==
    LET stay == {i \in DOMAIN wins : wins[i] \notin gone}
    IN  /\ Going /\ gone # {}
        /\ \E from \in Bijection(1..Cardinality(stay), stay) :
             /\ \A i, j \in DOMAIN from : i < j => from[i] < from[j]
             /\ wins' = IF stay = {} THEN <<wins[active]>>
                        ELSE [i \in DOMAIN from |-> wins[from[i]]]
        /\ active' = IF active > Len(wins') THEN Len(wins') ELSE active
        /\ entered' = entered \ gone
        /\ strayed' = (strayed \/ focused) /\ unannounced' = TRUE
        /\ UNCHANGED <<remembered, mods, grouped, focused, previous, reenter,
                       alive, shell, unshown, unwrapped>>

\* The shell's list and the tab it shows, after an event.
ListAfter(list, e) ==
    CASE e.kind = "tab_added" -> IF e.idx > Len(list) THEN Append(list, e.win)
                                 ELSE InsertAt(list, e.idx, e.win)
      [] e.kind = "tab_removed" -> IF e.idx > Len(list) THEN list
                                   ELSE RemoveAt(list, e.idx)
      [] OTHER -> list
ShownAfter(tab, e) ==
    IF e.kind = "tab_activated" \/ (e.kind = "tab_added" /\ e.on) THEN e.idx
    ELSE tab

\* The shell applies the oldest change it is sent.
Deliver ==
    /\ queue # <<>>
    /\ queue' = Tail(queue)
    /\ tabs' = ListAfter(tabs, Head(queue))
    /\ shown' = ShownAfter(shown, Head(queue))
    /\ UNCHANGED <<wins, active, remembered, mods, grouped, keyboard, alive,
                   unannounced, unshown, unwrapped>>

StackStep ==
    \/ Enter \/ Leave \/ Key \/ Modifiers \/ HandleFocusOut \/ MoveOut
    \/ \E d \in {"Left", "Right"} : MoveTab(d)
    \/ \E d \in {"Left", "Right", "Up"} : HandleFocus(d)
    \/ \E i \in DOMAIN wins : SetActive(i) \/ RemoveWindow(i)
    \/ \E w \in Windows, moved \in BOOLEAN : AddWindow(w, moved)
    \/ \E gone \in SUBSET Range(wins) : Refresh(gone)
    \/ RemoveLast \/ Deliver

StackNext == StackStep /\ UNCHANGED listening

StackSpec == StackInit /\ [][StackNext]_stackVars
-----------------------------------------------------------------------------
(* A stack is never empty and holds a window once.                           *)
StackTypeOK ==
    /\ wins # <<>> /\ IsInjective(wins) /\ Range(wins) \subseteq Windows
    /\ active \in Nat \ {0} /\ previous \in Nat \ {0}
    /\ remembered.serial <= mods /\ entered \subseteq Range(wins)

(* The index of the active window is out of range, for which every read of   *)
(* windows[active] panics, only after tabs went in handle_move or refresh,   *)
(* which do not forget an index that is too large: remove_window and         *)
(* remove_idx do, add_window and handle_focus can not make one.              *)
ActiveInRange == unannounced \/ active \in DOMAIN wins

(* Keys go to a window that was told it has the keyboard, and to no other,   *)
(* once keyboard_leave_if_previous has run: unless the active tab changed    *)
(* twice between two keys, or a tab in front of it came, went, or was lost.  *)
KeyboardFollows ==
    Going /\ ~strayed =>
        /\ Cardinality(entered) <= 1
        /\ focused /\ previous = active /\ ~reenter => entered = {wins[active]}
        /\ ~focused => entered = {}

(* When everything is sent the shell lists the tabs there are, in their      *)
(* order, whatever the order in which windows came and went meanwhile: each  *)
(* event has the index at the time of the change and they stay in order.     *)
(* The tab it shows as active is the active one, unless that changed by a    *)
(* shortcut or because a tab went: only clicks and new tabs are told.        *)
TabsCatchUp ==
    listening /\ queue = <<>> /\ ~unannounced =>
        tabs = wins /\ (shown = active \/ unshown)
=============================================================================
